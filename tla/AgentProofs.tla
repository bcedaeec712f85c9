----------------------------- MODULE AgentProofs ------------------------------
(***************************************************************************)
(* What the two machines that run an agent promise: that an assisted merge  *)
(* is confirmed, for any number of heads, decisions, acts of people and     *)
(* failures, and that a result which denies spend is about a prompt that    *)
(* was never sent, for any number of crashes.                               *)
(***************************************************************************)
EXTENDS MergeAssist, ModelCall, TLAPS

-----------------------------------------------------------------------------
(* The assisted merge *)


\* Heads that exist, and those that have been on the branch; the stages of the run
\* with a resolution that is not pushed, and those with a claim.
Known == 1..Len(commits)
Landed(h) == h \in Known /\ commits[h].landed
Unpushed == work.at \in {"stage", "label", "verify", "rollback", "push"}
Admitted == work.at \in {"prepare", "rebind", "apply"} \/ Unpushed

\* Who merges what: a head that somebody can name has been on the branch, and
\* the captain's merge and the assist run are about a head the captain decided.
HeadsAreKnown ==
    /\ Landed(tpull.head) /\ Landed(slip.head)
    /\ turn.at # "off" => Landed(turn.head)
    /\ turn.at # "off" /\ turn.by = "captain" => turn.head \in decided
    /\ wanted # 0 => Landed(wanted) /\ wanted \in decided
    /\ work.at # "off" => Landed(work.head) /\ work.head \in decided
    /\ Admitted => work.head \in admittedHeads

\* A resolution is new until it is pushed, and at most one run is about its head.
ResolutionsAreNew ==
    /\ Unpushed => /\ work.made \in Known /\ ~commits[work.made].landed
                   /\ commits[work.made].parent = work.head
    /\ late # 0 => /\ late \in Known /\ ~commits[late].landed
                   /\ Landed(commits[late].parent)
                   /\ commits[late].parent \in admittedHeads
    /\ late # 0 /\ Admitted => commits[late].parent # work.head

MergeEnds ==
    /\ tpull.merged # 0 => tpull.head = tpull.merged
    /\ turn.at = "tidy" => tpull.merged # 0
    /\ turn.at \in {"read", "final", "put"} => tpull.merged = 0

\* What stands between a resolution and an automatic merge.
Held == tpull.confirm \/ lifted
ResolutionsAreHeld ==
    /\ tpull.merged = 0 /\ commits[tpull.head].assisted =>
          Held \/ tpull.head \in decided
    /\ tpull.merged = 0 /\ late # 0 /\ tpull.head = commits[late].parent => Held
    /\ tpull.merged = 0 /\ work.at = "push" => Held
    /\ turn.at = "put" /\ turn.by = "scan" /\ tpull.head = turn.head
          /\ commits[turn.head].assisted => lifted \/ turn.head \in decided

RecordsAreTrue ==
    /\ slip.record.phase = "awaiting" => Landed(slip.record.resolution)
    /\ work.status = "pushed" => Landed(work.made)

AssistInv ==
    /\ AssistTypeOK
    /\ HeadsAreKnown
    /\ ResolutionsAreNew
    /\ MergeEnds
    /\ ResolutionsAreHeld
    /\ RecordsAreTrue
    /\ AssistedMergeIsConfirmed

\* What a step may do to the heads the branch ever had: none forgets who made
\* it, what it was made from, and that it has been the branch's head.
Kept ==
    /\ Len(commits') >= Len(commits)
    /\ \A h \in 1..Len(commits) :
          /\ commits'[h].assisted = commits[h].assisted
          /\ commits'[h].parent = commits[h].parent
          /\ commits[h].landed => commits'[h].landed

\* An entry replaced by another of the same making keeps what Kept says
\* (commits of merge_assist.py and of people).
LEMMA ReplaceKeeps ==
    ASSUME commits \in Seq(BranchHead), NEW i \in 1..Len(commits),
           NEW there \in BranchHead, commits' = [commits EXCEPT ![i] = there],
           there.assisted = commits[i].assisted, there.parent = commits[i].parent,
           commits[i].landed => there.landed
    PROVE  /\ commits' \in Seq(BranchHead) /\ Len(commits') = Len(commits)
           /\ Kept
           /\ commits'[i] = there
           /\ \A h \in 1..Len(commits) : h # i => commits'[h] = commits[h]
<1>1. commits' \in Seq(BranchHead) /\ Len(commits') = Len(commits)
  OBVIOUS
<1>2. commits'[i] = there /\ \A h \in 1..Len(commits) : h # i => commits'[h] = commits[h]
  OBVIOUS
<1>3. Kept
  BY <1>1, <1>2 DEF Kept
<1>4. QED BY <1>1, <1>2, <1>3

\* A head that reaches the branch keeps its making
\* (the push of merge_assist.push_resolution).
LEMMA LandKeeps ==
    ASSUME commits \in Seq(BranchHead), NEW i \in 1..Len(commits),
           commits' = [commits EXCEPT ![i].landed = TRUE]
    PROVE  /\ commits' \in Seq(BranchHead) /\ Len(commits') = Len(commits)
           /\ Kept
           /\ commits'[i].landed
           /\ \A h \in 1..Len(commits) : h # i => commits'[h] = commits[h]
<1> DEFINE there == [commits[i] EXCEPT !.landed = TRUE]
<1>1. commits[i] \in BranchHead
  OBVIOUS
<1>2. there \in BranchHead
  BY <1>1 DEF BranchHead
<1>3. /\ there.landed /\ there.assisted = commits[i].assisted
      /\ there.parent = commits[i].parent
  BY <1>1 DEF BranchHead
<1>4. commits' = [commits EXCEPT ![i] = there]
  OBVIOUS
<1> HIDE DEF there
<1>5. commits[i].landed => there.landed
  BY <1>3
<1>6. /\ commits' \in Seq(BranchHead) /\ Len(commits') = Len(commits)
      /\ Kept
      /\ commits'[i] = there
      /\ \A h \in 1..Len(commits) : h # i => commits'[h] = commits[h]
  BY <1>2, <1>3, <1>4, <1>5, ReplaceKeeps
<1>7. QED BY <1>3, <1>6

\* A base that moves changes nothing but whether the head merges cleanly
\* (the base branch of the pull request).
LEMMA BaseKeeps ==
    ASSUME commits \in Seq(BranchHead), NEW i \in 1..Len(commits),
           commits' = [commits EXCEPT ![i].clean = ~@]
    PROVE  /\ commits' \in Seq(BranchHead) /\ Len(commits') = Len(commits)
           /\ Kept
           /\ \A h \in 1..Len(commits) : commits'[h].landed = commits[h].landed
<1> DEFINE there == [commits[i] EXCEPT !.clean = ~@]
<1>1. commits[i] \in BranchHead
  OBVIOUS
<1>2. there \in BranchHead
  BY <1>1 DEF BranchHead
<1>3. /\ there.landed = commits[i].landed /\ there.assisted = commits[i].assisted
      /\ there.parent = commits[i].parent
  BY <1>1 DEF BranchHead
<1>4. commits' = [commits EXCEPT ![i] = there]
  OBVIOUS
<1> HIDE DEF there
<1>5. commits[i].landed => there.landed
  BY <1>3
<1>6. /\ commits' \in Seq(BranchHead) /\ Len(commits') = Len(commits)
      /\ Kept
      /\ commits'[i] = there
      /\ \A h \in 1..Len(commits) : h # i => commits'[h] = commits[h]
  BY <1>2, <1>3, <1>4, <1>5, ReplaceKeeps
<1>7. \A h \in 1..Len(commits) : commits'[h].landed = commits[h].landed
  BY <1>3, <1>6
<1>8. QED BY <1>6, <1>7

\* A new head is the last one (a contributor's push, or the commit of
\* merge_assist.commit_resolution).
LEMMA AppendKeeps ==
    ASSUME commits \in Seq(BranchHead), NEW new \in BranchHead,
           commits' = Append(commits, new)
    PROVE  /\ commits' \in Seq(BranchHead) /\ Len(commits') = Len(commits) + 1
           /\ Kept
           /\ commits'[Len(commits) + 1] = new
           /\ \A h \in 1..Len(commits) : commits'[h] = commits[h]
BY DEF Kept


-----------------------------------------------------------------------------
(* What the updates leave *)

AssistStages == {"off", "bind", "claim", "prepare", "rebind", "apply", "stage",
                 "label", "verify", "rollback", "push", "observe", "record"}
Statuses == {"none", "escalated", "resolved", "claim-intent", "target-claimed",
             "push-failed", "pushed"}

\* A failed call leaves the number of failures in its range
\* (the bound of the model, no code).
LEMMA BreakCounts ==
    ASSUME breaks \in 0..MaxBreaks, NEW o \in Ends, Break(o)
    PROVE  breaks' \in 0..MaxBreaks
BY AssistAssumption DEF AssistAssumption, Ends, Break

\* A step that goes on changes the stage only (merge-assist.yml).
LEMMA WorkGoes ==
    ASSUME work \in Work, NEW a \in AssistStages, Goes(a)
    PROVE  /\ work' \in Work /\ work'.at = a /\ work'.status = work.status
           /\ work'.head = work.head /\ work'.made = work.made
BY DEF Goes, Work, AssistStages

\* A step that fails escalates, about the same head (merge_assist._fail).
LEMMA WorkEscalates ==
    ASSUME work \in Work, Escalates
    PROVE  /\ work' \in Work /\ work'.at = "record" /\ work'.status = "escalated"
           /\ work'.head = work.head /\ work'.made = work.made
BY DEF Escalates, Work

\* What an update of the merge's stage leaves (apply_decision.do_merge).
LEMMA TurnUpdates ==
    ASSUME turn \in Turn, NEW a \in {"off", "read", "final", "put", "tidy"},
           NEW p \in BOOLEAN,
           \/ turn' = [turn EXCEPT !.at = a]
           \/ turn' = [turn EXCEPT !.at = a, !.pending = p]
    PROVE  turn' \in Turn /\ turn'.at = a /\ turn'.head = turn.head /\ turn'.by = turn.by
<1>1. CASE turn' = [turn EXCEPT !.at = a]
  BY <1>1 DEF Turn
<1>2. CASE turn' = [turn EXCEPT !.at = a, !.pending = p]
  BY <1>2 DEF Turn
<1>3. QED BY <1>1, <1>2

\* A merge starts with the head of its card (apply_decision.do_merge).
LEMMA TurnStarts ==
    ASSUME NEW h \in HeadOrNone, NEW b \in {"captain", "scan"},
           turn' = [NoTurn EXCEPT !.at = "read", !.by = b, !.head = h]
    PROVE  turn' \in Turn /\ turn'.at = "read" /\ turn'.head = h /\ turn'.by = b
BY DEF Turn, NoTurn

\* What the idle run and the idle merge are (no workflow is running).
LEMMA NothingUnderway ==
    /\ NoTurn \in Turn /\ NoTurn.at = "off"
    /\ NoWork \in Work /\ NoWork.at = "off" /\ NoWork.status = "none"
BY AssistAssumption DEF AssistAssumption, HeadOrNone, NoTurn, NoWork, Turn, Work

\* A run starts with the head it was dispatched for (merge-assist.yml).
LEMMA WorkStarts ==
    ASSUME NEW h \in HeadOrNone, work' = [NoWork EXCEPT !.at = "bind", !.head = h]
    PROVE  work' \in Work /\ work'.at = "bind" /\ work'.head = h /\ work'.status = "none"
BY NothingUnderway DEF Work

-----------------------------------------------------------------------------
(* Steps that change the assist run alone, or the merge alone *)

\* A step of the assist run alone keeps the invariant when the run is about a
\* decided head which no other push is about, its resolution is new, and it goes to
\* the push only with the label set (merge_assist.py, job resolve).
LEMMA WorkMoves ==
    ASSUME AssistInv,
           UNCHANGED <<commits, tpull, slip, turn, late, assistHistory, stirs, turns2>>,
           breaks' \in 0..MaxBreaks, work' \in Work, wanted' \in {0, wanted},
           admittedHeads \subseteq admittedHeads', admittedHeads' \in SUBSET HeadNumbers,
           work'.at # "off" => Landed(work'.head) /\ work'.head \in decided,
           Admitted' => work'.head \in admittedHeads',
           Admitted' /\ late # 0 => commits[late].parent # work'.head,
           Unpushed' => /\ work'.made \in Known /\ ~commits[work'.made].landed
                        /\ commits[work'.made].parent = work'.head,
           tpull.merged = 0 /\ work'.at = "push" => Held,
           work'.status = "pushed" => Landed(work'.made)
    PROVE  AssistInv'
<1> USE DEF AssistInv, assistHistory
<1>1. AssistTypeOK'
  BY AssistAssumption DEF AssistAssumption, AssistTypeOK, HeadOrNone
<1>2. HeadsAreKnown'
  BY DEF HeadsAreKnown, Landed, Known
<1>3. ResolutionsAreNew'
  BY DEF ResolutionsAreNew, Landed, Known
<1>4. MergeEnds'
  BY DEF MergeEnds
<1>5. ResolutionsAreHeld'
  BY DEF ResolutionsAreHeld, Held
<1>6. RecordsAreTrue'
  BY DEF RecordsAreTrue, Landed, Known
<1>7. AssistedMergeIsConfirmed'
  BY DEF AssistedMergeIsConfirmed, ResolutionsAreConfirmed, AwaitingWasPushed
<1>8. QED BY <1>1, <1>2, <1>3, <1>4, <1>5, <1>6, <1>7

\* A step within one run, about one head and one resolution, keeps the invariant
\* (merge_assist.py).
LEMMA WorkGoesOn ==
    ASSUME AssistInv, work.at # "off",
           UNCHANGED <<commits, tpull, slip, turn, wanted, admittedHeads, late,
                       assistHistory, stirs, turns2>>,
           breaks' \in 0..MaxBreaks, work' \in Work,
           work'.head = work.head, work'.made = work.made,
           Admitted' => Admitted, Unpushed' => Unpushed,
           work'.at = "push" => tpull.confirm,
           work'.status = "pushed" => work.status = "pushed" \/ tpull.head = work.made
    PROVE  AssistInv'
<1>1. Landed(work'.head) /\ work'.head \in decided
  BY DEF AssistInv, HeadsAreKnown
<1>2. /\ Admitted' => work'.head \in admittedHeads
      /\ Admitted' /\ late # 0 => commits[late].parent # work'.head
  BY DEF AssistInv, HeadsAreKnown, ResolutionsAreNew
<1>3. Unpushed' => /\ work'.made \in Known /\ ~commits[work'.made].landed
                   /\ commits[work'.made].parent = work'.head
  BY DEF AssistInv, ResolutionsAreNew
<1>4. work'.status = "pushed" => Landed(work'.made)
  BY DEF AssistInv, RecordsAreTrue, HeadsAreKnown
<1>5. work'.at = "push" => Held
  BY DEF Held
<1>6. admittedHeads \in SUBSET HeadNumbers
  BY DEF AssistInv, AssistTypeOK
<1>7. QED BY <1>1, <1>2, <1>3, <1>4, <1>5, <1>6, WorkMoves

\* A step of the decision or of the scan alone keeps the invariant when a captain's
\* head is a decided one and the scan goes to the merge call only past the label
\* (apply_decision.do_merge, auto_merge.act_merge).
LEMMA TurnMoves ==
    ASSUME AssistInv,
           UNCHANGED <<commits, tpull, slip, work, admittedHeads, late, lifted, stirs>>,
           breaks' \in 0..MaxBreaks, turns2' \in 0..MaxTurns2, turn' \in Turn,
           decided \subseteq decided', decided' \in SUBSET HeadNumbers,
           wanted' \in HeadOrNone,
           wanted' # 0 => Landed(wanted') /\ wanted' \in decided',
           turn'.at # "off" => Landed(turn'.head),
           turn'.at # "off" /\ turn'.by = "captain" => turn'.head \in decided',
           turn'.at # "off" => tpull.merged = 0 /\ turn'.at # "tidy",
           turn'.at = "put" /\ turn'.by = "scan" /\ tpull.head = turn'.head
              /\ commits[turn'.head].assisted => lifted \/ turn'.head \in decided'
    PROVE  AssistInv'
<1> USE DEF AssistInv
<1>1. AssistTypeOK'
  BY DEF AssistTypeOK
<1>2. HeadsAreKnown'
  BY DEF HeadsAreKnown, Landed, Known, Admitted, Unpushed
<1>3. ResolutionsAreNew'
  BY DEF ResolutionsAreNew, Landed, Known, Admitted, Unpushed
<1>4. MergeEnds'
  BY DEF MergeEnds
<1>5. ResolutionsAreHeld'
  BY DEF ResolutionsAreHeld, Held
<1>6. RecordsAreTrue'
  BY DEF RecordsAreTrue, Landed, Known
<1>7. AssistedMergeIsConfirmed'
  BY DEF AssistedMergeIsConfirmed, ResolutionsAreConfirmed, AwaitingWasPushed
<1>8. QED BY <1>1, <1>2, <1>3, <1>4, <1>5, <1>6, <1>7



-----------------------------------------------------------------------------
(* The merge and the scan *)

\* The decision, the scan and the reads before the merge call keep the invariant
\* (apply_decision.do_merge, auto_merge.act_merge).
LEMMA TurnKeeps ==
    ASSUME AssistInv,
           \/ DecideMerge \/ ScanActs \/ ReadTargetLabel \/ FinalReads
    PROVE  AssistInv'
<1>0. /\ turn \in Turn /\ tpull \in TargetPull /\ slip \in AssistCard
      /\ breaks \in 0..MaxBreaks /\ turns2 \in 0..MaxTurns2
      /\ wanted \in HeadOrNone /\ decided \in SUBSET HeadNumbers
  BY DEF AssistInv, AssistTypeOK
<1>1. /\ Landed(slip.head) /\ slip.head \in HeadNumbers /\ slip.head \in HeadOrNone
      /\ wanted # 0 => Landed(wanted) /\ wanted \in decided
  BY <1>0 DEF AssistInv, HeadsAreKnown, AssistCard, HeadNumbers, HeadOrNone
<1>2. CASE DecideMerge
  <2>1. /\ turn' \in Turn /\ turn'.at = "read" /\ turn'.head = slip.head
        /\ turn'.by = "captain"
    BY <1>1, <1>2, TurnStarts DEF DecideMerge
  <2>2. decided \subseteq decided' /\ decided' \in SUBSET HeadNumbers
        /\ slip.head \in decided'
    BY <1>0, <1>1, <1>2 DEF DecideMerge
  <2>3. turns2' \in 0..MaxTurns2
    BY <1>0, <1>2, AssistAssumption DEF DecideMerge, AssistAssumption
  <2>4. /\ UNCHANGED <<commits, tpull, slip, work, admittedHeads, late, lifted, stirs,
                       wanted, breaks>>
        /\ tpull.merged = 0
    BY <1>2 DEF DecideMerge
  <2>5. QED BY <1>0, <1>1, <2>1, <2>2, <2>3, <2>4, TurnMoves
<1>3. CASE ScanActs
  <2>1. /\ turn' \in Turn /\ turn'.at = "read" /\ turn'.head = slip.head
        /\ turn'.by = "scan"
    BY <1>1, <1>3, TurnStarts DEF ScanActs
  <2>2. turns2' \in 0..MaxTurns2
    BY <1>0, <1>3, AssistAssumption DEF ScanActs, AssistAssumption
  <2>3. /\ UNCHANGED <<commits, tpull, slip, work, admittedHeads, late, lifted, decided,
                       stirs, wanted, breaks>>
        /\ tpull.merged = 0
    BY <1>3 DEF ScanActs, assistHistory
  <2>4. QED BY <1>0, <1>1, <2>1, <2>2, <2>3, TurnMoves
<1>4. CASE ReadTargetLabel
  <2>1. PICK o \in Ends :
          /\ Break(o)
          /\ \/ turn' = NoTurn
             \/ turn' = [turn EXCEPT !.at = "final", !.pending = tpull.confirm]
    BY <1>4 DEF ReadTargetLabel
  <2>2. turn.at = "read" /\ tpull.merged = 0 /\ Landed(turn.head)
        /\ (turn.by = "captain" => turn.head \in decided)
    BY <1>4 DEF ReadTargetLabel, AssistInv, MergeEnds, HeadsAreKnown
  <2>3. breaks' \in 0..MaxBreaks
    BY <1>0, <2>1, BreakCounts
  <2>4. /\ turn' \in Turn
        /\ \/ turn'.at = "off"
           \/ turn'.at = "final" /\ turn'.head = turn.head /\ turn'.by = turn.by
    <3>1. CASE turn' = NoTurn
      BY <3>1, NothingUnderway
    <3>2. CASE turn' = [turn EXCEPT !.at = "final", !.pending = tpull.confirm]
      <4>1. tpull.confirm \in BOOLEAN
        BY <1>0 DEF TargetPull
      <4>2. QED BY <1>0, <3>2, <4>1, TurnUpdates
    <3>3. QED BY <2>1, <3>1, <3>2
  <2>5. UNCHANGED <<commits, tpull, slip, work, admittedHeads, late, lifted, decided,
                    stirs, wanted, turns2>>
    BY <1>4 DEF ReadTargetLabel, assistHistory
  <2>6. QED BY <1>0, <1>1, <2>2, <2>3, <2>4, <2>5, TurnMoves
<1>5. CASE FinalReads
  <2>1. turn.at = "final" /\ tpull.merged = 0 /\ Landed(turn.head)
        /\ (turn.by = "captain" => turn.head \in decided)
    BY <1>5 DEF FinalReads, AssistInv, MergeEnds, HeadsAreKnown
  <2>2. CASE turn' = NoTurn
    <3>1. UNCHANGED <<commits, tpull, slip, work, admittedHeads, late, lifted, decided,
                      stirs, wanted, turns2, breaks>>
      BY <1>5 DEF FinalReads, assistHistory
    <3>2. QED BY <1>0, <1>1, <2>2, <3>1, NothingUnderway, TurnMoves
  <2>3. CASE turn' # NoTurn
    <3>1. /\ turn' = [turn EXCEPT !.at = "put"]
          /\ tpull.head = turn.head
          /\ turn.by = "scan" => ~tpull.confirm
      BY <1>5, <2>3 DEF FinalReads, ConfirmationHolds
    <3>2. /\ turn' \in Turn /\ turn'.at = "put" /\ turn'.head = turn.head
          /\ turn'.by = turn.by
      BY <1>0, <3>1, TurnUpdates DEF Turn
    <3>3. turn.by = "scan" /\ commits[turn.head].assisted =>
             lifted \/ turn.head \in decided
      BY <2>1, <3>1 DEF AssistInv, ResolutionsAreHeld, Held
    <3>4. UNCHANGED <<commits, tpull, slip, work, admittedHeads, late, lifted, decided,
                      stirs, wanted, turns2, breaks>>
      BY <1>5 DEF FinalReads, assistHistory
    <3>5. QED BY <1>0, <1>1, <2>1, <3>2, <3>3, <3>4, TurnMoves
  <2>4. QED BY <2>2, <2>3
<1>6. QED BY <1>2, <1>3, <1>4, <1>5

\* The merge call, the dispatch of the assist run and the removal of the label after
\* the merge keep the invariant (apply_decision.do_merge).
LEMMA MergeKeeps ==
    ASSUME AssistInv, PutMerge \/ TidyLabel
    PROVE  AssistInv'
<1>0. /\ turn \in Turn /\ tpull \in TargetPull
      /\ breaks \in 0..MaxBreaks /\ turns2 \in 0..MaxTurns2
      /\ wanted \in HeadOrNone /\ decided \in SUBSET HeadNumbers
  BY DEF AssistInv, AssistTypeOK
<1>1. wanted # 0 => Landed(wanted) /\ wanted \in decided
  BY DEF AssistInv, HeadsAreKnown
<1>2. CASE PutMerge
  <2>0. turn.at = "put" /\ tpull.merged = 0 /\ Landed(turn.head)
        /\ (turn.by = "captain" => turn.head \in decided)
        /\ UNCHANGED <<commits, slip, work, admittedHeads, late, lifted, decided, stirs,
                       turns2>>
    BY <1>2 DEF PutMerge, assistHistory, AssistInv, MergeEnds, HeadsAreKnown
  <2>1. CASE tpull.head # turn.head
    <3>1. turn' = NoTurn /\ UNCHANGED <<tpull, wanted, breaks>>
      BY <1>2, <2>1 DEF PutMerge
    <3>2. QED BY <1>0, <1>1, <2>0, <3>1, NothingUnderway, TurnMoves
  <2>2. CASE tpull.head = turn.head /\ ~commits[turn.head].clean
    <3>1. turn' = NoTurn /\ UNCHANGED tpull
      BY <1>2, <2>2 DEF PutMerge
    <3>2. PICK o \in Ends :
            /\ Break(o)
            /\ wanted' = IF turn.by = "captain" /\ wanted = 0 /\ o = "well"
                         THEN turn.head ELSE wanted
      BY <1>2, <2>2 DEF PutMerge
    <3>3. breaks' \in 0..MaxBreaks
      BY <1>0, <3>2, BreakCounts
    <3>4. wanted' \in HeadOrNone /\ (wanted' # 0 => Landed(wanted') /\ wanted' \in decided)
      BY <1>0, <1>1, <2>0, <3>2 DEF Turn
    <3>5. QED BY <1>0, <2>0, <3>1, <3>3, <3>4, NothingUnderway, TurnMoves
  <2>3. CASE tpull.head = turn.head /\ commits[turn.head].clean
    <3>1. /\ tpull' = [tpull EXCEPT !.merged = turn.head, !.by = turn.by]
          /\ turn' = IF turn.pending THEN [turn EXCEPT !.at = "tidy"] ELSE NoTurn
          /\ UNCHANGED <<wanted, breaks>>
      BY <1>2, <2>3 DEF PutMerge
    <3>2. /\ turn' \in Turn /\ turn'.at \in {"off", "tidy"}
          /\ turn'.at # "off" => turn'.head = turn.head /\ turn'.by = turn.by
      <4>1. CASE turn.pending
        BY <1>0, <3>1, <4>1, TurnUpdates DEF Turn
      <4>2. CASE ~turn.pending
        BY <3>1, <4>2, NothingUnderway
      <4>3. QED BY <4>1, <4>2
    <3>3. /\ tpull' \in TargetPull /\ tpull'.merged = turn.head /\ tpull'.by = turn.by
          /\ tpull'.head = tpull.head /\ tpull'.confirm = tpull.confirm
      BY <1>0, <3>1 DEF Turn, TargetPull
    <3>4. turn.head # 0 /\ turn.by \in {"captain", "scan"}
      BY <1>0, <2>0 DEF Landed, Known, Turn
    <3>5. commits[turn.head].assisted =>
             turn.by = "captain" \/ lifted \/ turn.head \in decided
      BY <2>0, <2>3, <3>4 DEF AssistInv, ResolutionsAreHeld
    <3> HIDE DEF AssistInv
    <3>6. AssistTypeOK'
      BY <2>0, <3>1, <3>2, <3>3 DEF AssistInv, AssistTypeOK
    <3>7. HeadsAreKnown'
      BY <2>0, <3>1, <3>2, <3>3
      DEF AssistInv, HeadsAreKnown, Landed, Known, Admitted, Unpushed
    <3>8. ResolutionsAreNew'
      BY <2>0 DEF AssistInv, ResolutionsAreNew, Landed, Known, Admitted, Unpushed
    <3>9. MergeEnds' /\ ResolutionsAreHeld'
      BY <2>3, <3>2, <3>3, <3>4 DEF MergeEnds, ResolutionsAreHeld
    <3>10. RecordsAreTrue'
      BY <2>0 DEF AssistInv, RecordsAreTrue, Landed, Known
    <3>11. AssistedMergeIsConfirmed'
      BY <2>0, <3>3, <3>5
      DEF AssistInv, AssistedMergeIsConfirmed, ResolutionsAreConfirmed, AwaitingWasPushed
    <3>12. QED BY <3>6, <3>7, <3>8, <3>9, <3>10, <3>11 DEF AssistInv
  <2>4. QED BY <2>1, <2>2, <2>3
<1>3. CASE TidyLabel
  <2>1. PICK o \in Ends :
          Break(o) /\ tpull' = [tpull EXCEPT !.confirm = @ /\ o # "well"]
    BY <1>3 DEF TidyLabel
  <2>2. breaks' \in 0..MaxBreaks
    BY <1>0, <2>1, BreakCounts
  <2>3. /\ tpull' \in TargetPull /\ tpull'.head = tpull.head
        /\ tpull'.merged = tpull.merged /\ tpull'.by = tpull.by
    BY <1>0, <2>1 DEF TargetPull
  <2>4. turn' = NoTurn /\ tpull.merged # 0
        /\ UNCHANGED <<commits, slip, work, wanted, admittedHeads, late, lifted, decided,
                       stirs, turns2>>
    BY <1>3 DEF TidyLabel, assistHistory, AssistInv, MergeEnds
  <2>5. AssistTypeOK'
    BY <2>2, <2>3, <2>4, NothingUnderway DEF AssistInv, AssistTypeOK
  <2>6. HeadsAreKnown'
    BY <2>3, <2>4, NothingUnderway
    DEF AssistInv, HeadsAreKnown, Landed, Known, Admitted, Unpushed
  <2>7. ResolutionsAreNew'
    BY <2>4 DEF AssistInv, ResolutionsAreNew, Landed, Known, Admitted, Unpushed
  <2>8. MergeEnds' /\ ResolutionsAreHeld'
    BY <2>3, <2>4, NothingUnderway DEF AssistInv, MergeEnds, ResolutionsAreHeld
  <2>9. RecordsAreTrue'
    BY <2>4 DEF AssistInv, RecordsAreTrue, Landed, Known
  <2>10. AssistedMergeIsConfirmed'
    BY <2>3, <2>4
    DEF AssistInv, AssistedMergeIsConfirmed, ResolutionsAreConfirmed, AwaitingWasPushed
  <2>11. QED BY <2>5, <2>6, <2>7, <2>8, <2>9, <2>10 DEF AssistInv
<1>4. QED BY <1>2, <1>3



-----------------------------------------------------------------------------
(* The assist run up to the resolution *)

\* Binding, the claim of the event and the two preparations keep the invariant: one
\* claim per head is why two runs are never about one head (merge_assist.bind,
\* agent_claim.claim, merge_assist.prepare).
LEMMA PreparationKeeps ==
    ASSUME AssistInv,
           \/ BeginAssist \/ BindTarget \/ ClaimAssistEvent \/ PrepareMerge
           \/ RebindTarget
    PROVE  AssistInv'
<1>0. /\ work \in Work /\ breaks \in 0..MaxBreaks /\ wanted \in HeadOrNone
      /\ admittedHeads \in SUBSET HeadNumbers /\ Len(commits) \in HeadNumbers
  BY DEF AssistInv, AssistTypeOK
<1>1. CASE BeginAssist
  <2>1. Landed(wanted) /\ wanted \in decided
    BY <1>1 DEF BeginAssist, AssistInv, HeadsAreKnown
  <2>2. work' \in Work /\ work'.at = "bind" /\ work'.head = wanted
        /\ work'.status = "none"
    BY <1>0, <1>1, WorkStarts DEF BeginAssist
  <2>3. /\ UNCHANGED <<commits, tpull, slip, turn, admittedHeads, late, assistHistory,
                       stirs, turns2, breaks>>
        /\ wanted' = 0
    BY <1>1 DEF BeginAssist
  <2>4. ~Admitted' /\ ~Unpushed'
    BY <2>2 DEF Admitted, Unpushed
  <2>5. QED BY <1>0, <2>1, <2>2, <2>3, <2>4, WorkMoves
<1>2. CASE BindTarget
  <2>1. PICK o \in Ends : Break(o) /\ (Goes("claim") \/ Escalates)
    BY <1>2 DEF BindTarget
  <2>2. breaks' \in 0..MaxBreaks
    BY <1>0, <2>1, BreakCounts
  <2>3. /\ work' \in Work /\ work'.head = work.head /\ work'.made = work.made
        /\ work'.at \in {"claim", "record"}
        /\ work'.status \in {work.status, "escalated"}
    BY <1>0, <2>1, WorkGoes, WorkEscalates DEF AssistStages
  <2>4. ~Admitted' /\ ~Unpushed' /\ work.at # "off" /\ work'.at # "push"
    BY <1>2, <2>3 DEF BindTarget, Admitted, Unpushed
  <2>5. UNCHANGED <<commits, tpull, slip, turn, wanted, admittedHeads, late,
                    assistHistory, stirs, turns2>>
    BY <1>2 DEF BindTarget
  <2>6. QED BY <2>2, <2>3, <2>4, <2>5, WorkGoesOn
<1>3. CASE ClaimAssistEvent
  <2>1. PICK o \in Ends :
          /\ Break(o)
          /\ IF o = "well" /\ work.head \notin admittedHeads
             THEN /\ admittedHeads' = admittedHeads \cup {work.head}
                  /\ Goes("prepare")
             ELSE /\ work' = NoWork /\ UNCHANGED admittedHeads
    BY <1>3 DEF ClaimAssistEvent
  <2>2. breaks' \in 0..MaxBreaks
    BY <1>0, <2>1, BreakCounts
  <2>3. /\ UNCHANGED <<commits, tpull, slip, turn, late, assistHistory, stirs, turns2>>
        /\ wanted' = wanted /\ work.at = "claim"
    BY <1>3 DEF ClaimAssistEvent
  <2>4. Landed(work.head) /\ work.head \in decided
    BY <2>3 DEF AssistInv, HeadsAreKnown
  <2>5. CASE o = "well" /\ work.head \notin admittedHeads
    <3>1. /\ work' \in Work /\ work'.head = work.head /\ work'.made = work.made
          /\ work'.at = "prepare" /\ work'.status = work.status
      BY <1>0, <2>1, <2>5, WorkGoes DEF AssistStages
    <3>2. ~Unpushed' /\ work'.at # "push"
      BY <3>1 DEF Unpushed
    <3>3. late # 0 => commits[late].parent # work.head
      BY <2>5 DEF AssistInv, ResolutionsAreNew
    <3>4. work.head \in HeadNumbers
      BY <1>0, <2>4, AssistAssumption DEF Landed, Known, HeadNumbers, AssistAssumption
    <3>5. /\ admittedHeads \subseteq admittedHeads' /\ work.head \in admittedHeads'
          /\ admittedHeads' \in SUBSET HeadNumbers
      BY <1>0, <2>1, <2>5, <3>4
    <3>6. work'.status = "pushed" => Landed(work'.made)
      BY <3>1 DEF AssistInv, RecordsAreTrue
    <3>7. QED BY <2>2, <2>3, <2>4, <3>1, <3>2, <3>3, <3>5, <3>6, WorkMoves
  <2>6. CASE ~(o = "well" /\ work.head \notin admittedHeads)
    <3>1. work' = NoWork /\ UNCHANGED admittedHeads
      BY <2>1, <2>6
    <3>2. ~Unpushed' /\ ~Admitted'
      BY <3>1, NothingUnderway DEF Unpushed, Admitted
    <3>3. QED BY <1>0, <2>2, <2>3, <3>1, <3>2, NothingUnderway, WorkMoves
  <2>7. QED BY <2>5, <2>6
<1>4. CASE PrepareMerge \/ RebindTarget
  <2>1. Goes("rebind") \/ Goes("apply") \/ Escalates
    BY <1>4 DEF PrepareMerge, RebindTarget
  <2>2. /\ work' \in Work /\ work'.head = work.head /\ work'.made = work.made
        /\ work'.at \in {"rebind", "apply", "record"}
        /\ work'.status \in {work.status, "escalated"}
    BY <1>0, <2>1, WorkGoes, WorkEscalates DEF AssistStages
  <2>3. Admitted /\ ~Unpushed' /\ work.at # "off" /\ work'.at # "push"
    BY <1>4, <2>2 DEF PrepareMerge, RebindTarget, Admitted, Unpushed
  <2>4. UNCHANGED <<commits, tpull, slip, turn, wanted, admittedHeads, late,
                    assistHistory, stirs, turns2, breaks>>
    BY <1>4 DEF PrepareMerge, RebindTarget
  <2>5. QED BY <1>0, <2>2, <2>3, <2>4, WorkGoesOn
<1>5. QED BY <1>1, <1>2, <1>3, <1>4

\* The commit of the resolution is a new head of which the branch knows nothing
\* (merge_assist.apply_resolution, commit_resolution).
LEMMA ResolutionKeeps ==
    ASSUME AssistInv, ApplyResolution
    PROVE  AssistInv'
<1>0. /\ work \in Work /\ breaks \in 0..MaxBreaks /\ commits \in Seq(BranchHead)
      /\ Len(commits) \in HeadNumbers /\ Len(commits) \in Nat
      /\ MaxCommits \in Nat
  BY AssistAssumption DEF AssistInv, AssistTypeOK, HeadNumbers, AssistAssumption
<1>1. /\ work.at = "apply" /\ Landed(work.head) /\ work.head \in decided
      /\ work.head \in admittedHeads /\ (late # 0 => commits[late].parent # work.head)
      /\ UNCHANGED <<tpull, slip, turn, wanted, admittedHeads, late, assistHistory,
                     stirs, turns2, breaks>>
  BY DEF ApplyResolution, AssistInv, HeadsAreKnown, ResolutionsAreNew, Admitted
<1>2. CASE Escalates /\ UNCHANGED commits
  <2>1. /\ work' \in Work /\ work'.head = work.head /\ work'.made = work.made
        /\ work'.at = "record" /\ work'.status = "escalated"
    BY <1>0, <1>2, WorkEscalates
  <2>2. ~Admitted' /\ ~Unpushed'
    BY <2>1 DEF Admitted, Unpushed
  <2>3. QED BY <1>0, <1>1, <1>2, <2>1, <2>2, WorkGoesOn
<1>3. CASE ~(Escalates /\ UNCHANGED commits)
  <2>1. PICK clean \in BOOLEAN :
          commits' = Append(commits,
                       [assisted |-> TRUE, parent |-> work.head,
                        joins |-> TRUE, clean |-> clean, landed |-> FALSE])
    BY <1>3 DEF ApplyResolution
  <2> DEFINE new == [assisted |-> TRUE, parent |-> work.head,
                     joins |-> TRUE, clean |-> clean, landed |-> FALSE]
             n == Len(commits) + 1
  <2>2. new \in BranchHead /\ ~new.landed /\ new.parent = work.head
    BY <1>0 DEF BranchHead, Work
  <2>3. commits' = Append(commits, new)
    BY <2>1
  <2> HIDE DEF new
  <2>4. /\ commits' \in Seq(BranchHead) /\ Len(commits') = n
        /\ commits'[n] = new
        /\ \A h \in 1..Len(commits) : commits'[h] = commits[h]
    BY <1>0, <2>2, <2>3, AppendKeeps
  <2>5. Len(commits) < MaxCommits
        /\ work' = [work EXCEPT !.at = "stage", !.status = "resolved", !.made = n]
    BY <1>3 DEF ApplyResolution
  <2>6. n \in HeadNumbers /\ n \in HeadOrNone
    BY <1>0, <2>5 DEF HeadNumbers, HeadOrNone
  <2>7. /\ work' \in Work /\ work'.at = "stage" /\ work'.status = "resolved"
        /\ work'.head = work.head /\ work'.made = n
    BY <1>0, <2>5, <2>6 DEF Work
  <2>8. n \in Known' /\ ~commits'[n].landed /\ commits'[n].parent = work.head
    BY <1>0, <2>2, <2>4 DEF Known
  <2>9. \A h : h \in Known => h \in Known' /\ commits'[h] = commits[h]
    BY <1>0, <2>4 DEF Known
  <2> HIDE DEF n
  <2>10. AssistTypeOK'
    BY <1>1, <2>4, <2>6, <2>7 DEF AssistInv, AssistTypeOK, assistHistory
  <2>11. HeadsAreKnown'
    BY <1>1, <2>7, <2>9 DEF AssistInv, HeadsAreKnown, Landed, assistHistory
  <2>12. ResolutionsAreNew'
    BY <1>1, <2>7, <2>8, <2>9 DEF AssistInv, ResolutionsAreNew, Landed
  <2>13. MergeEnds'
    BY <1>1 DEF AssistInv, MergeEnds
  <2>14. Landed(tpull.head) /\ (turn.at # "off" => Landed(turn.head))
         /\ (late # 0 => late \in Known)
    BY DEF AssistInv, HeadsAreKnown, ResolutionsAreNew
  <2>15. ResolutionsAreHeld'
    BY <1>1, <2>7, <2>9, <2>14
    DEF AssistInv, ResolutionsAreHeld, Held, Landed, assistHistory
  <2>16. RecordsAreTrue'
    BY <1>1, <2>7, <2>9 DEF AssistInv, RecordsAreTrue, Landed
  <2>17. AssistedMergeIsConfirmed'
    BY <1>1, <2>9, <2>14
    DEF AssistInv, AssistedMergeIsConfirmed, ResolutionsAreConfirmed, AwaitingWasPushed,
        MergeEnds, RecordsAreTrue, Landed, assistHistory
  <2>18. QED BY <2>10, <2>11, <2>12, <2>13, <2>15, <2>16, <2>17 DEF AssistInv
<1>4. QED BY <1>2, <1>3



-----------------------------------------------------------------------------
(* The assist run from the claim of the target to the record *)

\* The steps that change nothing but the run's own stage and status keep the
\* invariant (merge_assist.cmd_claim_target, cmd_observe_push, the runner).
LEMMA RunKeeps ==
    ASSUME AssistInv,
           \/ StageClaim \/ VerifyConfirmation \/ ObservePush \/ WorkDies
    PROVE  AssistInv'
<1>0. work \in Work /\ breaks \in 0..MaxBreaks
  BY DEF AssistInv, AssistTypeOK
<1>1. /\ work.at # "off"
      /\ UNCHANGED <<commits, tpull, slip, turn, wanted, admittedHeads, late,
                     assistHistory, stirs, turns2>>
  BY DEF StageClaim, VerifyConfirmation, ObservePush, WorkDies
<1>2. CASE StageClaim
  <2>1. PICK o \in Ends :
          /\ Break(o)
          /\ \/ work' = [work EXCEPT !.at = "label", !.status = "claim-intent"]
             \/ Escalates
    BY <1>2 DEF StageClaim
  <2>2. breaks' \in 0..MaxBreaks
    BY <1>0, <2>1, BreakCounts
  <2>3. /\ work' \in Work /\ work'.head = work.head /\ work'.made = work.made
        /\ work'.at \in {"label", "record"}
        /\ work'.status \in {"claim-intent", "escalated"}
    <3>1. CASE Escalates
      BY <1>0, <3>1, WorkEscalates
    <3>2. CASE work' = [work EXCEPT !.at = "label", !.status = "claim-intent"]
      BY <1>0, <3>2 DEF Work
    <3>3. QED BY <2>1, <3>1, <3>2
  <2>4. Admitted /\ Unpushed /\ work'.at # "push" /\ work'.status # "pushed"
    BY <1>2, <2>3 DEF StageClaim, Admitted, Unpushed
  <2>5. QED BY <1>1, <2>2, <2>3, <2>4, WorkGoesOn
<1>3. CASE VerifyConfirmation
  <2>1. CASE Escalates /\ UNCHANGED breaks
    <3>1. /\ work' \in Work /\ work'.head = work.head /\ work'.made = work.made
          /\ work'.at = "record" /\ work'.status = "escalated"
      BY <1>0, <2>1, WorkEscalates
    <3>2. ~Admitted' /\ ~Unpushed'
      BY <3>1 DEF Admitted, Unpushed
    <3>3. QED BY <1>0, <1>1, <2>1, <3>1, <3>2, WorkGoesOn
  <2>2. CASE ~(Escalates /\ UNCHANGED breaks)
    <3>1. tpull.confirm /\ work.at = "verify"
      BY <1>3, <2>2 DEF VerifyConfirmation
    <3>2. PICK o \in Ends :
            /\ Break(o)
            /\ \/ work' = [work EXCEPT !.at = "push", !.status = "target-claimed"]
               \/ Goes("rollback")
      BY <1>3, <2>2 DEF VerifyConfirmation
    <3>3. breaks' \in 0..MaxBreaks
      BY <1>0, <3>2, BreakCounts
    <3>4. /\ work' \in Work /\ work'.head = work.head /\ work'.made = work.made
          /\ work'.at \in {"push", "rollback"}
          /\ work'.status \in {"target-claimed", work.status}
      <4>1. CASE Goes("rollback")
        BY <1>0, <4>1, WorkGoes DEF AssistStages
      <4>2. CASE work' = [work EXCEPT !.at = "push", !.status = "target-claimed"]
        BY <1>0, <4>2 DEF Work
      <4>3. QED BY <3>2, <4>1, <4>2
    <3>5. Admitted /\ Unpushed
      BY <3>1 DEF Admitted, Unpushed
    <3>6. QED BY <1>1, <3>1, <3>3, <3>4, <3>5, WorkGoesOn
  <2>3. QED BY <2>1, <2>2
<1>4. CASE ObservePush
  <2>1. PICK o \in Ends :
          /\ Break(o)
          /\ \/ work' = [work EXCEPT !.at = "record"] /\ work.status = "pushed"
             \/ work' = [work EXCEPT !.at = "record", !.status = "escalated",
                                     !.outcome = "uncertain"]
             \/ /\ work' = [work EXCEPT !.at = "record", !.status = "pushed"]
                /\ tpull.head = work.made
             \/ work' = [work EXCEPT !.at = "record", !.status = "escalated",
                                     !.outcome = "not-pushed"]
    BY <1>4 DEF ObservePush
  <2>2. breaks' \in 0..MaxBreaks
    BY <1>0, <2>1, BreakCounts
  <2>3. /\ work' \in Work /\ work'.head = work.head /\ work'.made = work.made
        /\ work'.at = "record"
        /\ work'.status = "pushed" => work.status = "pushed" \/ tpull.head = work.made
    <3>1. CASE work' = [work EXCEPT !.at = "record"] /\ work.status = "pushed"
      BY <1>0, <3>1 DEF Work
    <3>2. CASE /\ work' = [work EXCEPT !.at = "record", !.status = "pushed"]
               /\ tpull.head = work.made
      BY <1>0, <3>2 DEF Work
    <3>3. CASE work' = [work EXCEPT !.at = "record", !.status = "escalated",
                                    !.outcome = "uncertain"]
      BY <1>0, <3>3 DEF Work
    <3>4. CASE work' = [work EXCEPT !.at = "record", !.status = "escalated",
                                    !.outcome = "not-pushed"]
      BY <1>0, <3>4 DEF Work
    <3>5. QED BY <2>1, <3>1, <3>2, <3>3, <3>4
  <2>4. ~Admitted' /\ ~Unpushed' /\ work'.at # "push"
    BY <2>3 DEF Admitted, Unpushed
  <2>5. QED BY <1>1, <2>2, <2>3, <2>4, WorkGoesOn
<1>5. CASE WorkDies
  <2>1. breaks' \in 0..MaxBreaks
    BY <1>0, <1>5, AssistAssumption DEF WorkDies, AssistAssumption
  <2>2. CASE work' = NoWork
    <3>1. ~Admitted' /\ ~Unpushed' /\ work'.at = "off" /\ work'.status = "none"
      BY <2>2, NothingUnderway DEF Admitted, Unpushed
    <3>2. admittedHeads \in SUBSET HeadNumbers
      BY DEF AssistInv, AssistTypeOK
    <3>3. QED BY <1>1, <2>1, <2>2, <3>1, <3>2, NothingUnderway, WorkMoves
  <2>3. CASE Goes("record")
    <3>1. /\ work' \in Work /\ work'.head = work.head /\ work'.made = work.made
          /\ work'.at = "record" /\ work'.status = work.status
      BY <1>0, <2>3, WorkGoes DEF AssistStages
    <3>2. ~Admitted' /\ ~Unpushed'
      BY <3>1 DEF Admitted, Unpushed
    <3>3. QED BY <1>1, <2>1, <3>1, <3>2, WorkGoesOn
  <2>4. QED BY <1>5, <2>2, <2>3 DEF WorkDies
<1>6. QED BY <1>2, <1>3, <1>4, <1>5

\* A step about the label keeps the invariant when a held head stays held, or when
\* the head is a decided one that nobody pushes to (merge_assist.py).
LEMMA LabelMoves ==
    ASSUME AssistInv,
           UNCHANGED <<commits, slip, wanted, admittedHeads, late, decided, turns2, turn>>,
           stirs' \in 0..MaxStirs, breaks' \in 0..MaxBreaks,
           tpull' \in TargetPull, tpull'.head = tpull.head,
           tpull'.merged = tpull.merged, tpull'.by = tpull.by,
           lifted' \in BOOLEAN,
           \/ Held => Held'
           \/ /\ tpull.head \in decided /\ work'.at # "push"
              /\ late # 0 => commits[late].parent # tpull.head,
           lifted => lifted' \/ tpull.head \in decided,
           work' \in Work,
           \/ UNCHANGED work
           \/ /\ work.at # "off" /\ work'.head = work.head /\ work'.made = work.made
              /\ work'.status = "pushed" => work.status = "pushed"
              /\ Admitted' => Admitted
              /\ Unpushed' => Unpushed
              /\ work'.at # "push"
    PROVE  AssistInv'
<1>1. AssistTypeOK'
  BY DEF AssistInv, AssistTypeOK
<1>2. HeadsAreKnown'
  BY DEF AssistInv, HeadsAreKnown, Landed, Known, Admitted, Unpushed
<1>3. ResolutionsAreNew'
  BY DEF AssistInv, ResolutionsAreNew, Landed, Known, Admitted, Unpushed
<1>4. MergeEnds'
  BY DEF AssistInv, MergeEnds
<1>5. tpull.merged = 0 /\ commits[tpull.head].assisted => Held' \/ tpull.head \in decided
  BY DEF AssistInv, ResolutionsAreHeld
<1>6. tpull.merged = 0 /\ late # 0 /\ tpull.head = commits[late].parent => Held'
  BY DEF AssistInv, ResolutionsAreHeld
<1>7. tpull.merged = 0 /\ work'.at = "push" => Held'
  BY DEF AssistInv, ResolutionsAreHeld
<1>8. ResolutionsAreHeld'
  <2>1. turn.at = "put" /\ turn.by = "scan" /\ tpull.head = turn.head
          /\ commits[turn.head].assisted => lifted' \/ turn.head \in decided
    BY DEF AssistInv, ResolutionsAreHeld
  <2>2. QED BY <1>5, <1>6, <1>7, <2>1 DEF ResolutionsAreHeld
<1>9. RecordsAreTrue'
  BY DEF AssistInv, RecordsAreTrue, Landed, Known
<1>10. AssistedMergeIsConfirmed'
  <2>1. tpull.merged # 0 => tpull.head = tpull.merged
    BY DEF AssistInv, MergeEnds
  <2>2. QED
    BY <2>1 DEF AssistInv, AssistedMergeIsConfirmed, ResolutionsAreConfirmed,
                AwaitingWasPushed
<1>11. QED BY <1>1, <1>2, <1>3, <1>4, <1>8, <1>9, <1>10 DEF AssistInv

\* Setting the label, rolling it back on the bound head and what people do with it
\* keep the invariant; the rollback because the bound head is one the captain decided
\* (merge_assist.apply_confirmation_denial, rollback_confirmation_denial).
LEMMA LabelKeeps ==
    ASSUME AssistInv, SetConfirmation \/ RollBack \/ PersonLabels
    PROVE  AssistInv'
<1>0. /\ work \in Work /\ breaks \in 0..MaxBreaks /\ stirs \in 0..MaxStirs
      /\ tpull \in TargetPull /\ lifted \in BOOLEAN
  BY DEF AssistInv, AssistTypeOK
<1>1. CASE SetConfirmation
  <2>1. /\ UNCHANGED <<commits, slip, turn, wanted, admittedHeads, late, decided, stirs,
                       turns2>>
        /\ work.at = "label"
    BY <1>1 DEF SetConfirmation
  <2>2. Admitted /\ Unpushed /\ work.head \in decided
    BY <2>1 DEF Admitted, Unpushed, AssistInv, HeadsAreKnown
  <2>3. CASE tpull.head # work.head \/ tpull.noAssist
    <3>1. Escalates /\ UNCHANGED <<tpull, lifted, breaks>>
      BY <1>1, <2>3 DEF SetConfirmation
    <3>2. /\ work' \in Work /\ work'.head = work.head /\ work'.made = work.made
          /\ work'.at = "record" /\ work'.status = "escalated"
      BY <1>0, <3>1, WorkEscalates
    <3>3. ~Admitted' /\ ~Unpushed'
      BY <3>2 DEF Admitted, Unpushed
    <3>4. QED BY <1>0, <2>1, <3>1, <3>2, <3>3, WorkGoesOn DEF assistHistory
  <2>4. CASE ~(tpull.head # work.head \/ tpull.noAssist)
    <3>1. PICK o \in Ends, set \in BOOLEAN :
            /\ Break(o)
            /\ tpull' = [tpull EXCEPT !.confirm = @ \/ set]
            /\ lifted' = (lifted /\ ~set)
            /\ Goes("verify") \/ Escalates
      BY <1>1, <2>4 DEF SetConfirmation
    <3>2. breaks' \in 0..MaxBreaks
      BY <1>0, <3>1, BreakCounts
    <3>3. /\ tpull' \in TargetPull /\ tpull'.head = tpull.head
          /\ tpull'.merged = tpull.merged /\ tpull'.by = tpull.by
          /\ tpull'.confirm = (tpull.confirm \/ set)
      BY <1>0, <3>1 DEF TargetPull
    <3>4. /\ work' \in Work /\ work'.head = work.head /\ work'.made = work.made
          /\ work'.at \in {"verify", "record"}
          /\ work'.status \in {work.status, "escalated"}
      BY <1>0, <3>1, WorkGoes, WorkEscalates DEF AssistStages
    <3>5. Held => Held'
      BY <3>1, <3>3 DEF Held
    <3>6. /\ lifted => lifted' \/ tpull.head \in decided
          /\ lifted' \in BOOLEAN
      BY <2>2, <2>4, <3>1
    <3>7. QED BY <1>0, <2>1, <2>2, <3>2, <3>3, <3>4, <3>5, <3>6, LabelMoves
  <2>5. QED BY <2>3, <2>4
<1>2. CASE RollBack
  <2>1. /\ UNCHANGED <<commits, slip, turn, wanted, admittedHeads, late, lifted, decided,
                       stirs, turns2>>
        /\ work.at = "rollback"
    BY <1>2 DEF RollBack, assistHistory
  <2>2. Admitted /\ work.head \in decided /\ (late # 0 => commits[late].parent # work.head)
    BY <2>1 DEF Admitted, Unpushed, AssistInv, HeadsAreKnown, ResolutionsAreNew
  <2>3. PICK o \in Ends :
          /\ Break(o)
          /\ \/ /\ tpull.head = work.head
                /\ tpull' = [tpull EXCEPT !.confirm = FALSE]
                /\ Escalates
             \/ /\ work' = [work EXCEPT !.at = "record", !.status = "escalated",
                                        !.outcome = "uncertain"]
                /\ UNCHANGED tpull
    BY <1>2 DEF RollBack
  <2>4. breaks' \in 0..MaxBreaks
    BY <1>0, <2>3, BreakCounts
  <2>5. CASE /\ tpull.head = work.head
             /\ tpull' = [tpull EXCEPT !.confirm = FALSE]
             /\ Escalates
    <3>1. /\ work' \in Work /\ work'.head = work.head /\ work'.made = work.made
          /\ work'.at = "record" /\ work'.status = "escalated"
      BY <1>0, <2>5, WorkEscalates
    <3>2. ~Admitted' /\ ~Unpushed'
      BY <3>1 DEF Admitted, Unpushed
    <3>3. /\ tpull' \in TargetPull /\ tpull'.head = tpull.head
          /\ tpull'.merged = tpull.merged /\ tpull'.by = tpull.by
      BY <1>0, <2>5 DEF TargetPull
    <3>4. QED BY <1>0, <2>1, <2>2, <2>4, <2>5, <3>1, <3>2, <3>3, LabelMoves
  <2>6. CASE /\ work' = [work EXCEPT !.at = "record", !.status = "escalated",
                                     !.outcome = "uncertain"]
             /\ UNCHANGED tpull
    <3>1. /\ work' \in Work /\ work'.head = work.head /\ work'.made = work.made
          /\ work'.at = "record" /\ work'.status = "escalated"
      BY <1>0, <2>6 DEF Work
    <3>2. ~Admitted' /\ ~Unpushed'
      BY <3>1 DEF Admitted, Unpushed
    <3>3. QED BY <2>1, <2>4, <2>6, <3>1, <3>2, WorkGoesOn DEF assistHistory
  <2>7. QED BY <2>3, <2>5, <2>6
<1>3. CASE PersonLabels
  <2>1. /\ UNCHANGED <<commits, slip, work, turn, wanted, admittedHeads, late, decided,
                       turns2, breaks>>
        /\ stirs' \in 0..MaxStirs
    BY <1>0, <1>3, AssistAssumption DEF PersonLabels, AssistAssumption
  <2>2. CASE tpull' = [tpull EXCEPT !.confirm = FALSE] /\ lifted' = TRUE
    <3>1. /\ tpull' \in TargetPull /\ tpull'.head = tpull.head
          /\ tpull'.merged = tpull.merged /\ tpull'.by = tpull.by
      BY <1>0, <2>2 DEF TargetPull
    <3>2. Held'
      BY <2>2 DEF Held
    <3>3. QED BY <1>0, <2>1, <2>2, <3>1, <3>2, LabelMoves
  <2>3. CASE tpull' = [tpull EXCEPT !.noAssist = ~@] /\ UNCHANGED lifted
    <3>1. /\ tpull' \in TargetPull /\ tpull'.head = tpull.head
          /\ tpull'.merged = tpull.merged /\ tpull'.by = tpull.by
          /\ tpull'.confirm = tpull.confirm
      BY <1>0, <2>3 DEF TargetPull
    <3>2. Held => Held'
      BY <2>3, <3>1 DEF Held
    <3>3. QED BY <1>0, <2>1, <2>3, <3>1, <3>2, LabelMoves
  <2>4. QED BY <1>3, <2>2, <2>3 DEF PersonLabels
<1>4. QED BY <1>1, <1>2, <1>3



-----------------------------------------------------------------------------
(* The card *)

\* The record and the refresh of the card keep the invariant: the record awaits only
\* a resolution that was pushed (merge_assist.cmd_record, render_card.carry_merge_assist).
LEMMA CardKeeps ==
    ASSUME AssistInv, RefreshSlip \/ RecordOutcome
    PROVE  AssistInv'
<1>0. /\ work \in Work /\ breaks \in 0..MaxBreaks /\ slip \in AssistCard
      /\ tpull \in TargetPull
  BY DEF AssistInv, AssistTypeOK
<1>1. /\ UNCHANGED <<commits, tpull, turn, wanted, admittedHeads, late, lifted, decided,
                     stirs, turns2>>
      /\ breaks' \in 0..MaxBreaks
      /\ work' = work \/ work' = NoWork
  <2>1. CASE RefreshSlip
    BY <1>0, <2>1 DEF RefreshSlip, assistHistory
  <2>2. CASE RecordOutcome
    BY <1>0, <2>2, BreakCounts DEF RecordOutcome, assistHistory
  <2>3. QED BY <2>1, <2>2
<1>2. NoRecord \in Record /\ NoRecord.phase = "none"
  BY AssistAssumption DEF NoRecord, Record, HeadOrNone, AssistAssumption
<1>3. /\ slip' \in AssistCard /\ Landed(slip'.head)
      /\ slip'.record.phase = "awaiting" => Landed(slip'.record.resolution)
  <2>1. CASE RefreshSlip
    <3>1. slip' = [head |-> tpull.head, record |-> Carried(slip.record, tpull.head)]
      BY <2>1 DEF RefreshSlip
    <3>2. Carried(slip.record, tpull.head) \in {slip.record, NoRecord}
      BY DEF Carried
    <3>3. slip'.head = tpull.head /\ slip'.record \in {slip.record, NoRecord}
      BY <3>1, <3>2
    <3>4. slip' \in AssistCard
      BY <1>0, <1>2, <3>1, <3>2 DEF AssistCard, TargetPull
    <3>5. QED BY <1>2, <3>3, <3>4 DEF AssistInv, HeadsAreKnown, RecordsAreTrue
  <2>2. CASE RecordOutcome
    <3> DEFINE made == RecordOf(work)
    <3>1. made \in Record
      <4>1. CASE work.status = "pushed"
        <5>1. RecordOf(work) = [phase |-> "awaiting", original |-> work.head,
                                resolution |-> work.made, outcome |-> "pushed"]
          BY <4>1 DEF RecordOf
        <5>2. work.head \in HeadOrNone /\ work.made \in HeadOrNone
          BY <1>0 DEF Work
        <5>3. QED BY <5>1, <5>2 DEF Record
      <4>2. CASE work.status # "pushed"
        <5> DEFINE o == IF work.outcome # "" THEN work.outcome
                        ELSE IF work.status \in {"claim-intent", "target-claimed",
                                                 "push-failed"}
                        THEN "uncertain" ELSE "not-pushed"
        <5>1. RecordOf(work) = [phase |-> "escalated", original |-> work.head,
                                resolution |-> 0, outcome |-> o]
          BY <4>2 DEF RecordOf
        <5>2. o \in {"not-pushed", "uncertain"}
          BY <1>0 DEF Work
        <5> HIDE DEF o
        <5>3. work.head \in HeadOrNone
          BY <1>0 DEF Work
        <5>4. 0 \in HeadOrNone
          BY AssistAssumption DEF HeadOrNone, AssistAssumption
        <5>5. QED BY <5>1, <5>2, <5>3, <5>4 DEF Record
      <4>3. QED BY <4>1, <4>2
    <3>2. made.phase = "awaiting" => work.status = "pushed" /\ made.resolution = work.made
      BY DEF RecordOf
    <3> HIDE DEF made
    <3>3. slip' = slip \/ slip' = [slip EXCEPT !.record = made]
      BY <2>2 DEF RecordOutcome, made
    <3>4. CASE slip' = slip
      BY <1>0, <3>4 DEF AssistInv, HeadsAreKnown, RecordsAreTrue
    <3>5. CASE slip' = [slip EXCEPT !.record = made]
      <4>1. slip' \in AssistCard /\ slip'.head = slip.head /\ slip'.record = made
        BY <1>0, <3>1, <3>5 DEF AssistCard
      <4>2. QED BY <3>2, <4>1 DEF AssistInv, HeadsAreKnown, RecordsAreTrue
    <3>6. QED BY <3>3, <3>4, <3>5
  <2>3. QED BY <2>1, <2>2
<1>4. /\ work' \in Work
      /\ Admitted' => Admitted /\ work' = work
      /\ Unpushed' => Unpushed /\ work' = work
      /\ work'.at # "off" => work' = work
      /\ work'.status = "pushed" => work' = work
  BY <1>0, <1>1, NothingUnderway DEF Admitted, Unpushed
<1>5. AssistTypeOK'
  BY <1>1, <1>3, <1>4 DEF AssistInv, AssistTypeOK
<1>6. HeadsAreKnown'
  BY <1>1, <1>3, <1>4 DEF AssistInv, HeadsAreKnown, Landed, Known
<1>7. ResolutionsAreNew'
  BY <1>1, <1>4 DEF AssistInv, ResolutionsAreNew, Landed, Known
<1>8. MergeEnds'
  BY <1>1 DEF AssistInv, MergeEnds
<1>9. ResolutionsAreHeld'
  BY <1>1, <1>4 DEF AssistInv, ResolutionsAreHeld, Held
<1>10. RecordsAreTrue'
  BY <1>1, <1>3, <1>4 DEF AssistInv, RecordsAreTrue, Landed, Known
<1>11. AssistedMergeIsConfirmed'
  BY <1>1, <1>3
  DEF AssistInv, AssistedMergeIsConfirmed, ResolutionsAreConfirmed, AwaitingWasPushed,
      Landed
<1>12. QED BY <1>5, <1>6, <1>7, <1>8, <1>9, <1>10, <1>11 DEF AssistInv

-----------------------------------------------------------------------------
(* The branch *)

\* The branch may move to a head that was never on it: one the assist run did not
\* make, or one that is held (the git server).
LEMMA BranchMoves ==
    ASSUME AssistInv, tpull.merged = 0,
           UNCHANGED <<slip, turn, wanted, admittedHeads, lifted, decided, turns2>>,
           stirs' \in 0..MaxStirs, breaks' \in 0..MaxBreaks,
           commits' \in Seq(BranchHead), Len(commits') \in HeadNumbers, Kept,
           tpull' \in TargetPull, tpull'.confirm = tpull.confirm, tpull'.merged = 0,
           Landed(tpull.head)',
           \/ tpull'.head = tpull.head
           \/ ~commits'[tpull'.head].assisted /\ ~Landed(tpull'.head)
           \/ Held /\ ~Landed(tpull'.head),
           late' = late \/ late' = 0,
           late' # 0 => ~commits'[late].landed,
           work' \in Work,
           \/ UNCHANGED work
           \/ /\ work.at = "push" /\ work'.at = "observe"
              /\ work'.head = work.head /\ work'.made = work.made,
           Unpushed' => ~commits'[work.made].landed,
           work'.status = "pushed" => work.status = "pushed" \/ Landed(work.made)'
    PROVE  AssistInv'
<1>0. \A h : Landed(h) => Landed(h)' /\ commits'[h].assisted = commits[h].assisted
                           /\ commits'[h].parent = commits[h].parent
  BY AssistAssumption
  DEF Kept, Landed, Known, AssistInv, AssistTypeOK, AssistAssumption, HeadNumbers
<1>1. \A h : h \in Known => h \in Known' /\ commits'[h].parent = commits[h].parent
  BY AssistAssumption DEF Kept, Known, AssistInv, AssistTypeOK, AssistAssumption, HeadNumbers
<1>2. /\ Admitted' => Admitted
      /\ Unpushed' => Unpushed
      /\ work'.at # "off" => work.at # "off"
      /\ work'.head = work.head /\ work'.made = work.made
  BY DEF Admitted, Unpushed
<1>3. AssistTypeOK'
  <2>1. 0 \in HeadOrNone /\ late \in HeadOrNone
    BY AssistAssumption DEF AssistInv, AssistTypeOK, AssistAssumption, HeadOrNone
  <2>2. QED BY <2>1 DEF AssistInv, AssistTypeOK
<1>4. HeadsAreKnown'
  BY <1>0, <1>2 DEF AssistInv, HeadsAreKnown
<1>5. ResolutionsAreNew'
  BY <1>0, <1>1, <1>2 DEF AssistInv, ResolutionsAreNew
<1>6. MergeEnds'
  BY DEF AssistInv, MergeEnds
<1>7. ResolutionsAreHeld'
  <2>1. commits'[tpull'.head].assisted => Held' \/ tpull'.head \in decided
    <3>1. tpull'.head = tpull.head \/ Held \/ ~commits'[tpull'.head].assisted
      OBVIOUS
    <3>2. Landed(tpull.head)
      BY DEF AssistInv, HeadsAreKnown
    <3>3. QED BY <1>0, <3>1, <3>2 DEF AssistInv, ResolutionsAreHeld, Held
  <2>2. late' # 0 /\ tpull'.head = commits'[late'].parent => Held'
    <3>1. late' # 0 => /\ late' = late /\ Landed(commits[late].parent)
                       /\ commits'[late].parent = commits[late].parent
      BY <1>1 DEF AssistInv, ResolutionsAreNew
    <3>2. QED BY <3>1 DEF AssistInv, ResolutionsAreHeld, Held
  <2>3. work'.at = "push" => Held'
    BY DEF AssistInv, ResolutionsAreHeld, Held
  <2>4. turn.at = "put" /\ turn.by = "scan" /\ tpull'.head = turn.head
          /\ commits'[turn.head].assisted => lifted \/ turn.head \in decided
    <3>1. turn.at = "put" => Landed(turn.head)
      BY DEF AssistInv, HeadsAreKnown
    <3>2. QED BY <1>0, <3>1 DEF AssistInv, ResolutionsAreHeld
  <2>5. QED BY <2>1, <2>2, <2>3, <2>4 DEF ResolutionsAreHeld
<1>8. RecordsAreTrue'
  BY <1>0, <1>2 DEF AssistInv, RecordsAreTrue
<1>9. AssistedMergeIsConfirmed'
  BY <1>8 DEF AssistedMergeIsConfirmed, ResolutionsAreConfirmed, AwaitingWasPushed,
              RecordsAreTrue, Landed
<1>10. QED BY <1>3, <1>4, <1>5, <1>6, <1>7, <1>8, <1>9 DEF AssistInv


\* A push that may still land later was made from the held head
\* (merge_assist.push_resolution).
LEMMA LatePush ==
    ASSUME AssistInv, work.at = "push",
           UNCHANGED <<commits, tpull, slip, turn, wanted, admittedHeads, lifted, decided,
                       stirs, turns2>>,
           breaks' \in 0..MaxBreaks, late' = work.made,
           work' \in Work, work'.at = "observe",
           work'.head = work.head, work'.made = work.made,
           work'.status = "pushed" => work.status = "pushed"
    PROVE  AssistInv'
<1>1. /\ Admitted /\ Unpushed /\ ~Admitted' /\ ~Unpushed'
      /\ Landed(work.head) /\ work.head \in decided /\ work.head \in admittedHeads
      /\ work.made \in Known /\ ~commits[work.made].landed
      /\ commits[work.made].parent = work.head
  BY DEF Admitted, Unpushed, AssistInv, HeadsAreKnown, ResolutionsAreNew
<1>2. AssistTypeOK'
  <2>1. work.made \in HeadOrNone
    BY DEF AssistInv, AssistTypeOK, Work
  <2>2. QED BY <2>1 DEF AssistInv, AssistTypeOK
<1>3. HeadsAreKnown'
  BY <1>1 DEF AssistInv, HeadsAreKnown, Landed, Known
<1>4. ResolutionsAreNew'
  BY <1>1 DEF AssistInv, ResolutionsAreNew, Landed, Known
<1>5. MergeEnds'
  BY DEF AssistInv, MergeEnds
<1>6. ResolutionsAreHeld'
  BY <1>1 DEF AssistInv, ResolutionsAreHeld, Held
<1>7. RecordsAreTrue'
  BY DEF AssistInv, RecordsAreTrue, Landed, Known
<1>8. AssistedMergeIsConfirmed'
  BY DEF AssistInv, AssistedMergeIsConfirmed, ResolutionsAreConfirmed, AwaitingWasPushed
<1>9. QED BY <1>2, <1>3, <1>4, <1>5, <1>6, <1>7, <1>8 DEF AssistInv

\* The push keeps the invariant, whatever its client sees of it: the label was set
\* before (merge_assist.push_resolution).
LEMMA PushKeeps ==
    ASSUME AssistInv, PushResolution
    PROVE  AssistInv'
<1>0. /\ work \in Work /\ breaks \in 0..MaxBreaks /\ tpull \in TargetPull
      /\ commits \in Seq(BranchHead) /\ Len(commits) \in HeadNumbers
      /\ stirs \in 0..MaxStirs
  BY DEF AssistInv, AssistTypeOK
<1>1. /\ work.at = "push"
      /\ UNCHANGED <<slip, turn, wanted, admittedHeads, lifted, decided, stirs, turns2>>
  BY DEF PushResolution, assistHistory
<1>2. /\ Admitted /\ Unpushed /\ work.made \in Known /\ ~commits[work.made].landed
      /\ commits[work.made].parent = work.head
      /\ late # 0 => late \in Known /\ ~commits[late].landed
                     /\ commits[late].parent # work.head
      /\ tpull.merged = 0 => Held
  BY <1>1 DEF Admitted, Unpushed, AssistInv, ResolutionsAreNew, ResolutionsAreHeld
<1>3. PICK o \in Ends, moves \in BOOLEAN, dies \in BOOLEAN, later \in BOOLEAN :
          /\ Break(o)
          /\ moves => ~later
          /\ tpull.merged = 0 \/ ~moves
          /\ commits' = IF moves THEN [commits EXCEPT ![work.made].landed = TRUE]
                                 ELSE commits
          /\ tpull' = IF moves THEN [tpull EXCEPT !.head = work.made] ELSE tpull
          /\ late' = IF later THEN work.made ELSE late
          /\ work' = [work EXCEPT !.at = "observe",
                 !.status = IF dies THEN @
                            ELSE IF moves /\ o = "well" THEN "pushed"
                            ELSE "push-failed"]
  BY DEF PushResolution
<1>4. breaks' \in 0..MaxBreaks
  BY <1>0, <1>3, BreakCounts
<1>5. /\ work' \in Work /\ work'.at = "observe"
      /\ work'.head = work.head /\ work'.made = work.made
      /\ work'.status = "pushed" => work.status = "pushed" \/ moves
  <2> DEFINE s == IF dies THEN work.status
                  ELSE IF moves /\ o = "well" THEN "pushed" ELSE "push-failed"
  <2>1. s \in Statuses /\ (s = "pushed" => work.status = "pushed" \/ moves)
    BY <1>0 DEF Work, Statuses
  <2>2. work' = [work EXCEPT !.at = "observe", !.status = s]
    BY <1>3
  <2> HIDE DEF s
  <2>3. QED BY <1>0, <2>1, <2>2 DEF Work, Statuses
<1>6. ~Unpushed' /\ ~Admitted'
  BY <1>5 DEF Unpushed, Admitted
<1>7. CASE moves
  <2>1. /\ commits' = [commits EXCEPT ![work.made].landed = TRUE]
        /\ tpull' = [tpull EXCEPT !.head = work.made]
        /\ late' = late /\ tpull.merged = 0
    BY <1>3, <1>7
  <2>2. work.made \in 1..Len(commits) /\ work.made \in HeadNumbers
    BY <1>0, <1>2, AssistAssumption DEF Known, HeadNumbers, AssistAssumption
  <2>3. /\ commits' \in Seq(BranchHead) /\ Len(commits') = Len(commits)
        /\ Kept
        /\ commits'[work.made].landed
        /\ \A h \in 1..Len(commits) : h # work.made => commits'[h] = commits[h]
    BY <1>0, <2>1, <2>2, LandKeeps
  <2>4. /\ tpull' \in TargetPull /\ tpull'.head = work.made
        /\ tpull'.confirm = tpull.confirm /\ tpull'.merged = 0
    BY <1>0, <2>1, <2>2 DEF TargetPull
  <2>5. Landed(work.made)' /\ ~Landed(work.made)
    BY <1>2, <1>5, <2>2, <2>3 DEF Landed, Known
  <2>6. Landed(tpull.head)' /\ ~Landed(tpull'.head)
    BY <2>3, <2>4, <2>2, <1>2 DEF Landed, Known
  <2>7. late' # 0 => ~commits'[late].landed
    BY <1>2, <2>1, <2>3 DEF Known
  <2>8. /\ Len(commits') \in HeadNumbers
        /\ work'.status = "pushed" => work.status = "pushed" \/ Landed(work.made)'
        /\ Unpushed' => ~commits'[work.made].landed
    BY <1>0, <1>6, <2>3, <2>5
  <2>9. Held
    BY <1>2, <2>1
  <2>10. QED BY <1>0, <1>1, <1>4, <1>5, <2>1, <2>3, <2>4, <2>6, <2>7, <2>8, <2>9, BranchMoves
<1>8. CASE ~moves /\ ~later
  <2>1. UNCHANGED <<commits, tpull, late>>
    BY <1>3, <1>8
  <2>2. work'.status = "pushed" => work.status = "pushed"
    BY <1>5, <1>8
  <2>3. QED BY <1>1, <1>4, <1>5, <1>6, <2>1, <2>2, WorkGoesOn DEF assistHistory
<1>9. CASE ~moves /\ later
  <2>1. UNCHANGED <<commits, tpull>> /\ late' = work.made
    BY <1>3, <1>9
  <2>2. work'.status = "pushed" => work.status = "pushed"
    BY <1>5, <1>9
  <2>3. QED BY <1>1, <1>4, <1>5, <2>1, <2>2, LatePush
<1>10. QED BY <1>7, <1>8, <1>9

\* A contributor's push, a move of the base and a late push keep the invariant: a
\* late push lands only on the head it was made from, and that head is held (the git
\* server, merge_assist.push_resolution).
LEMMA BranchKeeps ==
    ASSUME AssistInv, ContributorPushes \/ BaseMoves \/ LatePushLands
    PROVE  AssistInv'
<1>0. /\ work \in Work /\ breaks \in 0..MaxBreaks /\ tpull \in TargetPull
      /\ commits \in Seq(BranchHead) /\ Len(commits) \in HeadNumbers
      /\ stirs \in 0..MaxStirs /\ MaxStirs \in Nat /\ MaxCommits \in Nat
      /\ Landed(tpull.head) /\ tpull.head \in 1..Len(commits)
  BY AssistAssumption
  DEF AssistInv, AssistTypeOK, AssistAssumption, HeadsAreKnown, Landed, Known
<1>1. /\ late # 0 => late \in Known /\ ~commits[late].landed
      /\ Unpushed => work.made \in Known /\ ~commits[work.made].landed
      /\ late # 0 /\ Unpushed => commits[late].parent # work.head
      /\ Unpushed => commits[work.made].parent = work.head
  BY DEF AssistInv, ResolutionsAreNew, Admitted
<1>2. CASE ContributorPushes
  <2>1. PICK joins \in BOOLEAN, clean \in BOOLEAN :
          commits' = Append(commits, [assisted |-> FALSE, parent |-> tpull.head,
                                      joins |-> joins, clean |-> clean,
                                      landed |-> TRUE])
    BY <1>2 DEF ContributorPushes
  <2> DEFINE new == [assisted |-> FALSE, parent |-> tpull.head,
                     joins |-> joins, clean |-> clean, landed |-> TRUE]
             n == Len(commits) + 1
  <2>2. new \in BranchHead /\ new.landed /\ ~new.assisted
    BY <1>0 DEF BranchHead, TargetPull, HeadNumbers, HeadOrNone
  <2>3. commits' = Append(commits, new)
    BY <2>1
  <2> HIDE DEF new
  <2>4. /\ commits' \in Seq(BranchHead) /\ Len(commits') = n
        /\ Kept
        /\ commits'[n] = new
        /\ \A h \in 1..Len(commits) : commits'[h] = commits[h]
    BY <1>0, <2>2, <2>3, AppendKeeps
  <2>5. /\ tpull.merged = 0 /\ stirs > 0 /\ stirs' = stirs - 1
        /\ Len(commits) < MaxCommits /\ tpull' = [tpull EXCEPT !.head = n]
        /\ UNCHANGED <<slip, work, turn, wanted, admittedHeads, late, lifted, decided,
                       turns2, breaks>>
    BY <1>2 DEF ContributorPushes, assistHistory
  <2>6. n \in HeadNumbers /\ stirs' \in 0..MaxStirs
    BY <1>0, <2>5 DEF HeadNumbers
  <2>7. n \in Known' /\ n \notin Known
    BY <1>0, <2>4 DEF Known, HeadNumbers
  <2> HIDE DEF n
  <2>8. /\ tpull' \in TargetPull /\ tpull'.head = n /\ tpull'.merged = 0
        /\ tpull'.confirm = tpull.confirm
    BY <1>0, <2>5, <2>6 DEF TargetPull
  <2>9. /\ Landed(tpull.head)' /\ ~Landed(tpull'.head)
        /\ ~commits'[tpull'.head].assisted
    BY <2>2, <2>4, <2>7, <2>8 DEF Landed
  <2>10. /\ late' # 0 => ~commits'[late].landed
         /\ Unpushed' => ~commits'[work.made].landed
    BY <1>1, <2>4, <2>5 DEF Known, Unpushed
  <2>11. /\ Len(commits') \in HeadNumbers /\ work' = work /\ late' = late
         /\ work' \in Work /\ breaks' \in 0..MaxBreaks
    BY <1>0, <2>4, <2>5, <2>6
  <2>12. QED BY <2>4, <2>5, <2>6, <2>8, <2>9, <2>10, <2>11, BranchMoves
<1>3. CASE BaseMoves
  <2>1. /\ tpull.merged = 0 /\ stirs' \in 0..MaxStirs
        /\ commits' = [commits EXCEPT ![tpull.head].clean = ~@]
        /\ UNCHANGED <<tpull, slip, work, turn, wanted, admittedHeads, late, lifted,
                       decided, turns2, breaks>>
    BY <1>0, <1>3 DEF BaseMoves, assistHistory
  <2>2. /\ commits' \in Seq(BranchHead) /\ Len(commits') = Len(commits)
        /\ Kept
        /\ \A h \in 1..Len(commits) : commits'[h].landed = commits[h].landed
    BY <1>0, <2>1, BaseKeeps
  <2>3. /\ Landed(tpull.head)'
        /\ late' # 0 => ~commits'[late].landed
        /\ Unpushed' => ~commits'[work.made].landed
    BY <1>0, <1>1, <2>1, <2>2 DEF Landed, Known, Unpushed
  <2>4. QED BY <1>0, <2>1, <2>2, <2>3, BranchMoves
<1>4. CASE LatePushLands
  <2>1. /\ late # 0 /\ late' = 0
        /\ UNCHANGED <<slip, work, turn, wanted, admittedHeads, lifted, decided, stirs,
                       turns2, breaks>>
    BY <1>4 DEF LatePushLands, assistHistory
  <2>2. CASE tpull.head = commits[late].parent /\ tpull.merged = 0
    <3>1. /\ commits' = [commits EXCEPT ![late].landed = TRUE]
          /\ tpull' = [tpull EXCEPT !.head = late]
      BY <1>4, <2>2 DEF LatePushLands
    <3>2. late \in 1..Len(commits) /\ late \in HeadNumbers
      BY <1>0, <1>1, <2>1 DEF Known, HeadNumbers
    <3>3. /\ commits' \in Seq(BranchHead) /\ Len(commits') = Len(commits)
          /\ Kept
          /\ commits'[late].landed
          /\ \A h \in 1..Len(commits) : h # late => commits'[h] = commits[h]
      BY <1>0, <3>1, <3>2, LandKeeps
    <3>4. /\ tpull' \in TargetPull /\ tpull'.head = late /\ tpull'.merged = 0
          /\ tpull'.confirm = tpull.confirm
      BY <1>0, <2>2, <3>1, <3>2 DEF TargetPull
    <3>5. Landed(tpull.head)' /\ ~Landed(tpull'.head)
      BY <1>1, <2>1, <3>2, <3>3, <3>4 DEF Landed, Known
    <3>6. Held
      BY <2>1, <2>2 DEF AssistInv, ResolutionsAreHeld
    <3>7. Unpushed' => ~commits'[work.made].landed
      BY <1>1, <2>1, <3>3 DEF Known, Unpushed
    <3>8. QED BY <1>0, <2>1, <2>2, <3>3, <3>4, <3>5, <3>6, <3>7, BranchMoves
  <2>3. CASE ~(tpull.head = commits[late].parent /\ tpull.merged = 0)
    <3>1. UNCHANGED <<commits, tpull>>
      BY <1>4, <2>3 DEF LatePushLands
    <3>2. AssistTypeOK'
      <4>1. 0 \in HeadOrNone
        BY <1>0 DEF HeadOrNone
      <4>2. QED BY <2>1, <3>1, <4>1 DEF AssistInv, AssistTypeOK
    <3>3. HeadsAreKnown'
      BY <2>1, <3>1 DEF AssistInv, HeadsAreKnown, Landed, Known, Admitted, Unpushed
    <3>4. ResolutionsAreNew'
      BY <2>1, <3>1 DEF AssistInv, ResolutionsAreNew, Landed, Known, Admitted, Unpushed
    <3>5. MergeEnds'
      BY <2>1, <3>1 DEF AssistInv, MergeEnds
    <3>6. ResolutionsAreHeld'
      BY <2>1, <3>1 DEF AssistInv, ResolutionsAreHeld, Held
    <3>7. RecordsAreTrue' /\ AssistedMergeIsConfirmed'
      BY <2>1, <3>1
      DEF AssistInv, RecordsAreTrue, Landed, Known, AssistedMergeIsConfirmed,
          ResolutionsAreConfirmed, AwaitingWasPushed
    <3>8. QED BY <3>2, <3>3, <3>4, <3>5, <3>6, <3>7 DEF AssistInv
  <2>4. QED BY <2>2, <2>3
<1>5. QED BY <1>2, <1>3, <1>4

-----------------------------------------------------------------------------
\* The invariant holds at first (a pull request nobody has decided about).
LEMMA AssistStarts == AssistInit => AssistInv
<1> SUFFICES ASSUME AssistInit PROVE AssistInv
  OBVIOUS
<1>0. /\ MaxCommits \in Nat \ {0} /\ MaxStirs \in Nat /\ MaxTurns2 \in Nat
      /\ MaxBreaks \in Nat
  BY AssistAssumption DEF AssistAssumption
<1>1. 1 \in HeadNumbers /\ 0 \in HeadOrNone
  BY <1>0 DEF HeadNumbers, HeadOrNone
<1>2. First \in BranchHead /\ First.landed /\ ~First.assisted
  BY <1>1 DEF First, BranchHead
<1>3. commits \in Seq(BranchHead) /\ Len(commits) = 1 /\ commits[1] = First
  BY <1>2 DEF AssistInit
<1>4. /\ tpull \in TargetPull /\ tpull.head = 1 /\ tpull.merged = 0
  BY <1>1 DEF AssistInit, TargetPull
<1>5. /\ slip \in AssistCard /\ slip.head = 1 /\ slip.record.phase = "none"
  BY <1>1 DEF AssistInit, AssistCard, NoRecord, Record
<1>6. /\ work = NoWork /\ turn = NoTurn /\ wanted = 0 /\ admittedHeads = {}
      /\ late = 0 /\ lifted = FALSE /\ decided = {}
      /\ stirs = MaxStirs /\ turns2 = MaxTurns2 /\ breaks = MaxBreaks
  BY DEF AssistInit
<1>7. ~Admitted /\ ~Unpushed
  BY <1>6, NothingUnderway DEF Admitted, Unpushed
<1>8. AssistTypeOK
  <2>1. /\ commits \in Seq(BranchHead) /\ Len(commits) \in HeadNumbers
        /\ tpull \in TargetPull /\ slip \in AssistCard /\ work \in Work /\ turn \in Turn
    BY <1>1, <1>3, <1>4, <1>5, <1>6, NothingUnderway
  <2>2. /\ {wanted, late} \subseteq HeadOrNone
        /\ {admittedHeads, decided} \subseteq SUBSET HeadNumbers /\ lifted \in BOOLEAN
    BY <1>1, <1>6
  <2>3. stirs \in 0..MaxStirs /\ turns2 \in 0..MaxTurns2 /\ breaks \in 0..MaxBreaks
    BY <1>0, <1>6
  <2>4. QED BY <2>1, <2>2, <2>3 DEF AssistTypeOK
<1>9. HeadsAreKnown /\ ResolutionsAreNew /\ MergeEnds
  BY <1>2, <1>3, <1>4, <1>5, <1>6, <1>7, NothingUnderway
  DEF HeadsAreKnown, ResolutionsAreNew, MergeEnds, Landed, Known
<1>10. ResolutionsAreHeld /\ RecordsAreTrue /\ AssistedMergeIsConfirmed
  BY <1>2, <1>3, <1>4, <1>5, <1>6, NothingUnderway
  DEF ResolutionsAreHeld, RecordsAreTrue, AssistedMergeIsConfirmed,
      ResolutionsAreConfirmed, AwaitingWasPushed
<1>11. QED BY <1>8, <1>9, <1>10 DEF AssistInv

\* Every step keeps it (merge_assist.py, do_merge of apply_decision.py, act_merge of
\* auto_merge.py, and people).
LEMMA AssistStepKeeps == AssistInv /\ [AssistNext]_assistVars => AssistInv'
<1> SUFFICES ASSUME AssistInv, [AssistNext]_assistVars PROVE AssistInv'
  OBVIOUS
<1>1. CASE ContributorPushes \/ BaseMoves \/ LatePushLands
  BY <1>1, BranchKeeps
<1>2. CASE PersonLabels \/ SetConfirmation \/ RollBack
  BY <1>2, LabelKeeps
<1>3. CASE DecideMerge \/ ScanActs \/ ReadTargetLabel \/ FinalReads
  BY <1>3, TurnKeeps
<1>4. CASE PutMerge \/ TidyLabel
  BY <1>4, MergeKeeps
<1>5. CASE BeginAssist \/ BindTarget \/ ClaimAssistEvent \/ PrepareMerge \/ RebindTarget
  BY <1>5, PreparationKeeps
<1>6. CASE ApplyResolution
  BY <1>6, ResolutionKeeps
<1>7. CASE StageClaim \/ VerifyConfirmation \/ ObservePush \/ WorkDies
  BY <1>7, RunKeeps
<1>8. CASE PushResolution
  BY <1>8, PushKeeps
<1>9. CASE RefreshSlip \/ RecordOutcome
  BY <1>9, CardKeeps
<1>10. CASE UNCHANGED assistVars
  BY <1>10
  DEF AssistInv, AssistTypeOK, HeadsAreKnown, ResolutionsAreNew, MergeEnds,
      ResolutionsAreHeld, RecordsAreTrue, AssistedMergeIsConfirmed,
      ResolutionsAreConfirmed, AwaitingWasPushed, Landed, Known, Admitted, Unpushed,
      Held, assistVars, assistHistory
<1>11. QED
  BY <1>1, <1>2, <1>3, <1>4, <1>5, <1>6, <1>7, <1>8, <1>9, <1>10
  DEF AssistNext, AssistRun

\* Nothing that the assist run made is merged by the scan before a person took the
\* label off or decided that head, and a card awaits only a pushed resolution: for
\* any number of heads, decisions, acts of people and failures
\* (merge_assist.py, apply_decision.do_merge, auto_merge.act_merge).
THEOREM AssistedMergeConfirmed == AssistSpec => [](AssistTypeOK /\ AssistedMergeIsConfirmed)
<1>1. AssistInv => AssistTypeOK /\ AssistedMergeIsConfirmed
  BY DEF AssistInv
<1>2. QED
  BY <1>1, AssistStarts, AssistStepKeeps, PTL DEF AssistSpec

-----------------------------------------------------------------------------
(* The model call *)


BeforeTheCall == mjob \in {"hydrate", "install", "checkpoint", "upload"}
Running == worker.at \notin {"off", "ended"}

\* The worker runs in the direct lane only, within the step that invokes it.
WorkerInItsStep ==
    /\ Running => mjob = "invoke"
    /\ worker.at # "off" => lane = "direct" /\ ~BeforeTheCall

\* Nothing is sent before the checkpoint's step is over, nor by the direct lane
\* before its worker saved that.
SpendIsSaved ==
    /\ sent => ~BeforeTheCall
    /\ sent /\ lane = "direct" => worker.saved /\ mjob # "capture"
    /\ worker.at \in {"saved", "prompted"} => worker.saved

\* A result is written after the step it is about or by a supervisor that
\* failed, and knows of the spend or is the rejection of that supervisor.
ResultKnows ==
    /\ BeforeTheCall \/ (mjob = "invoke" /\ ~superv.raised) =>
          output.result.status = "none"
    /\ superv.raised => /\ ~BeforeTheCall /\ worker.at # "off" /\ sealed
                        /\ output.result \in {Rejected, NoAnswer}
    /\ sent /\ lane = "direct" /\ output.result.status # "none" =>
          output.result.spend \/ (sealed /\ output.result = Rejected)

\* A prompt is sent on a written checkpoint, and the capture's proof is of it.
ProofIsFull ==
    /\ mjob \in {"upload", "invoke"} \/ sent => attemptFile.local
    /\ output.proof => /\ mjob \in {"publish", "done"}
                       /\ output.full = attemptFile.local

\* The second job starts when the first one has ended.
VerdictIsLast ==
    /\ verdict.at = "wait" => verdict.result.status = "none"
    /\ verdict.at = "done" => mjob = "done"

CallInv ==
    /\ CallTypeOK
    /\ WorkerInItsStep
    /\ SpendIsSaved
    /\ ResultKnows
    /\ ProofIsFull
    /\ VerdictIsLast
    /\ SpendIsNeverDenied

-----------------------------------------------------------------------------
\* A failed call leaves the number of crashes in its range
\* (the bound of the model, no code).
LEMMA CrashCounts ==
    ASSUME NEW o \in Runs0, Crash(o), crashes \in 0..MaxCrashes
    PROVE  crashes' \in 0..MaxCrashes
BY ModelCallAssumption DEF ModelCallAssumption, Runs0, Crash

\* What the records of the supervisor and the worker are
\* (agent_runtime/supervisor.py, the results it writes).
LEMMA CallResultTypes ==
    /\ Rejected \in Result0 /\ NoAnswer \in Result0
    /\ \A spend \in BOOLEAN : Failed(spend) \in Result0
    /\ NoWorker \in WorkerProc /\ NoWorker.at = "off" /\ ~NoWorker.saved
    /\ NoAnswer.status = "none"
BY DEF Rejected, NoAnswer, Failed, Result0, NoWorker, WorkerProc

\* A worker that ends keeps what it saved (agent_runtime/worker.py).
LEMMA WorkerEnd ==
    ASSUME NEW r \in Result0, worker \in WorkerProc, EndsWith(r)
    PROVE  /\ worker' \in WorkerProc
           /\ worker'.at = "ended"
           /\ worker'.saved = worker.saved
BY DEF EndsWith, WorkerProc

\* What a step of the running worker or of its supervisor must leave, so that
\* the invariant holds (agent_runtime/worker.py, supervisor.py).
LEMMA RunningStep ==
    ASSUME CallInv, Running,
           UNCHANGED <<lane, mjob, attemptFile, action, output, verdict, sealed>>,
           crashes' \in 0..MaxCrashes, sent' \in BOOLEAN,
           superv' \in [cancel: BOOLEAN, killed: BOOLEAN, raised: BOOLEAN],
           superv'.raised = superv.raised,
           worker' \in WorkerProc, worker'.at # "off",
           worker'.at \in {"saved", "prompted"} => worker'.saved,
           sent' => worker'.saved
    PROVE  CallInv'
<1>1. mjob = "invoke" /\ lane = "direct" /\ verdict.at # "done"
  BY DEF CallInv, Running, WorkerInItsStep, VerdictIsLast
<1>2. CallTypeOK'
  BY DEF CallInv, CallTypeOK
<1>3. WorkerInItsStep' /\ SpendIsSaved'
  BY <1>1 DEF WorkerInItsStep, SpendIsSaved, Running, BeforeTheCall
<1>4. verdict.at = "wait" /\ verdict.result.status = "none"
  BY <1>1 DEF CallInv, CallTypeOK, VerdictIsLast
<1>5. ResultKnows' /\ ProofIsFull' /\ VerdictIsLast'
  <2>1. ResultKnows'
    <3>1. CASE superv.raised
      BY <1>1, <3>1 DEF CallInv, ResultKnows, BeforeTheCall, NoAnswer
    <3>2. CASE ~superv.raised
      BY <1>1, <3>2 DEF CallInv, ResultKnows, BeforeTheCall
    <3>3. QED BY <3>1, <3>2
  <2>2. ProofIsFull' /\ VerdictIsLast'
    BY <1>1, <1>4 DEF CallInv, ProofIsFull, VerdictIsLast
  <2>3. QED BY <2>1, <2>2
<1>6. SpendIsNeverDenied'
  BY <1>4 DEF SpendIsNeverDenied, SpendDenied
<1>7. QED BY <1>2, <1>3, <1>5, <1>6 DEF CallInv

\* What a step before the call must leave (claude-model.yml up to the upload).
LEMMA EarlyStep ==
    ASSUME CallInv, BeforeTheCall,
           UNCHANGED <<lane, worker, superv, action, verdict, sent, sealed>>,
           crashes' \in 0..MaxCrashes,
           attemptFile' \in [local: BOOLEAN, durable: BOOLEAN],
           output' \in Output, output'.proof = output.proof,
           mjob' \in {"upload", "invoke"} => attemptFile'.local,
           mjob' \in {"hydrate", "install", "checkpoint", "upload", "invoke",
                      "capture", "publish", "done"},
           output'.result.status # "none" => mjob' \in {"capture", "publish", "done"}
    PROVE  CallInv'
<1>1. /\ ~sent /\ worker.at = "off" /\ verdict.at = "wait"
      /\ ~output'.proof /\ ~superv.raised
  <2>1. ~sent /\ worker.at = "off" /\ verdict.at = "wait" /\ ~output'.proof
    BY DEF CallInv, WorkerInItsStep, SpendIsSaved, VerdictIsLast, CallTypeOK,
           ProofIsFull, BeforeTheCall
  <2>2. ~superv.raised
    BY DEF CallInv, ResultKnows, BeforeTheCall
  <2>3. QED BY <2>1, <2>2
<1>2. CallTypeOK'
  BY DEF CallInv, CallTypeOK
<1>3. /\ WorkerInItsStep' /\ SpendIsSaved' /\ ResultKnows' /\ VerdictIsLast'
      /\ ProofIsFull'
  BY <1>1 DEF CallInv, WorkerInItsStep, SpendIsSaved, ResultKnows, VerdictIsLast,
              ProofIsFull, Running, BeforeTheCall
<1>4. SpendIsNeverDenied'
  BY <1>1 DEF SpendIsNeverDenied, SpendDenied
<1>5. QED BY <1>2, <1>3, <1>4 DEF CallInv

\* The steps up to the upload of the checkpoint keep the invariant
\* (claude-model.yml, agent_runtime/handoff.py).
LEMMA CallPreparationKeeps ==
    ASSUME CallInv,
           Hydrate \/ InstallRuntime \/ WriteCheckpoint \/ UploadCheckpoint
    PROVE  CallInv'
<1> USE DEF CallInv, CallTypeOK
<1>1. /\ attemptFile \in [local: BOOLEAN, durable: BOOLEAN]
      /\ output \in Output /\ crashes \in 0..MaxCrashes
  OBVIOUS
<1>2. LastSteps \in {"capture", "publish"}
  BY DEF LastSteps
<1>3. BeforeTheCall => output.result.status = "none"
  BY DEF ResultKnows
<1>4. CASE Hydrate
  BY <1>1, <1>2, <1>3, <1>4, EarlyStep, CrashCounts DEF Hydrate, BeforeTheCall
<1>5. CASE InstallRuntime
  <2>1. BeforeTheCall
    BY <1>5 DEF InstallRuntime, BeforeTheCall
  <2>2. PICK o \in Runs0 :
           /\ Crash(o)
           /\ IF o = "well" THEN mjob' = "checkpoint" /\ UNCHANGED output
              ELSE /\ mjob' = LastSteps
                   /\ \E r \in {Rejected, NoAnswer} :
                         output' = [output EXCEPT !.result = r]
    BY <1>5 DEF InstallRuntime
  <2>3. output' \in Output /\ output'.proof = output.proof
    BY <1>1, <2>2, CallResultTypes DEF Output
  <2>4. QED
    BY <1>1, <1>2, <1>3, <1>5, <2>1, <2>2, <2>3, EarlyStep, CrashCounts
       DEF InstallRuntime
<1>6. CASE WriteCheckpoint
  <2>1. /\ attemptFile' \in [local: BOOLEAN, durable: BOOLEAN]
        /\ mjob' = "upload" => attemptFile'.local
    BY <1>1, <1>2, <1>6 DEF WriteCheckpoint
  <2>2. QED
    BY <1>1, <1>2, <1>3, <1>6, <2>1, EarlyStep, CrashCounts
       DEF WriteCheckpoint, BeforeTheCall
<1>7. CASE UploadCheckpoint
  <2>1. /\ attemptFile' \in [local: BOOLEAN, durable: BOOLEAN]
        /\ attemptFile'.local = attemptFile.local /\ attemptFile.local
    BY <1>1, <1>7 DEF UploadCheckpoint, ProofIsFull
  <2>2. QED
    BY <1>1, <1>2, <1>3, <1>7, <2>1, EarlyStep, CrashCounts
       DEF UploadCheckpoint, BeforeTheCall
<1>8. QED BY <1>4, <1>5, <1>6, <1>7

\* Sending the prompt and what ends a worker keep the invariant
\* (agent_runtime/worker.py, and the supervisor's cancel and kill).
LEMMA WorkerKeeps ==
    ASSUME CallInv,
           \/ WorkerStartsModel \/ WorkerSaves \/ WorkerPrompts \/ WorkerEnds
           \/ WorkerDies \/ AskToCancel \/ KillWorker
    PROVE  CallInv'
<1>1. /\ worker \in WorkerProc /\ worker.mem \in BOOLEAN
      /\ superv \in [cancel: BOOLEAN, killed: BOOLEAN, raised: BOOLEAN]
      /\ sent \in BOOLEAN /\ crashes \in 0..MaxCrashes
  BY DEF CallInv, CallTypeOK, WorkerProc
<1>2. Running => lane = "direct"
  BY DEF CallInv, WorkerInItsStep, Running
<1>3. Running /\ sent => worker.saved
  BY <1>2 DEF CallInv, SpendIsSaved
<1>4. CASE WorkerStartsModel
  <2>1. Running /\ worker.at = "auth"
    BY <1>4 DEF WorkerStartsModel, Running
  <2>2. PICK o \in Runs0 :
           /\ Crash(o)
           /\ IF o = "well" THEN worker' = [worker EXCEPT !.at = "started", !.mem = TRUE]
                            ELSE EndsWith(Failed(FALSE))
    BY <1>4 DEF WorkerStartsModel
  <2>3. /\ worker' \in WorkerProc /\ worker'.at \in {"started", "ended"}
        /\ worker'.saved = worker.saved
    <3>1. CASE worker' = [worker EXCEPT !.at = "started", !.mem = TRUE]
      BY <1>1, <3>1 DEF WorkerProc
    <3>2. CASE EndsWith(Failed(FALSE))
      BY <1>1, <3>2, WorkerEnd, CallResultTypes
    <3>3. QED BY <2>2, <3>1, <3>2
  <2>4. QED
    BY <1>1, <1>3, <1>4, <2>1, <2>2, <2>3, CrashCounts, RunningStep
       DEF WorkerStartsModel
<1>5. CASE WorkerSaves
  <2>1. Running /\ worker.at = "started"
    BY <1>5 DEF WorkerSaves, Running
  <2>2. PICK o \in Runs0 :
           /\ Crash(o)
           /\ IF o = "well" THEN worker' = [worker EXCEPT !.at = "saved", !.saved = TRUE]
                            ELSE EndsWith(Failed(FALSE))
    BY <1>5 DEF WorkerSaves
  <2>3. /\ worker' \in WorkerProc /\ worker'.at \in {"saved", "ended"}
        /\ worker'.at = "saved" => worker'.saved
        /\ worker.saved => worker'.saved
    <3>1. CASE worker' = [worker EXCEPT !.at = "saved", !.saved = TRUE]
      BY <1>1, <3>1 DEF WorkerProc
    <3>2. CASE EndsWith(Failed(FALSE))
      BY <1>1, <3>2, WorkerEnd, CallResultTypes
    <3>3. QED BY <2>2, <3>1, <3>2
  <2>4. QED
    BY <1>1, <1>3, <1>5, <2>1, <2>2, <2>3, CrashCounts, RunningStep
       DEF WorkerSaves
<1>6. CASE WorkerPrompts
  <2>1. Running /\ worker.at = "saved" /\ worker.saved
    BY <1>6 DEF WorkerPrompts, Running, CallInv, SpendIsSaved
  <2>2. PICK o \in Runs0 :
           /\ Crash(o)
           /\ IF o = "well" THEN worker' = [worker EXCEPT !.at = "prompted"]
                            ELSE EndsWith(Failed(FALSE))
    BY <1>6 DEF WorkerPrompts
  <2>3. /\ worker' \in WorkerProc /\ worker'.at \in {"prompted", "ended"}
        /\ worker'.saved
    <3>1. CASE worker' = [worker EXCEPT !.at = "prompted"]
      BY <1>1, <2>1, <3>1 DEF WorkerProc
    <3>2. CASE EndsWith(Failed(FALSE))
      BY <1>1, <2>1, <3>2, WorkerEnd, CallResultTypes
    <3>3. QED BY <2>2, <3>1, <3>2
  <2>4. QED
    BY <1>1, <1>6, <2>1, <2>2, <2>3, CrashCounts, RunningStep DEF WorkerPrompts
<1>7. CASE WorkerEnds
  <2>1. Running
    BY <1>7 DEF WorkerEnds, Running
  <2>2. crashes' \in 0..MaxCrashes
    <3>1. crashes' = crashes \/ (crashes > 0 /\ crashes' = crashes - 1)
      BY <1>7 DEF WorkerEnds
    <3>2. QED BY <1>1, <3>1, ModelCallAssumption DEF ModelCallAssumption
  <2>3. PICK r \in Result0 : EndsWith(r)
    BY <1>1, <1>7, CallResultTypes DEF WorkerEnds, Result0
  <2>4. QED
    BY <1>1, <1>3, <1>7, <2>1, <2>2, <2>3, WorkerEnd, RunningStep DEF WorkerEnds
<1>8. CASE WorkerDies
  <2>1. Running
    BY <1>8 DEF WorkerDies, Running
  <2>2. crashes' \in 0..MaxCrashes
    BY <1>1, <1>8, ModelCallAssumption DEF WorkerDies, ModelCallAssumption
  <2>3. QED
    BY <1>1, <1>3, <1>8, <2>1, <2>2, WorkerEnd, CallResultTypes, RunningStep
       DEF WorkerDies
<1>9. CASE AskToCancel
  <2>1. /\ superv' \in [cancel: BOOLEAN, killed: BOOLEAN, raised: BOOLEAN]
        /\ superv'.raised = superv.raised
    BY <1>1, <1>9 DEF AskToCancel
  <2>2. Running
    BY <1>9 DEF AskToCancel, Polled, Running
  <2>3. worker.at \in {"saved", "prompted"} => worker.saved
    BY DEF CallInv, SpendIsSaved
  <2>4. worker.at # "off"
    BY <2>2 DEF Running
  <2>5. QED
    BY <1>1, <1>3, <1>9, <2>1, <2>2, <2>3, <2>4, RunningStep DEF AskToCancel
<1>10. CASE KillWorker
  <2>1. /\ superv' \in [cancel: BOOLEAN, killed: BOOLEAN, raised: BOOLEAN]
        /\ superv'.raised = superv.raised
    BY <1>1, <1>10 DEF KillWorker
  <2>2. Running
    BY <1>10 DEF KillWorker, Polled, Running
  <2>3. worker.at \in {"saved", "prompted"} => worker.saved
    BY DEF CallInv, SpendIsSaved
  <2>4. /\ worker' \in WorkerProc /\ worker'.saved = worker.saved
        /\ worker'.at \in {worker.at, "ended"}
    <3>1. CASE \E r \in Result0 : EndsWith(r)
      BY <1>1, <3>1, WorkerEnd
    <3>2. CASE UNCHANGED worker
      BY <1>1, <3>2
    <3>3. QED BY <1>1, <1>10, <3>1, <3>2, CallResultTypes DEF KillWorker, Result0
  <2>5. worker'.at # "off" /\ (worker'.at \in {"saved", "prompted"} => worker'.saved)
    BY <2>2, <2>3, <2>4 DEF Running
  <2>6. QED
    BY <1>1, <1>3, <1>10, <2>1, <2>2, <2>4, <2>5, RunningStep DEF KillWorker
<1>11. QED BY <1>4, <1>5, <1>6, <1>7, <1>8, <1>9, <1>10

\* Starting the worker, giving up on it and collecting what it left keep the
\* invariant: what the supervisor makes of a prompt that was sent is a spend, or
\* the rejection it writes without the worker's files (supervisor._run,
\* _validate_worker, _merge_worker_checkpoint, _write_rejected).
LEMMA SupervisorKeeps ==
    ASSUME CallInv, StartWorker \/ SupervisorRaises \/ SupervisorExits \/ CollectWorker
    PROVE  CallInv'
<1>1. /\ worker \in WorkerProc /\ output \in Output /\ sealed \in BOOLEAN
      /\ worker.result.spend \in BOOLEAN /\ worker.saved \in BOOLEAN
      /\ crashes \in 0..MaxCrashes
  BY DEF CallInv, CallTypeOK, WorkerProc, Result0
<1>2. mjob = "invoke" /\ verdict.at = "wait" /\ verdict.result.status = "none"
  BY DEF CallInv, CallTypeOK, VerdictIsLast, StartWorker, SupervisorRaises,
         SupervisorExits, CollectWorker, Invocable
<1>3. CASE StartWorker
  <2>1. lane = "direct" /\ ~sent
    BY <1>3, CallResultTypes DEF StartWorker, CallInv, SpendIsSaved
  <2>2. PICK o \in Runs0 :
           /\ Crash(o)
           /\ IF o = "well"
              THEN /\ worker' = [NoWorker EXCEPT !.at = "auth"]
                   /\ mjob' = "invoke" /\ UNCHANGED output
              ELSE /\ \E written \in BOOLEAN :
                         output' = [output EXCEPT
                                      !.result = IF written THEN Rejected ELSE @]
                   /\ mjob' = "publish" /\ UNCHANGED worker
    BY <1>3 DEF StartWorker
  <2>3. worker' \in WorkerProc /\ worker'.at \in {"off", "auth"}
    BY <1>1, <1>3, <2>2, CallResultTypes DEF StartWorker, WorkerProc, NoWorker
  <2>4. output' \in Output /\ output'.proof = output.proof
    BY <1>1, <2>2, CallResultTypes DEF Output
  <2>5. \/ mjob' = "invoke" /\ output' = output
        \/ mjob' = "publish" /\ worker'.at = "off"
    <3>1. worker.at = "off"
      BY <1>3, CallResultTypes DEF StartWorker
    <3>2. QED BY <2>2, <3>1
  <2>6. CallTypeOK'
    BY <1>3, <2>2, <2>3, <2>4, <2>5, <1>1, CrashCounts DEF CallInv, CallTypeOK, StartWorker
  <2>7. /\ WorkerInItsStep' /\ SpendIsSaved' /\ VerdictIsLast' /\ ProofIsFull'
        /\ SpendIsNeverDenied'
    BY <1>2, <1>3, <2>1, <2>3, <2>4, <2>5
       DEF CallInv, StartWorker, WorkerInItsStep, SpendIsSaved, ProofIsFull,
           VerdictIsLast, SpendIsNeverDenied, SpendDenied, Running, BeforeTheCall
  <2>8. ResultKnows'
    <3>1. ~superv.raised /\ superv' = superv /\ sent' = sent
      BY <1>3, CallResultTypes DEF StartWorker, CallInv, ResultKnows
    <3>2. CASE mjob' = "invoke" /\ output' = output
      BY <1>2, <2>1, <3>1, <3>2 DEF CallInv, ResultKnows, BeforeTheCall
    <3>3. CASE mjob' = "publish"
      BY <2>1, <3>1, <3>3 DEF ResultKnows, BeforeTheCall
    <3>4. QED BY <2>5, <3>2, <3>3
  <2>9. QED BY <2>6, <2>7, <2>8 DEF CallInv
<1>4. \A saved \in BOOLEAN : AfterException(saved) \in Result0
  BY DEF AfterException, Failed, Rejected, Result0
<1>5. ~output.proof /\ attemptFile.local
  BY <1>2 DEF CallInv, ProofIsFull
<1>6. CASE SupervisorRaises
  <2>1. /\ Running /\ lane = "direct" /\ sealed' = TRUE /\ worker' = worker
        /\ mjob' = mjob /\ sent' = sent /\ verdict' = verdict /\ lane' = lane
    BY <1>6 DEF SupervisorRaises, Polled, Running, CallInv, WorkerInItsStep
  <2>2. /\ output' \in Output /\ output'.proof = output.proof
        /\ output'.result \in {Rejected, NoAnswer}
    <3>1. AfterException(FALSE) = Rejected
      BY DEF AfterException
    <3>2. PICK r \in {Rejected, NoAnswer} : output' = [output EXCEPT !.result = r]
      BY <1>6, <3>1 DEF SupervisorRaises, WritesRejected
    <3>3. QED BY <1>1, <3>2, CallResultTypes DEF Output
  <2>3. crashes' \in 0..MaxCrashes
    BY <1>1, <1>6, ModelCallAssumption DEF SupervisorRaises, ModelCallAssumption
  <2>4. superv' \in [cancel: BOOLEAN, killed: BOOLEAN, raised: BOOLEAN] /\ superv'.raised
    BY <1>6 DEF CallInv, CallTypeOK, SupervisorRaises
  <2>5. CallTypeOK'
    BY <1>6, <2>1, <2>2, <2>3, <2>4 DEF CallInv, CallTypeOK, SupervisorRaises
  <2>6. ResultKnows'
    BY <1>2, <2>1, <2>2, <2>4, CallResultTypes DEF ResultKnows, Running, BeforeTheCall
  <2>7. WorkerInItsStep' /\ SpendIsSaved' /\ VerdictIsLast' /\ ProofIsFull'
    BY <1>5, <1>6, <2>1, <2>2
       DEF CallInv, SupervisorRaises, WorkerInItsStep, SpendIsSaved, VerdictIsLast,
           ProofIsFull, Running, BeforeTheCall
  <2>8. SpendIsNeverDenied'
    BY <1>2, <2>1 DEF SpendIsNeverDenied, SpendDenied
  <2>9. QED BY <2>5, <2>6, <2>7, <2>8 DEF CallInv
<1>7. CASE SupervisorExits
  <2>1. /\ sealed /\ output.result \in {Rejected, NoAnswer}
        /\ mjob' = "publish" /\ ~BeforeTheCall /\ worker.at # "off"
    BY <1>7 DEF SupervisorExits, CallInv, ResultKnows
  <2>2. /\ worker' \in WorkerProc /\ worker'.saved = worker.saved /\ worker'.at = "ended"
    BY <1>1, <1>7 DEF SupervisorExits, WorkerProc
  <2>3. worker.at # "off" /\ lane = "direct"
    BY <2>1 DEF CallInv, WorkerInItsStep
  <2>4. CallTypeOK'
    BY <1>7, <2>1, <2>2 DEF CallInv, CallTypeOK, SupervisorExits
  <2>5. ResultKnows'
    BY <1>7, <2>1, <2>2, CallResultTypes DEF ResultKnows, SupervisorExits, BeforeTheCall
  <2>6. WorkerInItsStep' /\ SpendIsSaved' /\ VerdictIsLast' /\ ProofIsFull'
    BY <1>2, <1>5, <1>7, <2>1, <2>2, <2>3
       DEF CallInv, SupervisorExits, WorkerInItsStep, SpendIsSaved, VerdictIsLast,
           ProofIsFull, Running, BeforeTheCall
  <2>7. SpendIsNeverDenied'
    BY <1>2, <1>7 DEF SupervisorExits, SpendIsNeverDenied, SpendDenied
  <2>8. QED BY <2>4, <2>5, <2>6, <2>7 DEF CallInv
<1>8. CASE CollectWorker
  <2>1. /\ lane = "direct" /\ worker.at = "ended" /\ worker' = worker /\ ~superv.raised
        /\ mjob' = "publish" /\ sent' = sent /\ verdict' = verdict /\ lane' = lane
        /\ superv' = superv
    BY <1>8 DEF CollectWorker, CallInv, WorkerInItsStep
  <2>2. sent => worker.saved
    BY <2>1 DEF CallInv, SpendIsSaved
  <2>3. \A good \in BOOLEAN : /\ Collected(good) \in Result0
                              /\ sent => Collected(good).spend
    BY <1>1, <2>2 DEF Collected, Failed, Result0, Merged
  <2>4. /\ sent => AfterException(worker.saved).spend
        /\ AfterException(FALSE) = Rejected
    BY <2>2 DEF AfterException, Failed
  <2>5. /\ output' \in Output /\ sealed' \in BOOLEAN /\ output'.proof = output.proof
        /\ sent /\ output'.result.status # "none" =>
              output'.result.spend \/ (sealed' /\ output'.result = Rejected)
    <3>1. CASE \E good \in BOOLEAN : output' = [output EXCEPT !.result = Collected(good)]
      BY <1>1, <1>8, <2>3, <3>1 DEF Output, CollectWorker
    <3>2. CASE WritesRejected(worker.saved) /\ UNCHANGED sealed
      BY <1>1, <1>4, <2>4, <3>2, CallResultTypes DEF Output, WritesRejected
    <3>3. CASE WritesRejected(FALSE) /\ sealed' = TRUE
      BY <1>1, <1>4, <2>4, <3>3, CallResultTypes DEF Output, WritesRejected
    <3>4. QED BY <1>8, <3>1, <3>2, <3>3 DEF CollectWorker
  <2>6. crashes' \in 0..MaxCrashes
    <3>1. crashes' = crashes \/ (crashes > 0 /\ crashes' = crashes - 1)
      BY <1>8 DEF CollectWorker
    <3>2. QED BY <1>1, <3>1, ModelCallAssumption DEF ModelCallAssumption
  <2>7. CallTypeOK'
    BY <1>8, <2>1, <2>5, <2>6 DEF CallInv, CallTypeOK, CollectWorker
  <2>8. /\ WorkerInItsStep' /\ SpendIsSaved' /\ VerdictIsLast' /\ SpendIsNeverDenied'
        /\ ProofIsFull'
    BY <1>2, <1>5, <1>8, <2>1, <2>2, <2>5
       DEF CollectWorker, WorkerInItsStep, SpendIsSaved, VerdictIsLast,
           SpendIsNeverDenied, SpendDenied, ProofIsFull, Running, BeforeTheCall
  <2>9. ResultKnows'
    BY <2>1, <2>5 DEF ResultKnows, BeforeTheCall
  <2>10. QED BY <2>7, <2>8, <2>9 DEF CallInv
<1>9. QED BY <1>3, <1>6, <1>7, <1>8

\* The other lane, the upload and the end of the job keep the invariant
\* (claude-model.yml).
LEMMA JobKeeps ==
    ASSUME CallInv, InvokeAction \/ Capture \/ PublishArtifact \/ JobStops
    PROVE  CallInv'
<1>1. /\ worker \in WorkerProc /\ output \in Output /\ crashes \in 0..MaxCrashes
      /\ action \in [transcript: BOOLEAN, intact: BOOLEAN]
      /\ attemptFile.local \in BOOLEAN /\ sent \in BOOLEAN
      /\ lane \in {"direct", "action"}
  BY DEF CallInv, CallTypeOK
<1>2. verdict.at = "wait" /\ verdict.result.status = "none" /\ mjob # "done"
  BY DEF CallInv, CallTypeOK, VerdictIsLast, InvokeAction, Capture, PublishArtifact,
         JobStops, Invocable
<1>3. lane = "action" => worker.at = "off"
  BY DEF CallInv, WorkerInItsStep
<1>4. CASE InvokeAction
  <2>1. CallTypeOK'
    BY <1>4 DEF CallInv, CallTypeOK, InvokeAction
  <2>2. QED
    BY <1>2, <1>3, <1>4, <2>1
       DEF CallInv, InvokeAction, Invocable, WorkerInItsStep, SpendIsSaved,
           ResultKnows, VerdictIsLast, ProofIsFull, SpendIsNeverDenied, SpendDenied, Running, BeforeTheCall
<1>5. CASE Capture
  <2>1. PICK o \in Runs0 :
           /\ Crash(o)
           /\ output' = IF o = "fails" THEN output
                        ELSE [output EXCEPT !.proof = TRUE, !.full = attemptFile.local,
                                            !.intact = action.intact,
                                            !.transcript = action.transcript]
    BY <1>5 DEF Capture
  <2>2. /\ output' \in Output /\ output'.result = output.result
        /\ output'.proof => output.proof \/ output'.full = attemptFile.local
        /\ ~output.proof
    BY <1>1, <1>5, <2>1 DEF Output, Capture, CallInv, ProofIsFull
  <2>3. CallTypeOK'
    BY <1>1, <1>5, <2>1, <2>2, CrashCounts DEF CallInv, CallTypeOK, Capture
  <2>4. QED
    BY <1>2, <1>5, <2>2, <2>3
       DEF CallInv, Capture, WorkerInItsStep, SpendIsSaved,
           ResultKnows, VerdictIsLast, ProofIsFull, SpendIsNeverDenied, SpendDenied, Running, BeforeTheCall
<1>6. CASE PublishArtifact
  <2>1. PICK o \in Runs0 :
           Crash(o) /\ output' = [output EXCEPT !.uploaded = (o = "well")]
    BY <1>6 DEF PublishArtifact
  <2>2. /\ output' \in Output /\ output'.result = output.result
        /\ output'.proof = output.proof /\ output'.full = output.full
    BY <1>1, <2>1 DEF Output
  <2>3. CallTypeOK'
    BY <1>1, <1>6, <2>1, <2>2, CrashCounts DEF CallInv, CallTypeOK, PublishArtifact
  <2>4. QED
    BY <1>2, <1>6, <2>2, <2>3
       DEF CallInv, PublishArtifact, WorkerInItsStep, SpendIsSaved,
           ResultKnows, VerdictIsLast, ProofIsFull, SpendIsNeverDenied, SpendDenied, Running, BeforeTheCall
<1>7. CASE JobStops
  <2>1. /\ worker' \in WorkerProc /\ worker'.saved = worker.saved
        /\ worker'.at = IF worker.at = "off" THEN "off" ELSE "ended"
    BY <1>1, <1>7 DEF JobStops, WorkerProc
  <2>2. /\ mjob' \in {"capture", "publish", "done"}
        /\ mjob' = "capture" => lane = "action" \/ mjob = "hydrate"
    BY <1>1, <1>7 DEF JobStops, LastSteps
  <2>3. crashes' \in 0..MaxCrashes
    BY <1>1, <1>7, ModelCallAssumption DEF JobStops, ModelCallAssumption
  <2>4. /\ action' \in [transcript: BOOLEAN, intact: BOOLEAN] /\ sent' \in BOOLEAN
        /\ sent' => sent \/ (lane = "action" /\ mjob = "invoke")
    <3>1. CASE UNCHANGED <<sent, action>>
      BY <1>1, <3>1
    <3>2. CASE /\ lane = "action" /\ mjob = "invoke" /\ sent' = TRUE
               /\ \E intact \in BOOLEAN : action' = [action EXCEPT !.intact = intact]
      BY <1>1, <3>2
    <3>3. QED BY <1>7, <3>1, <3>2 DEF JobStops
  <2>5. CallTypeOK'
    BY <1>7, <2>1, <2>2, <2>3, <2>4 DEF CallInv, CallTypeOK, JobStops
  <2>6. QED
    BY <1>1, <1>2, <1>7, <2>1, <2>2, <2>4, <2>5
       DEF CallInv, JobStops, WorkerInItsStep, SpendIsSaved,
           ResultKnows, VerdictIsLast, ProofIsFull, SpendIsNeverDenied, SpendDenied, Running, BeforeTheCall
<1>8. QED BY <1>4, <1>5, <1>6, <1>7

\* Job finalize never turns a spend into none, whatever it finds
\* (agent_runtime/supervisor.py write_controller_failure_result, bridge.py).
LEMMA NormalizeKeeps ==
    ASSUME CallInv, Normalize
    PROVE  CallInv'
<1>1. /\ output \in Output /\ lane \in {"direct", "action"}
      /\ attemptFile.durable \in BOOLEAN
  BY DEF CallInv, CallTypeOK
<1>2. PICK same \in BOOLEAN, got \in BOOLEAN, good \in BOOLEAN :
        LET raw == output.uploaded /\ got
        IN verdict' = [at |-> "done", result |->
             IF ~same THEN RevisionMismatch
             ELSE IF lane = "direct"
             THEN IF raw /\ output.result # NoAnswer THEN output.result
                  ELSE IF attemptFile.durable THEN ControllerFailure ELSE NoAnswer
             ELSE IF raw /\ output.proof THEN Bridged(TRUE, good)
             ELSE IF attemptFile.durable THEN Bridged(FALSE, good) ELSE NoAnswer]
  BY DEF Normalize
<1>3. /\ RevisionMismatch \in Result0 /\ RevisionMismatch.spend
      /\ ControllerFailure \in Result0 /\ ControllerFailure.spend
      /\ output.result \in Result0 /\ NoAnswer \in Result0 /\ NoAnswer.status = "none"
  BY <1>1 DEF RevisionMismatch, ControllerFailure, Failed, Result0, Output, NoAnswer
<1>4. /\ Bridged(TRUE, good) \in Result0 /\ Bridged(FALSE, good) \in Result0
      /\ Bridged(FALSE, good).spend
      /\ ~Bridged(TRUE, good).spend =>
            /\ Bridged(TRUE, good).status = "failed"
            /\ ~output.transcript /\ ~(output.full /\ output.intact)
  BY <1>1 DEF Bridged, EnforcementHolds, Output, Result0
<1>5. verdict'.at = "done" /\ verdict'.result \in Result0
      /\ verdict' \in [at: {"wait", "done"}, result: Result0]
  BY <1>1, <1>2, <1>3, <1>4
<1>6. sent /\ verdict'.result.status # "none" /\ ~verdict'.result.spend =>
         \/ lane = "direct" /\ sealed /\ verdict'.result = Rejected
         \/ /\ lane = "action" /\ verdict'.result.status = "failed"
            /\ output.proof /\ ~output.intact /\ ~output.transcript
  <2>1. CASE lane = "direct"
    <3>1. verdict'.result \in {RevisionMismatch, output.result, ControllerFailure, NoAnswer}
      BY <1>2, <2>1
    <3>2. sent /\ output.result.status # "none" =>
             output.result.spend \/ (sealed /\ output.result = Rejected)
      BY <2>1 DEF CallInv, ResultKnows
    <3>3. QED BY <1>3, <2>1, <3>1, <3>2
  <2>2. CASE lane = "action"
    <3>1. output.proof /\ sent => output.full
      BY DEF CallInv, ProofIsFull
    <3>2. \/ verdict'.result = Bridged(TRUE, good) /\ output.proof
          \/ verdict'.result \in {RevisionMismatch, Bridged(FALSE, good), NoAnswer}
      BY <1>2, <2>2
    <3>3. QED BY <1>3, <1>4, <2>2, <3>1, <3>2
  <2>3. QED BY <1>1, <2>1, <2>2
<1>7. CallTypeOK'
  BY <1>5 DEF CallInv, CallTypeOK, Normalize
<1>8. /\ WorkerInItsStep' /\ SpendIsSaved' /\ ResultKnows' /\ VerdictIsLast'
      /\ ProofIsFull'
  BY <1>5 DEF CallInv, Normalize, WorkerInItsStep, SpendIsSaved, ResultKnows,
              VerdictIsLast, ProofIsFull, Running, BeforeTheCall
<1>9. SpendIsNeverDenied'
  BY <1>6 DEF Normalize, SpendIsNeverDenied, SpendDenied
<1>10. QED BY <1>7, <1>8, <1>9 DEF CallInv

\* The invariant holds at first (a model job before its first step).
LEMMA CallStarts == CallInit => CallInv
<1> SUFFICES ASSUME CallInit PROVE CallInv
  OBVIOUS
<1>1. NoOutput \in Output /\ NoOutput.result.status = "none" /\ NoAnswer.status = "none"
  BY DEF NoOutput, Output, NoAnswer, Result0
<1>2. CallTypeOK
  <2>1. verdict \in [at: {"wait", "done"}, result: Result0]
    BY CallResultTypes DEF CallInit
  <2>2. worker \in WorkerProc /\ output \in Output
    BY <1>1, CallResultTypes DEF CallInit
  <2>3. crashes \in 0..MaxCrashes
    BY ModelCallAssumption DEF CallInit, ModelCallAssumption
  <2>4. QED BY <2>1, <2>2, <2>3 DEF CallInit, CallTypeOK
<1>3. /\ WorkerInItsStep /\ SpendIsSaved /\ ResultKnows /\ VerdictIsLast
      /\ ProofIsFull /\ SpendIsNeverDenied
  BY <1>1, CallResultTypes
     DEF CallInit, WorkerInItsStep, SpendIsSaved, ResultKnows, VerdictIsLast,
         ProofIsFull, NoOutput, SpendIsNeverDenied, SpendDenied, Running, BeforeTheCall
<1>4. QED BY <1>2, <1>3 DEF CallInv

\* Every step keeps it (claude-model.yml, agent_runtime/).
LEMMA CallStepKeeps == CallInv /\ [CallNext]_callVars => CallInv'
<1> SUFFICES ASSUME CallInv, [CallNext]_callVars PROVE CallInv'
  OBVIOUS
<1>1. CASE UNCHANGED callVars
  BY <1>1 DEF callVars, CallInv, CallTypeOK, WorkerInItsStep, SpendIsSaved,
              ResultKnows, VerdictIsLast, ProofIsFull, SpendIsNeverDenied, SpendDenied, Running, BeforeTheCall
<1>2. CASE CallNext
  BY <1>2, CallPreparationKeeps, WorkerKeeps, SupervisorKeeps, JobKeeps, NormalizeKeeps
     DEF CallNext
<1>3. QED BY <1>1, <1>2

\* A result that denies spend is about a prompt that never reached the model, or
\* is one of the two that the property describes, for any number of crashes and in
\* any order of them (agent_runtime/supervisor.py, worker.py, bridge.py).
THEOREM SpendNeverDenied == CallSpec => [](CallTypeOK /\ SpendIsNeverDenied)
<1>1. CallInv => CallTypeOK /\ SpendIsNeverDenied
  BY DEF CallInv
<1>2. QED BY <1>1, CallStarts, CallStepKeeps, PTL DEF CallSpec
===============================================================================
