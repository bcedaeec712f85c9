---------------------------- MODULE MergeAssist -------------------------------
(***************************************************************************)
(* Assisted merge (merge_assist.py, merge-assist.yml, with do_merge of      *)
(* apply_decision.py and the holds of auto_merge.py).  A captain's merge    *)
(* meets a conflict; a run of its own resolves it, labels the pull request, *)
(* pushes the resolution to the contributor's branch and records that on    *)
(* the card; the resolution merges only on a second decision.  Decisions    *)
(* and scans share a concurrency group, the assist run does not, and people *)
(* push, label and unlabel at any time.                                     *)
(***************************************************************************)
EXTENDS Integers, Sequences, FiniteSets

CONSTANTS
    MaxCommits,  \* bound: heads the branch ever has
    MaxStirs,    \* bound: what people do to the pull request
    MaxTurns2,   \* bound: decisions and automatic merges
    MaxBreaks    \* bound: calls, steps and runners that fail

ASSUME AssistAssumption ==
    /\ MaxCommits \in Nat \ {0}
    /\ {MaxStirs, MaxTurns2, MaxBreaks} \subseteq Nat

VARIABLES
    commits,     \* every head, in the order of creation
    tpull,       \* the pull request
    slip,        \* its card
    work,        \* the assist run
    turn,        \* the decision or the scan that has the concurrency group
    wanted,      \* the head of the dispatched assist run, 0 for none
    admittedHeads, \* agent claims of assist events
    late,        \* a push whose client gave up: it may still land
    lifted,      \* history: a person removed the confirmation label
    decided,     \* history: heads the captain decided to merge
    stirs, turns2, breaks

assistHistory == <<lifted, decided>>
assistVars == <<commits, tpull, slip, work, turn, wanted, admittedHeads, late,
                assistHistory, stirs, turns2, breaks>>

HeadNumbers == 1..MaxCommits
HeadOrNone == 0..MaxCommits

\* assisted: made by the assist run; joins: a merge of the base (two parents);
\* clean: it merges without conflict; landed: it has been the branch's head.
BranchHead == [assisted: BOOLEAN, parent: HeadOrNone, joins: BOOLEAN,
               clean: BOOLEAN, landed: BOOLEAN]

TargetPull == [head: HeadNumbers, confirm: BOOLEAN, noAssist: BOOLEAN,
               merged: HeadOrNone, by: {"nobody", "captain", "scan"}]

Record == [phase: {"none", "awaiting", "escalated"}, original: HeadOrNone,
           resolution: HeadOrNone, outcome: {"not-pushed", "pushed", "uncertain"}]
NoRecord == [phase |-> "none", original |-> 0, resolution |-> 0,
             outcome |-> "not-pushed"]

AssistCard == [head: HeadNumbers, record: Record]

\* status: that of the file select_outcome_state would pick.
Work == [at: {"off", "bind", "claim", "prepare", "rebind", "apply", "stage",
              "label", "verify", "rollback", "push", "observe", "record"},
         head: HeadOrNone, made: HeadOrNone,
         status: {"none", "escalated", "resolved", "claim-intent",
                  "target-claimed", "push-failed", "pushed"},
         outcome: {"", "not-pushed", "uncertain"}]
NoWork == [at |-> "off", head |-> 0, made |-> 0, status |-> "none", outcome |-> ""]

Turn == [at: {"off", "read", "final", "put", "tidy"}, by: {"captain", "scan"},
         head: HeadOrNone, pending: BOOLEAN]
NoTurn == [at |-> "off", by |-> "captain", head |-> 0, pending |-> FALSE]

First == [assisted |-> FALSE, parent |-> 0, joins |-> FALSE, clean |-> FALSE,
          landed |-> TRUE]

AssistInit ==
    /\ commits = <<First>>
    /\ tpull = [head |-> 1, confirm |-> FALSE, noAssist |-> FALSE, merged |-> 0,
                by |-> "nobody"]
    /\ slip = [head |-> 1, record |-> NoRecord]
    /\ work = NoWork /\ turn = NoTurn /\ wanted = 0 /\ admittedHeads = {}
    /\ late = 0 /\ lifted = FALSE /\ decided = {}
    /\ stirs = MaxStirs /\ turns2 = MaxTurns2 /\ breaks = MaxBreaks

Ends == {o \in {"well", "lost"} : o = "well" \/ breaks > 0}
Break(o) == breaks' = IF o = "well" THEN breaks ELSE breaks - 1

\* merge_assist_bound_heads
BoundHeads(record) == {record.original, record.resolution} \ {0}

-----------------------------------------------------------------------------
(* People and the scan's refresh *)

\* The contributor pushes, a rewrite of the branch or a merge of the base
\* included.
ContributorPushes ==
    /\ tpull.merged = 0 /\ stirs > 0 /\ stirs' = stirs - 1
    /\ Len(commits) < MaxCommits
    /\ \E joins, clean \in BOOLEAN :
          commits' = Append(commits, [assisted |-> FALSE, parent |-> tpull.head,
                                      joins |-> joins, clean |-> clean,
                                      landed |-> TRUE])
    /\ tpull' = [tpull EXCEPT !.head = Len(commits) + 1]
    /\ UNCHANGED <<slip, work, turn, wanted, admittedHeads, late, assistHistory,
                   turns2, breaks>>

\* The base moves: a conflict appears or goes away.
BaseMoves ==
    /\ tpull.merged = 0 /\ stirs > 0 /\ stirs' = stirs - 1
    /\ commits' = [commits EXCEPT ![tpull.head].clean = ~@]
    /\ UNCHANGED <<tpull, slip, work, turn, wanted, admittedHeads, late,
                   assistHistory, turns2, breaks>>

\* A person removes the confirmation label, or sets or clears the
\* no-assisted-merge label.
PersonLabels ==
    /\ tpull.merged = 0 /\ stirs > 0 /\ stirs' = stirs - 1
    /\ \/ /\ tpull.confirm
          /\ tpull' = [tpull EXCEPT !.confirm = FALSE]
          /\ lifted' = TRUE
       \/ /\ tpull' = [tpull EXCEPT !.noAssist = ~@]
          /\ UNCHANGED lifted
    /\ UNCHANGED <<commits, slip, work, turn, wanted, admittedHeads, late, decided,
                   turns2, breaks>>

\* A push whose client saw an error reaches the branch after all; the server
\* refuses it when the branch has moved.
LatePushLands ==
    /\ late # 0
    /\ IF tpull.head = commits[late].parent /\ tpull.merged = 0
       THEN /\ commits' = [commits EXCEPT ![late].landed = TRUE]
            /\ tpull' = [tpull EXCEPT !.head = late]
       ELSE UNCHANGED <<commits, tpull>>
    /\ late' = 0
    /\ UNCHANGED <<slip, work, turn, wanted, admittedHeads, assistHistory, stirs,
                   turns2, breaks>>

\* carry_merge_assist: a record survives while it binds the new head.
Carried(record, head) == IF head \in BoundHeads(record) THEN record ELSE NoRecord

\* A scan refreshes the card to the live head.
RefreshSlip ==
    /\ turn = NoTurn /\ tpull.merged = 0 /\ slip.head # tpull.head
    /\ slip' = [head |-> tpull.head, record |-> Carried(slip.record, tpull.head)]
    /\ UNCHANGED <<commits, tpull, work, turn, wanted, admittedHeads, late,
                   assistHistory, stirs, turns2, breaks>>

-----------------------------------------------------------------------------
(* do_merge, for a decision and for the automatic merge *)

\* _live_assisted_resolution_proof: the last commit joins the base to the one
\* before it.
ResolutionProven(head) == commits[head].joins

\* The captain ticks merge on the card; its head is the decided revision.
DecideMerge ==
    /\ turn = NoTurn /\ turns2 > 0 /\ turns2' = turns2 - 1 /\ tpull.merged = 0
    /\ turn' = [NoTurn EXCEPT !.at = "read", !.by = "captain", !.head = slip.head]
    /\ decided' = decided \cup {slip.head}
    /\ UNCHANGED <<commits, tpull, slip, work, wanted, admittedHeads, late, lifted,
                   stirs, breaks>>

\* _assisted_confirmation_hold: the card's own record.
RecordHolds(head) == /\ slip.record.phase = "awaiting"
                     /\ slip.record.resolution = head

\* Mutant: the label of the target is not read.
ConfirmationHoldsByRecord(head) == RecordHolds(head)

\* The holds of evaluate_candidate and act_merge: the label, then the record.
ConfirmationHolds(head) == tpull.confirm \/ RecordHolds(head)

\* A scan has vetted the card's head and is about to act on it.
ScanActs ==
    /\ turn = NoTurn /\ turns2 > 0 /\ turns2' = turns2 - 1 /\ tpull.merged = 0
    /\ slip.head = tpull.head /\ commits[tpull.head].clean
    /\ ~ConfirmationHolds(tpull.head)
    /\ turn' = [NoTurn EXCEPT !.at = "read", !.by = "scan", !.head = slip.head]
    /\ UNCHANGED <<commits, tpull, slip, work, wanted, admittedHeads, late,
                   assistHistory, stirs, breaks>>

\* The first reads of do_merge.  A label that cannot be read is a hold, a label
\* on a head the card does not name or that is no resolution ends the merge,
\* and so does a head that moved.
ReadTargetLabel ==
    /\ turn.at = "read"
    /\ \E o \in Ends :
          /\ Break(o)
          /\ IF \/ o = "lost" \/ tpull.head # turn.head
                \/ tpull.confirm /\ ~ResolutionProven(tpull.head)
             THEN turn' = NoTurn
             ELSE turn' = [turn EXCEPT !.at = "final", !.pending = tpull.confirm]
    /\ UNCHANGED <<commits, tpull, slip, work, wanted, admittedHeads, late,
                   assistHistory, stirs, turns2>>

\* The final reads: the head again, the label again when it was there, and for
\* the automatic merge the guard, which reads label and record again.
FinalReads ==
    /\ turn.at = "final"
    /\ IF \/ tpull.head # turn.head
          \/ turn.pending /\ ~(tpull.confirm /\ ResolutionProven(tpull.head))
          \/ turn.by = "scan" /\ ConfirmationHolds(turn.head)
       THEN turn' = NoTurn
       ELSE turn' = [turn EXCEPT !.at = "put"]
    /\ UNCHANGED <<commits, tpull, slip, work, wanted, admittedHeads, late,
                   assistHistory, stirs, turns2, breaks>>

\* The merge call names the decided head and the server refuses another.  A
\* conflict met by a decision dispatches the assist run, when that succeeds.
PutMerge ==
    /\ turn.at = "put"
    /\ \/ /\ tpull.head = turn.head /\ commits[turn.head].clean
          /\ tpull' = [tpull EXCEPT !.merged = turn.head, !.by = turn.by]
          /\ turn' = IF turn.pending THEN [turn EXCEPT !.at = "tidy"] ELSE NoTurn
          /\ UNCHANGED <<wanted, breaks>>
       \/ /\ tpull.head = turn.head /\ ~commits[turn.head].clean
          /\ turn' = NoTurn
          /\ \E o \in Ends :
                /\ Break(o)
                /\ wanted' = IF turn.by = "captain" /\ wanted = 0 /\ o = "well"
                             THEN turn.head ELSE wanted
          /\ UNCHANGED tpull
       \/ /\ tpull.head # turn.head
          /\ turn' = NoTurn /\ UNCHANGED <<tpull, wanted, breaks>>
    /\ UNCHANGED <<commits, slip, work, admittedHeads, late, assistHistory, stirs,
                   turns2>>

\* The confirmation label goes after the merge; a failure is a warning.
TidyLabel ==
    /\ turn.at = "tidy"
    /\ \E o \in Ends :
          /\ Break(o)
          /\ tpull' = [tpull EXCEPT !.confirm = @ /\ o # "well"]
    /\ turn' = NoTurn
    /\ UNCHANGED <<commits, slip, work, wanted, admittedHeads, late, assistHistory,
                   stirs, turns2>>

-----------------------------------------------------------------------------
(* The assist run, job prepare *)

Goes(at) == work' = [work EXCEPT !.at = at]

\* _fail: an escalated state file, which the run's last step records.
Escalates == work' = [work EXCEPT !.at = "record", !.status = "escalated"]

BeginAssist ==
    /\ work = NoWork /\ wanted # 0
    /\ work' = [NoWork EXCEPT !.at = "bind", !.head = wanted]
    /\ wanted' = 0
    /\ UNCHANGED <<commits, tpull, slip, turn, admittedHeads, late, assistHistory,
                   stirs, turns2, breaks>>

\* bind: the decided head is still the head of an open pull request without the
\* no-assisted-merge label.
Bindable == tpull.head = work.head /\ tpull.merged = 0 /\ ~tpull.noAssist

BindTarget ==
    /\ work.at = "bind"
    /\ \E o \in Ends :
          /\ Break(o)
          /\ IF o = "well" /\ Bindable THEN Goes("claim") ELSE Escalates
    /\ UNCHANGED <<commits, tpull, slip, turn, wanted, admittedHeads, late,
                   assistHistory, stirs, turns2>>

\* agent_claim: one run per event; a second one, or a claim that fails, ends
\* the run without a record.
ClaimAssistEvent ==
    /\ work.at = "claim"
    /\ \E o \in Ends :
          /\ Break(o)
          /\ IF o = "well" /\ work.head \notin admittedHeads
             THEN /\ admittedHeads' = admittedHeads \cup {work.head}
                  /\ Goes("prepare")
             ELSE /\ work' = NoWork /\ UNCHANGED admittedHeads
    /\ UNCHANGED <<commits, tpull, slip, turn, wanted, late, assistHistory, stirs,
                   turns2>>

\* fetch_target and prepare: the fetched head is the bound one and the conflict
\* is small enough (admits) for a model turn, or there is none.
PrepareMerge ==
    /\ work.at = "prepare"
    /\ \E admits \in BOOLEAN :
          IF tpull.head = work.head /\ admits THEN Goes("rebind") ELSE Escalates
    /\ UNCHANGED <<commits, tpull, slip, turn, wanted, admittedHeads, late,
                   assistHistory, stirs, turns2, breaks>>

-----------------------------------------------------------------------------
(* Job resolve *)

\* Bind and prepare again, from nothing; the conflict must be the one the model
\* was shown.
RebindTarget ==
    /\ work.at = "rebind"
    /\ \E same \in BOOLEAN :
          IF Bindable /\ same THEN Goes("apply") ELSE Escalates
    /\ UNCHANGED <<commits, tpull, slip, turn, wanted, admittedHeads, late,
                   assistHistory, stirs, turns2, breaks>>

\* apply_resolution, commit_resolution: a commit whose parents are the bound
\* head and the base; a resolution that is not confined or complete escalates.
ApplyResolution ==
    /\ work.at = "apply"
    /\ \/ /\ Len(commits) < MaxCommits
          /\ \E clean \in BOOLEAN :
                commits' = Append(commits,
                             [assisted |-> TRUE, parent |-> work.head,
                              joins |-> TRUE, clean |-> clean, landed |-> FALSE])
          /\ work' = [work EXCEPT !.at = "stage", !.status = "resolved",
                                  !.made = Len(commits) + 1]
       \/ Escalates /\ UNCHANGED commits
    /\ UNCHANGED <<tpull, slip, turn, wanted, admittedHeads, late, assistHistory,
                   stirs, turns2, breaks>>

\* cmd_claim_target: the credential, verified_push_plan, the intent file.
StageClaim ==
    /\ work.at = "stage"
    /\ \E o \in Ends :
          /\ Break(o)
          /\ IF o = "well" /\ tpull.head = work.head
             THEN work' = [work EXCEPT !.at = "label", !.status = "claim-intent"]
             ELSE Escalates
    /\ UNCHANGED <<commits, tpull, slip, turn, wanted, admittedHeads, late,
                   assistHistory, stirs, turns2>>

\* apply_confirmation_denial up to _ensure_confirmation_label: a moved head or
\* the no-assist label stops it, and the label call may fail with its effect.
SetConfirmation ==
    /\ work.at = "label"
    /\ IF tpull.head # work.head \/ tpull.noAssist
       THEN Escalates /\ UNCHANGED <<tpull, lifted, breaks>>
       ELSE \E o \in Ends, set \in BOOLEAN :
               /\ Break(o) /\ (o = "well" => set)
               /\ tpull' = [tpull EXCEPT !.confirm = @ \/ set]
               /\ lifted' = (lifted /\ ~set)
               /\ IF o = "well" THEN Goes("verify") ELSE Escalates
    /\ UNCHANGED <<commits, slip, turn, wanted, admittedHeads, late, decided, stirs,
                   turns2>>

\* Head and label are read back before the claimed file is written; the write
\* may fail.
VerifyConfirmation ==
    /\ work.at = "verify"
    /\ IF tpull.head # work.head \/ ~tpull.confirm
       THEN Escalates /\ UNCHANGED breaks
       ELSE \E o \in Ends :
               /\ Break(o)
               /\ IF o = "well"
                  THEN work' = [work EXCEPT !.at = "push",
                                            !.status = "target-claimed"]
                  ELSE Goes("rollback")
    /\ UNCHANGED <<commits, tpull, slip, turn, wanted, admittedHeads, late,
                   assistHistory, stirs, turns2>>

\* rollback_confirmation_denial, on the bound head only; what cannot be rolled
\* back is recorded as uncertain.
RollBack ==
    /\ work.at = "rollback"
    /\ \E o \in Ends :
          /\ Break(o)
          /\ IF o = "well" /\ tpull.head = work.head
             THEN /\ tpull' = [tpull EXCEPT !.confirm = FALSE]
                  /\ Escalates
             ELSE /\ work' = [work EXCEPT !.at = "record", !.status = "escalated",
                                          !.outcome = "uncertain"]
                  /\ UNCHANGED tpull
    /\ UNCHANGED <<commits, slip, turn, wanted, admittedHeads, late, assistHistory,
                   stirs, turns2>>

\* push_resolution: a plain push after one more read of the head.  The call may
\* fail although the branch moved, fail for good, or land later; the step may
\* also die without its file.
PushResolution ==
    /\ work.at = "push"
    /\ \E o \in Ends, moves \in BOOLEAN, dies, later \in BOOLEAN :
          /\ Break(o)
          /\ IF o = "well" THEN ~dies /\ ~later /\ moves = (tpull.head = work.head)
                           ELSE moves => tpull.head = work.head /\ ~later
          /\ tpull.merged = 0 \/ ~moves
          /\ commits' = IF moves THEN [commits EXCEPT ![work.made].landed = TRUE]
                                 ELSE commits
          /\ tpull' = IF moves THEN [tpull EXCEPT !.head = work.made] ELSE tpull
          /\ late' = IF later THEN work.made ELSE late
          /\ work' = [work EXCEPT !.at = "observe",
                 !.status = IF dies THEN @
                            ELSE IF moves /\ o = "well" THEN "pushed"
                            ELSE "push-failed"]
    /\ UNCHANGED <<slip, turn, wanted, admittedHeads, assistHistory, stirs, turns2>>

\* cmd_observe_push: only a failed push is looked up on the branch.
ObservePush ==
    /\ work.at = "observe"
    /\ \E o \in Ends :
          /\ Break(o)
          /\ work' =
               IF work.status = "pushed" THEN [work EXCEPT !.at = "record"]
               ELSE IF work.status # "push-failed" \/ o = "lost"
                       \/ tpull.head \notin {work.head, work.made}
               THEN [work EXCEPT !.at = "record", !.status = "escalated",
                                 !.outcome = "uncertain"]
               ELSE IF tpull.head = work.made
               THEN [work EXCEPT !.at = "record", !.status = "pushed"]
               ELSE [work EXCEPT !.at = "record", !.status = "escalated",
                                 !.outcome = "not-pushed"]
    /\ UNCHANGED <<commits, tpull, slip, turn, wanted, admittedHeads, late,
                   assistHistory, stirs, turns2>>

\* A step dies without its file, and the run's last step records what the files
\* before it say; or the runner is lost and nothing is recorded.
WorkDies ==
    /\ work.at \notin {"off", "bind", "claim"}
    /\ breaks > 0 /\ breaks' = breaks - 1
    /\ \/ work' = NoWork
       \/ work.at # "record" /\ Goes("record")
    /\ UNCHANGED <<commits, tpull, slip, turn, wanted, admittedHeads, late,
                   assistHistory, stirs, turns2>>

\* cmd_record: what build_record makes of the file.
RecordOf(w) ==
    IF w.status = "pushed"
    THEN [phase |-> "awaiting", original |-> w.head, resolution |-> w.made,
          outcome |-> "pushed"]
    ELSE [phase |-> "escalated", original |-> w.head, resolution |-> 0,
          outcome |-> IF w.outcome # "" THEN w.outcome
                      ELSE IF w.status \in {"claim-intent", "target-claimed",
                                            "push-failed"}
                      THEN "uncertain" ELSE "not-pushed"]

\* record_merge_assist: on an open card whose head the record binds; the
\* projection may be deferred, and it is not retried.
RecordOutcome ==
    /\ work.at = "record"
    /\ \E o \in Ends :
          /\ Break(o)
          /\ slip' = IF /\ o = "well" /\ tpull.merged = 0
                        /\ slip.head \in BoundHeads(RecordOf(work))
                     THEN [slip EXCEPT !.record = RecordOf(work)] ELSE slip
    /\ work' = NoWork
    /\ UNCHANGED <<commits, tpull, turn, wanted, admittedHeads, late, assistHistory,
                   stirs, turns2>>

-----------------------------------------------------------------------------
AssistRun ==
    \/ BeginAssist \/ BindTarget \/ ClaimAssistEvent \/ PrepareMerge
    \/ RebindTarget \/ ApplyResolution \/ StageClaim \/ SetConfirmation
    \/ VerifyConfirmation \/ RollBack \/ PushResolution \/ ObservePush
    \/ WorkDies \/ RecordOutcome

AssistNext ==
    \/ ContributorPushes \/ BaseMoves \/ PersonLabels \/ LatePushLands
    \/ RefreshSlip \/ DecideMerge \/ ScanActs \/ ReadTargetLabel \/ FinalReads
    \/ PutMerge \/ TidyLabel \/ AssistRun

AssistSpec == AssistInit /\ [][AssistNext]_assistVars

\* Every variable keeps its type.
AssistTypeOK ==
    /\ commits \in Seq(BranchHead) /\ Len(commits) \in HeadNumbers
    /\ tpull \in TargetPull /\ slip \in AssistCard /\ work \in Work /\ turn \in Turn
    /\ {wanted, late} \subseteq HeadOrNone
    /\ {admittedHeads, decided} \subseteq SUBSET HeadNumbers /\ lifted \in BOOLEAN
    /\ stirs \in 0..MaxStirs /\ turns2 \in 0..MaxTurns2 /\ breaks \in 0..MaxBreaks

\* A resolution made by Wheelhouse is merged by the scan only after a person
\* took the confirmation label off or decided to merge that very head.
ResolutionsAreConfirmed ==
    tpull.merged # 0 /\ commits[tpull.merged].assisted
        => tpull.by = "captain" \/ lifted \/ tpull.merged \in decided

\* A card that awaits confirmation names a resolution the branch did receive.
AwaitingWasPushed ==
    slip.record.phase = "awaiting" => commits[slip.record.resolution].landed

\* "Nothing merges without your second decision" (apply_decision.do_merge): the
\* label is on the target before the push, so it holds the resolution whatever
\* becomes of the push's answer, of the card's record and of the run, also when
\* the push lands late; and the card promises a pushed resolution only when the
\* branch received it.
AssistedMergeIsConfirmed == ResolutionsAreConfirmed /\ AwaitingWasPushed

=============================================================================
