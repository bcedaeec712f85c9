---------------------------- MODULE DecisionHandler ----------------------------
(***************************************************************************)
(* The owner's decisions on one pull-request card: a ticked box, a          *)
(* decision label or a slash-command, handled by decision-handler.yml with  *)
(* scripts/apply_decision.py and scripts/decision_label_recovery.py.        *)
(*                                                                         *)
(* An event carries the card as it was when the owner acted.  Its run waits *)
(* in the concurrency group wheelhouse-backstop, so between the act and the *)
(* run a scan may rewrite the card, other decisions may be handled and      *)
(* people may go on.  Runs of the group exclude each other; people act      *)
(* between any two calls of a run.                                          *)
(*                                                                         *)
(* The card is owned by the projection writer.  Its revision stands for     *)
(* the head, the observation and the context that the body binds.           *)
(***************************************************************************)
EXTENDS Integers, FiniteSets

CONSTANTS
    Boxes, Labels, Commands,  \* bound: what the owner ticks, labels, replies
    WorkflowRevs,  \* revisions that touch a workflow, which no token may merge
    MaxEvents,     \* bound: decisions
    MaxActs,       \* bound: what people do, decisions included
    MaxTrouble     \* bound: pushes, scans that rewrite the card, runs started
                   \* again by hand, lost runners and failed calls, all told

Decisions == {"merge", "close", "decline", "hold", "comment"}

\* apply_decision.checkbox_allowed, parse_label and SLASH
ASSUME DecisionsAssumption ==
    /\ Boxes \subseteq {"merge", "close", "hold"}
    /\ Labels \subseteq {"merge", "close", "decline", "hold"}
    /\ Commands \subseteq Decisions
    /\ WorkflowRevs \subseteq Nat
    /\ {MaxEvents, MaxActs, MaxTrouble} \subseteq Nat

VARIABLES
    card,          \* the card issue
    target,        \* the pull request
    events, made,  \* what the owner decided, and how often
    queue,         \* events whose run waits
    ended,         \* events of which a run has ended
    job,           \* the run under way
    planned, listed, putting,  \* the scan's: revision, card as listed?, labels
    posts, ends,   \* history: comments, and closes or merges, of an event
    settled,       \* history: events made before some reply
    silent,        \* history: events that posted, unanswered when unlocked
    withdrawn,     \* history: events whose label the owner took off in time
    overtaken,     \* history: erased labels that the owner decided over since
    broken,        \* history: a lost runner, or a failure after the execution
    acts, trouble

bounds  == <<acts, trouble>>
queues  == <<events, made, queue, ended>>
scan    == <<planned, listed, putting>>
effects == <<posts, ends>>
labelHistory == <<withdrawn, overtaken>>
history == <<settled, silent, labelHistory, broken>>
vars    == <<card, target, queues, job, scan, effects, history, bounds>>

Events  == 1..MaxEvents
NoEvent == 0
Revs    == 0..MaxTrouble

States == {"needs-decision", "processing", "resolved", "blocked"}

\* comments is a count; marks are the recovery claims among the comments;
\* erased says that the last write was a projection that took labels off.
Card == [open: BOOLEAN, states: SUBSET States, labels: SUBSET Labels,
         boxes: SUBSET Boxes, rev: Revs, comments: Nat,
         marks: SUBSET [ev: Events, boxes: SUBSET Boxes], erased: BOOLEAN]

Target == [open: BOOLEAN, rev: Revs, merged: {-1} \cup Revs]

\* The trigger's snapshot of the card, and for a label the timeline since:
\* the event alone, erased by a projection and nothing else, or more.
Event == [by: {"none", "box", "label", "slash"}, what: Decisions,
          rev: Revs, states: SUBSET States, labels: SUBSET Labels,
          comments: Nat, tail: {"labeled", "erased", "more"}]

EmptyEvent == [by |-> "none", what |-> "hold", rev |-> 0, states |-> {},
               labels |-> {}, comments |-> 0, tail |-> "more"]

Stages == {"idle", "policy", "admit", "claim", "verify", "current", "lock",
           "revalidate", "revision", "merge", "put", "note", "policyAgain",
           "shut", "reply", "clear", "resolve", "block", "drop", "close",
           "scanRead", "scanPatch"}

ScanStages   == {"scanRead", "scanPatch"}
HandlerStages == Stages \ (ScanStages \cup {"idle"})

\* Once the run has checked for the last time that the decision stands.
PastChecks == {"revision", "merge", "put", "note", "policyAgain", "shut",
               "reply", "clear", "resolve", "block", "drop", "close"}

Terminals == {"unset", "none", "retryable", "resolved", "blocked", "error"}

\* admitted: the source policy let the run go on.  read: the boxes of the body
\* that a recovery was claimed for; recovered: the claim was verified.
\* terminal: how the execution ended.  posted: the run posted on the target.
Job == [stage: Stages, ev: Events \cup {NoEvent}, admitted: BOOLEAN,
        read: SUBSET Boxes, recovered: BOOLEAN, terminal: Terminals,
        posted: BOOLEAN]

NoJob == [stage |-> "idle", ev |-> NoEvent, admitted |-> FALSE, read |-> {},
          recovered |-> FALSE, terminal |-> "unset", posted |-> FALSE]

At(s) == job.stage = s

Init ==
    /\ card = [open |-> TRUE, states |-> {"needs-decision"}, labels |-> {},
               boxes |-> {}, rev |-> 0, comments |-> 0, marks |-> {},
               erased |-> FALSE]
    /\ target = [open |-> TRUE, rev |-> 0, merged |-> -1]
    /\ events = [e \in Events |-> EmptyEvent] /\ made = 0
    /\ queue = {} /\ ended = {}
    /\ job = NoJob
    /\ planned = 0 /\ listed = FALSE /\ putting = {}
    /\ posts = [e \in Events |-> 0] /\ ends = [e \in Events |-> 0]
    /\ settled = {} /\ silent = {} /\ withdrawn = {} /\ overtaken = {}
    /\ broken = FALSE
    /\ acts = 0 /\ trouble = 0

-----------------------------------------------------------------------------
(* People.  A decision on a closed card is left out: its run ends at the    *)
(* first look at the card.                                                  *)

Act == acts < MaxActs /\ acts' = acts + 1 /\ UNCHANGED trouble

Trouble == trouble < MaxTrouble /\ trouble' = trouble + 1

\* Every write to the card by somebody else moves its updatedAt.
Touched(c) == [c EXCEPT !.erased = FALSE]

Made(by, d, c) == [by |-> by, what |-> d, rev |-> c.rev, states |-> c.states,
                   labels |-> c.labels, comments |-> c.comments,
                   tail |-> IF by = "label" THEN "labeled" ELSE "more"]

\* The events that are neither under way nor waiting with a standing claim.
Unsettled == {e \in Events : ~(job.ev = e /\ job.stage \in PastChecks)}

\* The erased labels that a later decision of the owner takes the place of.
Erased == {e \in Unsettled : events[e].tail = "erased"}

\* The owner decides: the card becomes c, a run of the new event is queued.
\* rest are the events as a new label row in the timeline leaves them.
Decide(by, d, c, rest) ==
    /\ made < MaxEvents /\ card.open
    /\ Act
    /\ card' = Touched(c)
    /\ made' = made + 1
    /\ events' = [rest EXCEPT ![made + 1] = Made(by, d, c)]
    /\ queue' = queue \cup {made + 1}
    /\ UNCHANGED <<target, ended, job, effects, settled, silent, broken, planned,
                   putting>>
    /\ listed' = FALSE

\* A row for label d is added to the timeline of the card by the owner.
RowAdded == [e \in Events |-> [events[e] EXCEPT !.tail = "more"]]

OwnerTicks(d) ==
    /\ d \in Boxes \ card.boxes
    /\ Decide("box", d, [card EXCEPT !.boxes = @ \cup {d}], events)
    /\ overtaken' = overtaken \cup Erased
    /\ UNCHANGED withdrawn

OwnerLabels(d) ==
    /\ d \in Labels \ card.labels
    /\ Decide("label", d, [card EXCEPT !.labels = @ \cup {d}], RowAdded)
    /\ overtaken' = overtaken \cup Erased
    /\ withdrawn' = {e \in withdrawn : events[e].what # d}

OwnerCommands(d) ==
    /\ d \in Commands
    /\ Decide("slash", d, [card EXCEPT !.comments = @ + 1], events)
    /\ UNCHANGED labelHistory

\* Taking back a tick or a label.  The run of an untick decides nothing.  A body
\* that is again what the projection wrote is one that nobody edited.
OwnerUnticks(d) ==
    /\ d \in card.boxes /\ card.open /\ Act
    /\ card' = Touched([card EXCEPT !.boxes = @ \ {d}])
    /\ listed' = FALSE
    /\ overtaken' = IF card.boxes = {d}
                    THEN {e \in overtaken : events[e].tail = "more"}
                    ELSE overtaken \cup Erased
    /\ UNCHANGED <<target, queues, job, planned, putting, effects, settled,
                   silent, withdrawn, broken>>

OwnerUnlabels(d) ==
    /\ d \in card.labels /\ card.open /\ Act
    /\ card' = Touched([card EXCEPT !.labels = @ \ {d}])
    /\ listed' = FALSE
    /\ events' = RowAdded
    /\ overtaken' = overtaken \cup Erased
    /\ withdrawn' = withdrawn \cup {e \in queue : events[e].by = "label"
                                                    /\ events[e].what = d}
    /\ UNCHANGED <<target, made, queue, ended, job, planned, putting, effects,
                   settled, silent, broken>>

\* Anybody, or another workflow, comments on the card.
SomebodyComments ==
    /\ Act
    /\ card' = Touched([card EXCEPT !.comments = @ + 1])
    /\ listed' = FALSE
    /\ UNCHANGED <<target, queues, job, planned, putting, effects, history>>

OwnerClosesCard ==
    /\ card.open /\ Act
    /\ card' = Touched([card EXCEPT !.open = FALSE])
    /\ listed' = FALSE
    /\ UNCHANGED <<target, queues, job, planned, putting, effects, history>>

Pushes ==
    /\ target.open /\ Trouble
    /\ target' = [target EXCEPT !.rev = @ + 1]
    /\ UNCHANGED <<card, queues, job, scan, effects, history, acts>>

TargetClosesByHand ==
    /\ target.open /\ Act
    /\ target' = [target EXCEPT !.open = FALSE]
    /\ UNCHANGED <<card, queues, job, scan, effects, history>>

People == \/ \E d \in Decisions : \/ OwnerTicks(d) \/ OwnerLabels(d)
                                  \/ OwnerCommands(d) \/ OwnerUnticks(d)
                                  \/ OwnerUnlabels(d)
          \/ SomebodyComments \/ OwnerClosesCard \/ Pushes \/ TargetClosesByHand

-----------------------------------------------------------------------------
(* A scan that rewrites the card: reconcile.py and projection_writer.py.    *)

\* render_card.is_refreshable
Refreshable == /\ "needs-decision" \in card.states
               /\ card.states \cap {"processing", "resolved", "blocked"} = {}

ScanOnly == UNCHANGED <<target, made, queue, ended, effects, history, acts>>

\* The scan lists the cards and reads the pull request.  It rewrites the card
\* for a new revision, or for another reason with the revision as it is.
ScanLists ==
    /\ At("idle") /\ Trouble
    /\ target.open
    /\ job' = [job EXCEPT !.stage = "scanRead"]
    /\ planned' = target.rev
    /\ listed' = TRUE
    /\ UNCHANGED <<card, events, putting>>
    /\ ScanOnly

\* The card is read again and compared with the listing; its labels that no
\* projection manages will be written back as they were read.
ScanReads ==
    /\ At("scanRead")
    /\ IF listed /\ Refreshable /\ card.open
       THEN job' = [job EXCEPT !.stage = "scanPatch"] /\ putting' = card.labels
       ELSE job' = NoJob /\ putting' = {}
    /\ listed' = FALSE
    /\ UNCHANGED <<card, events, planned, trouble>>
    /\ ScanOnly

\* The tail of an event after the PATCH took off or put back labels.
PatchedTail(e) ==
    LET off == card.labels \ putting
        on  == putting \ card.labels
    IN  CASE off \cup on = {} -> events[e].tail
          [] /\ off = {events[e].what} /\ on = {}
             /\ events[e].tail = "labeled"  -> "erased"
          [] OTHER -> "more"

\* One PATCH of title, body and labels, without a precondition.
ScanPatches ==
    /\ At("scanPatch") /\ job' = NoJob
    /\ card' = [card EXCEPT !.rev = planned, !.boxes = {}, !.labels = putting,
                            !.erased = card.labels \ putting # {}]
    /\ events' = [e \in Events |-> [events[e] EXCEPT !.tail = PatchedTail(e)]]
    /\ planned' = 0 /\ putting' = {}
    /\ UNCHANGED <<listed, trouble>>
    /\ ScanOnly

-----------------------------------------------------------------------------
(* The decision handler, up to the execution.                               *)

Decision == events[job.ev]

\* What no step of the handler changes.
Others == UNCHANGED <<events, made, queue, scan, labelHistory, acts>>

Works == UNCHANGED trouble
Fault == Trouble

\* The run goes on at s, or is over.
GoTo(s) == job' = [job EXCEPT !.stage = s] /\ UNCHANGED ended
EndRun  == job' = NoJob /\ ended' = ended \cup {job.ev}

Looks == UNCHANGED <<card, target, effects, settled, silent, broken>>

\* A run of a waiting event starts; what it decides is parsed from its snapshot.
Start(e) ==
    /\ At("idle") /\ e \in queue
    /\ queue' = queue \ {e}
    /\ job' = [job EXCEPT !.stage = "policy", !.ev = e]
    /\ UNCHANGED <<card, target, events, made, ended, scan, effects, history, bounds>>

\* Somebody starts a run that ended again, with the event it had.
Rerun(e) ==
    /\ e \in ended \ queue /\ job.ev # e
    /\ Trouble
    /\ queue' = queue \cup {e}
    /\ UNCHANGED <<card, target, events, made, ended, job, scan, effects, history,
                   acts>>

\* apply_decision.cmd_source_policy: the pull request can be read and its head
\* is the one decided on.
SourcePolicy ==
    /\ At("policy")
    /\ \E ok \in BOOLEAN :
          /\ IF ok THEN Works ELSE Fault
          /\ job' = [job EXCEPT !.stage = "admit",
                                !.admitted = ok /\ target.rev = Decision.rev]
    /\ UNCHANGED ended /\ Looks /\ Others

\* decision_label_recovery.admission_record
Admission(locks) ==
    /\ card.open /\ card.rev = Decision.rev
    /\ "needs-decision" \in card.states
    /\ card.states \cap {"processing", "resolved", "blocked"} = locks
    /\ card.states \ {"processing"} = Decision.states
    /\ card.labels = {} /\ Decision.labels = {Decision.what}
    /\ Decision.tail = "erased"

\* A fault: a body edited since the claim is no obstacle.
MutSameRevision(locks) == Admission(locks)

\* The event still names the body that the claim was made for.
AdmissionAsRead(locks) == Admission(locks) /\ card.boxes = job.read

\* A fault: the claim keeps the labels of the event.
MutMarksLabels(b) == [ev |-> job.ev, boxes |-> Decision.labels]

\* The claim of the event under way, for a body with these boxes.
Mark(b) == [ev |-> job.ev, boxes |-> b]

\* rec: the recovery admitted the event.
AfterRecovery(rec) ==
    IF job.admitted
    THEN job' = [job EXCEPT !.stage = "current", !.recovered = rec] /\ UNCHANGED ended
    ELSE EndRun

\* A label that is gone from the card is claimed if a projection erased it and
\* nothing else happened to the card since.  This runs whatever the policy said.
Admit ==
    /\ At("admit")
    /\ LET gone  == Decision.by = "label" /\ Decision.what \notin card.labels
           first == /\ gone /\ Admission({}) /\ card.erased
                    /\ Mark(card.boxes) \notin card.marks
       IN  \/ /\ first /\ Works
              /\ job' = [job EXCEPT !.stage = "claim", !.read = card.boxes]
              /\ UNCHANGED ended
           \/ ~first /\ AfterRecovery(FALSE) /\ Works
           \/ Decision.by = "label" /\ EndRun /\ Fault
    /\ Looks /\ Others

\* The claim is a comment on the card.  A failure ends the job.
Claim ==
    /\ At("claim")
    /\ \/ GoTo("verify") /\ Works
       \/ EndRun /\ Fault
    /\ \/ card' = Touched([card EXCEPT !.comments = @ + 1,
                                       !.marks = @ \cup {Mark(job.read)}])
       \/ Fault /\ UNCHANGED card
    /\ UNCHANGED <<target, effects, settled, silent, broken>> /\ Others

Verify ==
    /\ At("verify")
    /\ \/ AfterRecovery(AdmissionAsRead({}) /\ Mark(job.read) \in card.marks) /\ Works
       \/ EndRun /\ Fault
    /\ Looks /\ Others

\* What the label comparison of the workflow takes for equal.
LabelsStand == \/ card.labels = Decision.labels
               \/ job.recovered /\ card.labels = Decision.labels \ {Decision.what}

StatesStand == card.states \ {"processing"} = Decision.states \ {"processing"}

CommentsStand ==
    card.comments = Decision.comments + (IF job.recovered THEN 1 ELSE 0)

\* A fault: comments since the decision are not looked at.
MutIgnoresComments == /\ card.open /\ card.rev = Decision.rev
                      /\ StatesStand /\ LabelsStand /\ Refreshable

\* A fault: a lock that another run left behind is not looked at.
MutIgnoresLock == /\ card.open /\ card.rev = Decision.rev
                  /\ CommentsStand /\ StatesStand /\ LabelsStand
                  /\ "needs-decision" \in card.states

\* The card is still the one the owner decided on.  For a card of the projection
\* writer the same revision (owner_projection_race_recoverable) makes up for a
\* body and an updatedAt that differ.
CardIsCurrent == /\ card.open /\ card.rev = Decision.rev
                 /\ CommentsStand /\ StatesStand /\ LabelsStand /\ Refreshable

CurrentCard ==
    /\ At("current")
    /\ \/ CardIsCurrent /\ GoTo("lock") /\ Works
       \/ ~CardIsCurrent /\ EndRun /\ Works
       \/ EndRun /\ Fault
    /\ Looks /\ Others

\* A fault: the steps that unlock the card are skipped like all others.
MutStaysLocked == EndRun

\* From here on a step that fails still leads to the steps that unlock the card.
Unlocks == GoTo("clear")

Lock ==
    /\ At("lock")
    /\ \/ GoTo(IF job.recovered THEN "revalidate" ELSE "revision") /\ Works
       \/ Unlocks /\ Fault
    /\ \/ card' = Touched([card EXCEPT !.states = @ \cup {"processing"}])
       \/ Fault /\ UNCHANGED card
    /\ UNCHANGED <<target, effects, settled, silent, broken>>
    /\ Others

Revalidate ==
    /\ At("revalidate")
    /\ \/ AdmissionAsRead({"processing"}) /\ GoTo("revision") /\ Works
       \/ ~AdmissionAsRead({"processing"}) /\ Unlocks /\ Works
       \/ Unlocks /\ Fault
    /\ Looks /\ Others

-----------------------------------------------------------------------------
(* The execution on the pull request: apply_decision.cmd_execute.  Reads     *)
(* with no write between them are one step; whatever one of them says, a    *)
(* later read of the same step says too.                                    *)

Moved == target.rev # Decision.rev

\* The execution ends with a terminal state, and the reply comes next.
Ends(t) == /\ job' = [job EXCEPT !.stage = "reply", !.terminal = t]
           /\ UNCHANGED ended

\* An exception: no terminal state, and no reply; the finishing steps still run.
Raises == GoTo("clear") /\ Fault

FirstStep == CASE Decision.what = "merge" -> "merge"
               [] Decision.what = "close" -> "shut"
               [] OTHER -> "note"

\* The live revision, and for a close or a comment the source policy.
Revision ==
    /\ At("revision")
    /\ \/ Moved /\ Ends("retryable") /\ Works
       \/ Ends("retryable") /\ Fault
       \/ /\ ~Moved /\ Works
          /\ IF Decision.what = "hold" THEN Ends("blocked") ELSE GoTo(FirstStep)
    /\ Looks /\ Others

\* _merge_pr_precondition: how a merge ends that the pull request, read again,
\* does not allow; "unset" if it does.
MergeHeld == IF ~target.open THEN "resolved"
             ELSE IF Moved   THEN "retryable" ELSE "unset"

\* _workflow_merge_gate: a commit of the pull request touches a workflow file.
TouchesWorkflow == target.rev \in WorkflowRevs

\* do_merge up to the merge call.
MergeGates ==
    /\ At("merge")
    /\ \/ MergeHeld # "unset" /\ Ends(MergeHeld) /\ Works
       \/ /\ MergeHeld = "unset" /\ Works
          /\ IF TouchesWorkflow THEN Ends("blocked") ELSE GoTo("put")
       \/ Raises
       \/ Fault /\ \E t \in {"error", "none", "blocked"} : Ends(t)
    /\ Looks /\ Others

Merged == [target EXCEPT !.open = FALSE, !.merged = target.rev]

\* A fault: the merge call names no revision.
MutMergesAnyHead == target.open

\* The merge call names the revision; GitHub merges no other.
MergeAccepted == target.open /\ ~Moved

\* The answer to a merge may be lost; a conflict leaves the card pending.
MergePut ==
    /\ At("put")
    /\ \/ /\ MergeAccepted
          /\ target' = Merged /\ ends' = [ends EXCEPT ![job.ev] = @ + 1]
          /\ \/ Ends("resolved") /\ Works
             \/ Ends("error") /\ Fault
       \/ /\ ~MergeAccepted /\ Ends(IF Moved THEN "retryable" ELSE "error") /\ Works
          /\ UNCHANGED <<target, ends>>
       \/ MergeAccepted /\ Ends("none") /\ Works /\ UNCHANGED <<target, ends>>
       \/ Ends("error") /\ Fault /\ UNCHANGED <<target, ends>>
    /\ UNCHANGED <<card, posts, settled, silent, broken>> /\ Others

\* The comment of /comment, or the note of a decline.  do_comment catches a
\* failure, do_close does not.
Note ==
    /\ At("note")
    /\ \/ /\ posts' = [posts EXCEPT ![job.ev] = @ + 1]
          /\ \/ /\ Decision.what = "comment" /\ Works /\ UNCHANGED ended
                /\ job' = [job EXCEPT !.stage = "reply", !.terminal = "none",
                                      !.posted = TRUE]
             \/ /\ Decision.what = "decline" /\ Works /\ UNCHANGED ended
                /\ job' = [job EXCEPT !.stage = "policyAgain", !.posted = TRUE]
             \/ Decision.what = "comment" /\ Ends("error") /\ Fault
             \/ Decision.what = "decline" /\ Raises
       \/ /\ UNCHANGED posts
          /\ \/ Decision.what = "comment" /\ Ends("error") /\ Fault
             \/ Decision.what = "decline" /\ Raises
    /\ UNCHANGED <<card, target, ends, settled, silent, broken>> /\ Others

\* The source policy once more, between the note and the close.
PolicyAgain ==
    /\ At("policyAgain")
    /\ \/ ~Moved /\ GoTo("shut") /\ Works
       \/ Moved /\ Ends("retryable") /\ Works
       \/ Ends("retryable") /\ Fault
    /\ Looks /\ Others

\* The close of the pull request; closing a closed one changes nothing.
Shut ==
    /\ At("shut")
    /\ \/ Ends("resolved") /\ Works
       \/ Ends("error") /\ Fault
    /\ \/ /\ target' = [target EXCEPT !.open = FALSE]
          /\ ends' = [ends EXCEPT ![job.ev] = @ + (IF target.open THEN 1 ELSE 0)]
       \/ Fault /\ UNCHANGED <<target, ends>>
    /\ UNCHANGED <<card, posts, settled, silent, broken>> /\ Others

-----------------------------------------------------------------------------
(* The steps that finish the card; each runs whatever the ones before did.  *)

Finishing(fails) == IF fails THEN Fault /\ broken' = TRUE
                             ELSE Works /\ UNCHANGED broken

\* What a finishing step does to the card; a failed call may have landed.
CardWrite(c) == \E fails, lands \in BOOLEAN :
                   /\ lands \/ fails
                   /\ Finishing(fails)
                   /\ card' = IF lands THEN Touched(c) ELSE card

\* A fault: an error leaves the card as it was.
MutErrorIsNotBlocked(t) == t = "blocked"

\* The terminal states that block the card.
Blocks(t) == t \in {"blocked", "error"}

AfterClear == CASE job.terminal = "resolved" -> GoTo("resolve")
                [] Blocks(job.terminal)      -> GoTo("block")
                [] OTHER                     -> EndRun

\* The result as a comment on the card.
Reply ==
    /\ At("reply") /\ GoTo("clear")
    /\ CardWrite([card EXCEPT !.comments = @ + 1])
    /\ settled' = IF card' # card THEN settled \cup (1..made) ELSE settled
    /\ UNCHANGED <<target, effects, silent>> /\ Others

\* The lock comes off before the card is resolved or blocked.
Clear ==
    /\ At("clear") /\ AfterClear
    /\ CardWrite([card EXCEPT !.states = @ \ {"processing"}])
    /\ silent' = IF job.ev \notin settled THEN silent \cup {job.ev} ELSE silent
    /\ UNCHANGED <<target, effects, settled>> /\ Others

Resolve ==
    /\ At("resolve") /\ GoTo("drop")
    /\ CardWrite([card EXCEPT !.states = @ \cup {"resolved"}])
    /\ UNCHANGED <<target, effects, settled, silent>> /\ Others

Block ==
    /\ At("block") /\ GoTo("drop")
    /\ CardWrite([card EXCEPT !.states = @ \cup {"blocked"}])
    /\ UNCHANGED <<target, effects, settled, silent>> /\ Others

Drop ==
    /\ At("drop")
    /\ IF job.terminal = "resolved" THEN GoTo("close") ELSE EndRun
    /\ CardWrite([card EXCEPT !.states = @ \ {"needs-decision"}])
    /\ UNCHANGED <<target, effects, settled, silent>> /\ Others

Close ==
    /\ At("close") /\ EndRun
    /\ CardWrite([card EXCEPT !.open = FALSE])
    /\ UNCHANGED <<target, effects, settled, silent>> /\ Others

\* The runner is gone; nothing of this run happens any more.
RunnerLost ==
    /\ job.stage \in HandlerStages
    /\ EndRun /\ Fault /\ broken' = TRUE
    /\ UNCHANGED <<card, target, effects, settled, silent>> /\ Others

-----------------------------------------------------------------------------
HandlerStep == \/ SourcePolicy \/ Admit \/ Claim \/ Verify \/ CurrentCard
               \/ Lock \/ Revalidate \/ Revision \/ MergeGates \/ MergePut
               \/ Note \/ PolicyAgain \/ Shut \/ Reply \/ Clear \/ Resolve
               \/ Block \/ Drop \/ Close

Next == \/ People \/ ScanLists \/ ScanReads \/ ScanPatches
        \/ \E e \in Events : Start(e) \/ Rerun(e)
        \/ HandlerStep \/ RunnerLost

\* A run that has started executes its steps one after the other.
Spec == Init /\ [][Next]_vars /\ WF_vars(HandlerStep)

-----------------------------------------------------------------------------
TypeOK ==
    /\ card \in Card /\ target \in Target /\ job \in Job
    /\ events \in [Events -> Event] /\ made \in 0..MaxEvents
    /\ queue \subseteq 1..made /\ ended \subseteq 1..made
    /\ planned \in Revs /\ listed \in BOOLEAN /\ putting \subseteq Labels
    /\ posts \in [Events -> Nat] /\ ends \in [Events -> Nat]
    /\ settled \subseteq 1..made /\ silent \subseteq 1..made
    /\ withdrawn \subseteq 1..made /\ overtaken \subseteq 1..made
    /\ broken \in BOOLEAN
    /\ acts \in 0..MaxActs /\ trouble \in 0..MaxTrouble

Acts(e) == posts[e] + ends[e]

\* A decision made before a reply appeared on the card never does anything to
\* the pull request after it: neither a waiting run, nor one started again, nor
\* a label that is recovered.  The workflow compares nothing but comment counts.
SettledNeverActs == [][\A e \in settled : Acts(e)' = Acts(e)]_vars

\* A decision posts on the pull request once.  It posts again only in a run that
\* was started again after one that lost its answer and unlocked the card: a
\* run whose runner was lost leaves the lock behind.
PostsOnce == \A e \in Events : posts[e] <= 1 \/ e \in silent

\* What the handler merges is the revision that the card showed to the owner who
\* decided to merge, whatever is pushed or rewritten between the two.
MergesTheDecidedRevision ==
    target.merged = -1 \/ \E e \in 1..made : /\ events[e].what = "merge"
                                              /\ events[e].rev = target.merged
                                              /\ ends[e] = 1

\* docs/OPTION_B_CARD_PROJECTION.md:78: a body or label edit before the last
\* check takes the place of an erased label, even of one already claimed.
OvertakenNeverRecovers ==
    [][\A e \in overtaken : job.ev = e /\ job.recovered => Acts(e)' = Acts(e)]_vars

\* The lock comes off the card again, in whatever way the execution ends, unless
\* the runner is lost or the call that takes it off fails.
LockComesOff ==
    "processing" \in card.states ~> "processing" \notin card.states \/ broken

\* When the run ends the card tells how: resolved and closed, blocked and out of
\* the queue (an error too: the decision must not vanish), or as it was.  It may
\* not only if the runner is lost or a call after the execution fails.
Tells(c, t) ==
    CASE t = "resolved"             -> c.states = {"resolved"} /\ ~c.open
      [] t \in {"blocked", "error"} -> c.states = {"blocked"}
      [] OTHER                      -> c.states = {"needs-decision"}

CardTellsTheOutcome ==
    [][job.stage \in PastChecks /\ job'.stage = "idle" /\ ~broken'
          => Tells(card', job.terminal)]_vars

\* docs/OPTION_B_CARD_PROJECTION.md:78: label events that were explicitly
\* removed remain inert.  The owner took the label off before the run started.
WithdrawnLabelIsInert == [][\A e \in withdrawn : Acts(e)' = Acts(e)]_vars

\* tests/test_decision.py:2965: a retryable result says that no target action
\* was taken.
RetryableTookNoAction ==
    At("reply") /\ job.terminal = "retryable" => ~job.posted

=============================================================================
