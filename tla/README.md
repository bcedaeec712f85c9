# Wheelhouse in TLA+

Wheelhouse turns a fleet of GitHub repositories into one queue of decision
cards. There is no server: the state lives in GitHub issues of one repository
(card bodies, labels, comments, three ledger issues) and in the pull requests
and issues of the fleet. Workflows read it, decide, and write it back with plain
API calls that have no transactions and no preconditions. This directory models
that protocol, checks it with TLC and proves part of it with TLAPS.

The source paths below are relative to `src/`.

## 1. Inventory

| Component | State it keeps | Operations | What makes it correct |
|---|---|---|---|
| Fleet scan (`scripts/wheelhouse_core.py` `build_repo`, `classify`, `check_status`) | none; `scan.json` for the run | read each repository, reduce checks, classify targets into the worklist | a failed or truncated repository is never read as empty; a red or unknown check is never green |
| Card lifecycle (`scripts/render_card.py`, `scripts/reconcile.py`, `scripts/scheduled_epoch.py`) | the card issues, absence records in their bodies, the epoch ledger | create, refresh, confirm absence, soft close, hard close, reuse, roll back | one pending card per target; soft close only after two adjacent observations; reuse only of a soft-closed card; the queue converges to the worklist |
| Projection writer (`scripts/projection_writer.py`) | none; writes title, body and labels in one PATCH | commit, verify, defer | owner edits are not overwritten; a half-written card is noticed |
| Scan-time auto-merge (`scripts/auto_merge.py`) | claim labels, audit record in the card body, ledger issue, hand-off files of the run | preclaim, claim, validate, act, record | every merge is audited, exactly once, whatever is interrupted; only a vetted head is merged; the owner stops it |
| Decision handler (`decision-handler.yml`, `scripts/apply_decision.py`, `scripts/decision_label_recovery.py`) | `processing` and claim labels, replies | parse, claim, execute, resolve, recover labels | a decision is executed once, on the revision it was made for |
| Automatic triage (`render_card.mark_triage_queued`, `reserve_triage_budget`, `triage.yml`, `scripts/triage_admission.py`) | queued state in the card, attempt count, the daily budget ledger | reserve, queue, dispatch, publish, defer | the daily ceiling holds; a held card is always published; a result is applied to its own revision only |
| Agent claims (`scripts/agent_claim.py`) | claim and result comments | claim, supersede, record | one admitted run per event |
| Triage replay (`scripts/triage_replay.py`) | once-per-revision markers | select a wave, mark, queue | no revision is replayed twice in a wave; the budget is respected |
| Pending-contributor cleanup (`_sweep_pending_pr`) | marker comments and a label on the target | remind, close, clear | never closes after an answer, never without a reminder |
| Fork CI approval (`ci_safety`, `approve_ci`) | none | analyse a head, approve its runs | the approved head is the analysed one |
| Maintainer-edits policy (`scripts/maintainer_edits_policy.py`) | phase in the audit card | notice, attach, close, record | the target is closed only after the notice and the audit card exist |
| Assisted merge (`scripts/merge_assist.py`) | record in the card, label on the target | bind, prepare, resolve, claim, push, observe, record | an uncertain push is never reported as not pushed; nothing merges without the second decision |
| Scan health (`update_scan_health`) | ledger issue | count, alert | a dark repository is reported |
| Ingest (`ingest.yml`) | none | build one item, upsert its card | as the card lifecycle |
| Deep review (`deep-review.yml`) | comment on the card | run a model, publish | one per card at a time |
| Agent runtime (`agent_runtime/`) | one run's directory | admit, supervise, hand off | a run ends, and its result is used at most once |
| AGOS bridge, presentation, migrations, natural-language search | none of their own | reports and one-off rewrites | layout; outside this project |

**How they interact.** `scan-backstop.yml`, `ingest.yml`, `decision-handler.yml`
and `triage.yml` share the concurrency group `wheelhouse-backstop`: runs of them
exclude each other. A scheduled scan runs its steps in this order: list the open
cards; scan; maintainer-edits notices; auto-merge preclaim, claim, validate and
act; auto-merge record (`always()`); reconcile (`always()`); policy close and
record; scan health. The steps talk through files (`cards.json`, `scan.json`, the
claim hand-offs, `automerge.json`). `deep-review.yml` and `merge-assist.yml` have
groups of their own.

**What is hard.** People act on GitHub between any two calls of a run: the owner
ticks a box, comments or closes a card, a contributor pushes, somebody merges by
hand. A run can lose its runner between two calls, while `always()` steps run
after a step that died. Any call may fail, and one that succeeded may lose its
answer. The issue list lags behind writes. A snapshot read at the start of the
run decides what is written at its end. A model call costs money whether or not its
result arrives. `PROJECT.json` lists the hazards one by one, each at its line, with
the property that covers it.

## 2. Modules

| File | What it is |
|---|---|
| `AutoMerge.tla` | the scan-time auto-merge transaction and what reconcile does to its cards |
| `MCAutoMerge.tla` | its symmetry set and the sizes of its ledger rows, for TLC |
| `AutoMergeProofs.tla` | type correctness and soundness of the ledger, proved |
| `AutoMergeAuditProofs.tla` | the audit invariant, the three safety properties that rest on it, the refinement of `AuditedMerge` step by step, and what the owner's stop means, proved |
| `AuditedMerge.tla` | the abstract specification of that transaction, which AutoMerge implements |
| `CardLifecycle.tla` | the cards of one target from creation to close and reuse |
| `CardLifecycleProofs.tla` | type correctness, the absence invariant, the soft-close property, one pending decision per target, and what may be reopened, proved |
| `DecisionHandler.tla` | an owner's decisions on one card, from the act to the closed card, with scans that rewrite the card in between |
| `DecisionHandlerProofs.tla` | type correctness and the handler's safety properties, proved |
| `TriageQueue.tla` | the automatic triage of one pull request: budget, queued write, dispatch, triage run, results, replay |
| `ForkChecks.tla` | the checks of a fork pull request, their classification by the scan, and the approval of its runs |
| `ContributorCleanup.tla` | reminders to, and closes of, pull requests whose contributor does not answer |
| `ScanHealth.tla` | the ledger of scans that could not read a repository |
| `EditsPolicy.tla` | the policy on maintainer edits: notice, audit card, close, record |
| `MergeAssist.tla` | the assisted merge: resolution, label, push, second decision |
| `ModelCall.tla` | one model call: checkpoint, supervisor, worker or action, normalized result |
| `TriageQueueProofs.tla` | that every model call has its unit of the budget and no head is reviewed more often than its books allow, proved |
| `ScanProofs.tla` | the safety of ForkChecks, ContributorCleanup, ScanHealth and EditsPolicy, proved |
| `AgentProofs.tla` | that every assisted merge was confirmed and that a result never denies a spend, proved |
| `MCFleet.tla` | the seven machines from TriageQueue to ModelCall, one at a time, for TLC |
| `FleetProofs.tla` | that the fleet is its machines side by side, so that what is proved of one holds of all, proved |

### AutoMerge

A card stands for the pull request it is about. `body[c]` keeps what the code
reads out of a card body: the head, whether an eligible verdict for that head is
there, the audit record (`none`, `intent`, `pending`), the manual-merge hold and
a ticked box. `labels`, `issueOpen` and `ownerComment` are the rest of the card;
`prState`, `prHead`, `mergedBy` and `gates` are the pull request. The gates G0-G6
that the code evaluates over checks, `VISION.md`, authors and labels are the one
Boolean `gates[c]`, which may flip at any time. `files` are the JSON files that
the steps hand to each other. `ledger` is the ledger issue, oldest row first; it holds
`LedgerCap` rows and `LedgerRoom` bytes of them (the rendered body is a fixed frame
and a text per row, so its length is a sum of `RowSize`; the readable line that only the
newest twenty rows have is counted for every row). Histories: `recorded` are
the identities that a successful edit of the ledger covered, `appended` are the rows
these edits brought.

The code compares `updatedAt`, comment counts and body digests for equality
only. `fresh[c]` says that the live card still equals the snapshot of it that the
run holds; an act of a person clears it, and a re-read that replaces the snapshot
(`stage_audit_intent`, the release refresh in `reconcile.py`) sets it again.

A run is a walk through `stage`, one API call per step, so that people and
failures come between any two calls. `buf` is a body that was read and will be
written back. The three kinds of failure are separate actions: `RunnerLost`
(nothing else runs), `StepDies` (a step dies, record and reconcile still run)
and `CallFails` with the failure disjuncts of the other actions (the code's
`except` paths). `WriterAcceptsReview` says whether `_edit_issue_body` takes the
body of a pull-request card. At this commit it does not. `TouchingHeads` are the
heads with a commit in their history that touches a workflow; gate G7 leaves such
a pull request to a person. `CarriedOver` are cards that an earlier release may have
left claimed and with an intent.

### AuditedMerge

What the transaction promises, without runs, claims, bodies and files: at most one
merge call is out, none goes out for a card that its owner stopped or that left the
queue, a merge is accounted for exactly once, and a merged card leaves the queue only
when accounted. `Audited` in `AutoMerge.tla` is the refinement mapping: the call is
out between the PUT and its answer (`CallOut`), an account (`AccountOf`) is open, merged
or in the history of the ledger, and a card is settled when it bears the label `resolved`. `AuditedSpec`,
a property of `automerge_one`, says that every behaviour of AutoMerge is one of
AuditedMerge, its fairness included; the part without fairness is also proved
(`ImplementsAuditedMerge`). That fairness is about closed cards only: a merge
whose answer was lost with its runner leaves an open, claimed card with its intent,
for which no later run accounts until a person closes the card. TLC refutes the
stronger fairness that asks for the row of an open card.

### CardLifecycle

`cards` are the issues that one target ever had. The absence record is kept as
its count, whether it carries a soft-close provenance, and its age in epochs: the
code compares a recorded epoch only with the current one and the one before, so
older ages are all `Old`. `how` remembers what ended a card. `indexing` holds the
cards that the issue list does not show yet.

A run is a scheduled scan, the re-run of one, a manual scan, or an ingest. `obs`
is what its scan says of the target: in the worklist, open outside it, not open,
or not readable. `AuditStaged` and `AuditEnds` are what the auto-merge steps of the run
mean for a card, between the scan and the reconciler: a claim label and an audit record
appear, and in this run, in a later one or never they go, or the card is resolved. The
reconciler leaves a card with such a record open, also when its target is closed
(`Absent`, `Gone`). At this commit no new record can be staged (see `automerge_now`);
those that exist come from an earlier release.

`absentNow` and `absentBefore` are a history of what was really
observed in the current epoch and in the one before it, independent of what
the cards say; `previous` is the outcome of the scheduled run before.

Out of this model: rendering, refresh for any reason other than an absence record
(these do not change the lifecycle), triage holds (TriageQueue has them), the policy
close (EditsPolicy), the steps of the auto-merge transaction (AutoMerge; here is only
that a record comes and goes), and the copy migration of confirming cards.

### DecisionHandler

One pull-request card of the projection writer and its pull request. `card.rev`
stands for the head, the observation and the context in the card's hidden state,
which is all that `owner_projection_race_recoverable` compares; ticked boxes are
the only other part of the body. An event in `events` is the trigger's snapshot of
the card. Its run waits in `queue`, in the concurrency group `wheelhouse-backstop`
with the scans, and runs may start in any order. `tail` of a label event is what
its timeline shows since: the event alone, one erasure by a projection, or
anything else (`_recoverable_label_events`).

`job` is the run under way, one call per stage: source policy, admission and claim
of an erased label, comparison with the trigger, lock, revalidation, revision
check, the action, and the finishing steps (`always()`), each of which may fail
and still have landed. Reads with no write between them are one step. A scan is
three steps: list the cards, reread one, PATCH it. The PATCH has no precondition,
clears the boxes and writes back the labels as they were reread.

Distinct acts have distinct timestamps, and comments are not deleted. What the
owner does to a closed card is left out: its run ends at the first look. A box
ticked and unticked again leaves the body that was there before, which the claim
takes for unedited; `overtaken` counts it so. Out of this model: the
natural-language path, the investigate dispatch, the dispatch of an assisted merge
and its confirmation label, request-changes, approve-ci, cards about issues, a
reason given to `/close` (a decline is a close with a note), the claim label of
auto-merge, and the thank-you comment.

### TriageQueue

One pull request, its card and the jobs that spend money on it. A target is what a
`ReviewObservation` records of it: head, base (with `VISION.md`), other facts, and
whether the context was read whole. `card` has what `render_card.py` keeps in the
hidden state: the observation, the hold, the status of the triage with its queued
revision and context, the attempts of the head, the bases a context refresh was used
for, the one backfill by policy, and what result is shown. `results` are the durable
result comments, `claims` the claim comments of `agent_claim.py`, `ledger` the budget
issue with its UTC day.

A scan is `recover`, `refresh`, `gate`, `reserve`, `commit`, `dispatch`, with `defer`
and `clear` on the failure paths; a triage run is `admit`, claim, call of the model,
correction, publication; a replay is a job of the owner's which takes the same path
with one of the plans of `triage_replay.py`. `Outcomes` are the fates of a call: it is
done, it fails, or it lands and its answer is lost. The owner may start an ended run
again, days pass, the target moves, and people touch the card between any two calls.
The harness is `claude`, the default; the paths of `triage.yml` for the other harness
are left out. `units` and `calls` are histories.

Out of this model: the wording of a result and its parsing, the visible layout, the
sensitive-path and author rules that decide whether a pull request may be triaged at
all (a card is one that may), waves over several cards (a wave is one replay after the
other), and deep review.

### ForkChecks

`fork` is the pull request and its base, `ciRuns` are workflow runs of the compliance
check and of the tests, each with its number, head, outcome and the check context that
follows later. `look` is a job: the scan's first read (pull request, contexts, runs,
waiting runs, route), the approval (`approve_ci`: fetch the head, vet its files, list
the matching runs, check the source policy, approve one by one) and the second, exact
read of `reconcile._final_ci_wait_projection`. `Compliance`, `TestState` and `Classify`, with
their helpers, are `check_status` and `classify`. Compliance is read in one of three modes, as
in the code: from events of the current body, legacy, from contexts alone, or not at all,
where no compliance check is configured. `risky` are the heads that change
files which CI executes; `cut` says that the last context is on a page that was not
read; `kept` are the contexts as the query returned them.

A push brings a new head or, forced, one that was there before; the runs and contexts
of every head stay. `approve_ci` reads the files of the pull request, not of the head it
fetched (`scripts/wheelhouse_core.py:5520`), and compares heads before and after
(`scripts/wheelhouse_core.py:6703`): a head that goes and comes back between the two
comparisons carries the verdict on another. `look.back` is the history of that.

Left out: drafts, branches of the repository itself, and the wording of a hold.

### ContributorCleanup

What is said on the pull request is one sequence, `said`; a position in it is a time.
`asking` is the decision `/request-changes` (review, marker comment, label), `sweep` the
cleanup of one scan: target, comments, timeline, decision, a check of the source policy
before each write, and the writes of `todo`. People answer, push, dismiss reviews, keep
the pull request open by a label, reopen it, or take the edit permission back at any time, and any write may fail or land without
its answer. `endings` records what the sweep knew when it closed.

### ScanHealth

The whole component. `nightly` is the scan's run: which repositories it read, could not
read or did not look at, then the three calls of the bookkeeping (find the ledger,
create or write it, close it). Every call may fail before or after its effect. A scan
that breaks leaves nothing to record. `recorded` is the history of what the scans saw
whose counts reached the ledger.

### EditsPolicy

`pass` is a scan or an ingest that carries its audit from process to process: proof,
notice, card, and then (for a scan) the close command with its proofs, and the record
on the card. `audit` is the pull request's card and the policy written on it; `notices`
are the comments with the hidden marker, which names a head. The contributor pushes, allows
or forbids edits, closes and reopens; notices are deleted; the owner comments on the card
or closes it.

### MergeAssist

`commits` are the heads the branch ever had or was about to get, in the order of their
creation. `turn` is the captain's merge or the scan's (both exclude each other), `work` the assist
run, one call per stage, which has a concurrency group of its own. `decided` is the history of the heads the captain asked to merge. `slip` is the card
with its record, `late` a push whose client gave up and which may still land, `lifted`
the history of the confirmation label taken off by a person. The base may move
(`BaseMoves`), so that a head that conflicted merges cleanly. Left out: what the model
does to the conflict (the resolution is good or the run escalates) and the layout of
the record.

### ModelCall

Both lanes of `claude-model.yml`: direct (a supervisor process and a sandboxed worker)
and action (a GitHub action whose transcript is captured). `mjob` is the first job's
step, `attemptFile` the checkpoint that says that money may have been spent, on disk
and as an artifact; `verdict` is what the second job makes of what reached it. `worker`
keeps its own memory and what its files say apart. A step, a process, an upload or
the job as a whole may be lost at every point. The supervisor may itself fail while its
worker runs (`SupervisorRaises`: the cancel request or an event cannot be written, the
kill is not permitted) and when it collects what the worker left; `sealed` says that it
had not taken the worker's files back by then, so that `_write_rejected` cannot read the
checkpoint in them.

### MCFleet

The seven machines above keep their state in different issues, comments, labels and
files, and their models read nothing of each other. A behaviour of all of them is one
of each, so TLC checks their disjoint union: `part` says whose behaviours it follows,
and the others stay at an initial state. Their state spaces add up instead of
multiplying. `FleetFairness` is the part of `TriageFairness` that the results need.

## 3. Runs

| Run | Checks | Bounds |
|---|---|---|
| `automerge_one` | `TypeOK`, `AuditInvariant`, `AuditNeverLost`, `MergedHeadWasVetted`, `OwnerStopsTheMerge`, `LedgerSound`, `PendingAuditFinishes`, `StaleClaimIsReleased`, `EligibleIsMerged`, `ManualHoldEndsReclaims`, `AuditedSpec` | 1 card, with an intent of an earlier release or without, 2 heads of which the second touches a workflow, 3 acts of people, 2 faults; 238,000 states |
| `automerge_batch` | `ResolvedOnlyAfterLedger`, `LedgerSound` | 3 cards, two of them symmetric; room for 2 rows, or for the third card's alone; 1 act, 1 fault |
| `automerge_now` (violation) | `EligibleIsMerged` with the writer of this commit | 1 card, no act, no fault |
| `lifecycle` | `TypeOK`, `AbsenceInvariant`, `AtMostOnePending`, `SoftCloseIsTwiceObserved`, `ReopensOnlySoftClosed`, `GoneIsClosed`, `AbsentIsConsumed`, `WantedIsQueuedUndisturbed` | 3 cards, 3 acts, 1 reopening by hand, 1 bad scan, 1 fault; 1,049,000 states |
| `lifecycle_wedge` (violation) | `WantedIsQueued` | 4 cards, 2 acts, 1 fault |
| `lifecycle_epochs` (violation) | `FailedScanBreaksAdjacency` | 1 card, 1 act, 1 bad scan |
| `decision` | `TypeOK`, `PostsOnce`, `MergesTheDecidedRevision`, `SettledNeverActs`, `OvertakenNeverRecovers`, `CardTellsTheOutcome`, `LockComesOff` | merge by box, decline or hold by label, comment by command; 2 decisions, 3 acts, 2 troubles; revision 1 touches a workflow |
| `decision_withdrawn` (violation) | `WithdrawnLabelIsInert` | as `decision`, 1 trouble (the scan) |
| `decision_hold` (violation) | `RetryableTookNoAction` | as `decision`, 1 trouble (the push) |
| `fleet` | `FleetTypeOK`; TriageQueue: `EveryCallIsPaid`, `HeadSpendIsBounded`, `PaidResultIsShown`; ForkChecks: `ApprovedRunsWereVetted`, `MergeReadyIsProven`; ContributorCleanup: `ClosedOnlyInSilence`; ScanHealth: `DarkIsShouted`; EditsPolicy: `PolicyClosesAreAudited`; MergeAssist: `AssistedMergeIsConfirmed`; ModelCall: `SpendIsNeverDenied` | see below |
| `triage_stranded` (violation) | `HeldIsPublished` | attempt cap 1, allowance 1, ceiling 2, 1 move of the target, nothing else |
| `call_denied` (violation) | `CrashKeepsSpend` | ModelCall with 1 failure |

Why these bounds are enough to be interesting. One card and two heads are what a
claim, an intent, a push, and a second claim on the new head need; the actions of
different cards of AutoMerge meet only in the ledger and in the hand-off files,
which is why the batch run has three cards and a ledger that two small rows fill in
number and in bytes, and a small and a large one exceed in bytes alone. Three acts and
two faults allow, for example, a lost runner after the merge, a close of the card by the
owner, and a lost runner in the recovery. In CardLifecycle three
cards allow a closed card with a history, one that people reopened, and a new one
next to each other; three acts let the target leave the worklist, come back and
leave again; and age 2 is as old as a record can get. The number of scheduled
runs is not bounded anywhere. Bounded in these two are only: heads, acts of people,
reopenings, bad scans, faults, the cards of a target, and what the ledger holds.

`fleet` has one set of bounds for each machine. TriageQueue (218,000 of the states):
attempt cap 2, one context refresh, a ceiling of 2 units a day, one move of the target,
one midnight, one act on the card, two faults, one run started again, one replay, and
at most two of these things (replays apart) in a behaviour; so two days, a ceiling that
is reached, two dispatches for one head, and a dispatch that fails with its repair,
all occur. ForkChecks (422,000): two heads, three workflow runs, one unasked event;
contributor, runs and their contexts move in between, bounded by those, and the first
head may come back at no cost. With compliance from events some head is risky, in the
other two modes none is: vetting does not read the mode, nor compliance the files.
ContributorCleanup (51,000): reminder after one day, close after two, two days, two uses
of `/request-changes`, one act
of people and two lost calls; seven entries are as many as that can lead to.
ScanHealth: two repositories, threshold 2, three scans, one failing call.
EditsPolicy (11,000): two heads, two passes, two acts, one lost call. MergeAssist
(98,000): three heads (the contributor's, the resolution and one more), three decisions or
automatic merges, one act of people, two failures. ModelCall (2,000): three failures; one
more adds no outcome. Deadlock is not checked in `fleet`: the bounds on people, days and
scans run out.

In DecisionHandler two decisions and one more act let a decision wait behind
another, be answered or overtaken, or be withdrawn; `MaxTrouble` bounds pushes,
scans that rewrite the card, runs started again, lost runners and failed calls all
told, so two of them are, for example, a lost answer and a run started again, an
erasing scan and a failed claim, or a scan and a push. Each way to decide has the
decisions that differ from there on: merge (revision pinned), decline (note, then
close), hold (blocks) and comment (posts, card stays).

`automerge_one` assumes a writer that takes pull-request bodies, since nothing
else in the transaction could be checked with the writer of this commit;
`automerge_now` checks the commit as it stands. The proofs of the safety properties
hold of both writers.

Deadlock is checked in AutoMerge and in CardLifecycle, whose runs go on for ever (a create
fails once all `MaxCards` are used up). In DecisionHandler it is not: with
every event handled and the bounds on people and scans used up, nothing is left to
do.

`PostsOnce` makes one exception: a run that was started again after one whose reply
failed (or that ended without one) posts again, because nothing on the card tells
of the first. A run that lost its runner leaves `processing` behind, and that stops
every later one. `LockComesOff` and `CardTellsTheOutcome` except exactly the runs in
which the runner was lost or a finishing call failed.

`AtMostOnePending` is about behaviours in which no person reopened a card, since
nothing in the code keeps a person from reopening a second one; the other
properties hold with reopened cards too. It rests on the assumption that the issue
list has caught up by the time another run starts. `WantedIsQueuedUndisturbed`
says that a target which stays in the worklist ends up in the queue if no call of
a run fails, no card is reopened by hand and the card bound leaves room for a
new card. `WantedIsQueued` says it without the first condition and is false, see
below.

### Disagreements found

Seven runs end in a violation, on purpose; each checks one sentence of the
repository's documentation, comments or tests against what the code does.

* `automerge_now`: nothing is ever merged automatically at this commit.
  `_edit_issue_body` raises for the body of a pull-request card, and every write
  of the audit transaction goes through it. The tests replace the function.
* `lifecycle_wedge`: a runner lost between reopening and activating a reused card
  leaves an open card that is neither pending nor replaced.
* `lifecycle_epochs`: a scheduled run whose scan step fails does not break the
  adjacency of the observations around it.
* `decision_withdrawn`: a decision label that the owner removes between the
  projection writer's reread and its PATCH comes back and is executed.
* `decision_hold`: a decline posts its note, finds on its second look that the head
  moved, and says that no target action was taken.
* `triage_stranded`: a card that was created held can stay hidden for ever. A scan
  observes the pull request, the target moves (its base is enough), and the scan creates
  the card held, queues it for the old observation and dispatches triage. The triage run
  finds the context changed and is not admitted; with the `claude` harness the job
  `card-recovery` is skipped (`.github/workflows/triage.yml:1619`) and
  `triage-claude-consume` needs an admitted event. Later scans refresh the card to the
  new observation, see it queued for its head, and neither publish nor queue it; a
  replay refuses a card that a queued attempt owns. The comments at
  `scripts/render_card.py:9329`, `scripts/render_card.py:10799` and
  `scripts/reconcile.py:361` promise that a held card is published whatever happens to
  its attempt.
* `call_denied`: a result of the direct lane can deny a spend that happened. The worker
  prompts and ends; `_restore_direct_output_access` fails; `_write_rejected` cannot read
  `worker-state.json`, which belongs to root, swallows that and writes a rejected result
  with `spendStarted: false`, which the normalization takes in preference to the
  uploaded checkpoint. A failure of the poll loop (`agent_runtime/supervisor.py:548-561`)
  leads there as well, since the files are taken back only after it.
  `docs/AGENT_RUNTIME.md:71` says that a harness crash cannot downgrade a possibly spent
  attempt.

### Notes on the code

What the modelling showed besides, and no run reports as a disagreement:

* Two durable results of one head that no card shows yet make
  `assessment_record.find` raise, so neither is recovered; `PaidResultIsShown` excepts
  that. One durable result may be projected onto a later queued attempt of the
  same head.
* In legacy mode a truncated page of check contexts can still classify as merge-ready;
  the observation then says that it is incomplete, and `MergeReadyIsProven` is about
  observations that claim to be current. A ci-approval card is not refreshed on the
  path of `plan_ci_wait_projection`, only a pr-review card is.
* In the cleanup the label that a reminder would add is already there. A reminder that was late
  may be followed by the close at the very next scan. A maintainer who reopens and
  leaves the label sees the pull request closed again, without a second comment.
* The record of an assisted merge may say `not-pushed` of a push that lands after the
  observation; the confirmation label still holds it (`AssistedMergeIsConfirmed`).
* A second assist run about a resolution that waits for its confirmation, whose claim
  cannot be written, takes off the label that the *first* run set
  (`scripts/merge_assist.py:1425`), and its escalated record replaces the waiting one.
  When the base then moves so that the resolution merges cleanly, the scan may merge it
  by itself. The captain did ask to merge that very head, which started the second
  run, so the merge was decided; the proof rests on that.
* `SpendIsNeverDenied` says which results may deny a spend that happened: a rejection
  by a supervisor that failed before it had taken its worker's files back
  (`call_denied`), and that of an action which changed its inputs and left no transcript,
  whose enforcement proof is then not valid.
* `ApprovedRunsWereVetted` excepts the head that the pull request left and had again
  during its vetting; TLC finds such an approval when the exception is taken out.
* `GoneIsClosed` excepts a card with an auto-merge record: whether its record is ever
  finished is `PendingAuditFinishes` of AutoMerge.
* Clocks are taken to agree; `reserve_triage_budget` trusts the runner's UTC day.

### Fairness

AutoMerge, CardLifecycle and DecisionHandler state weak fairness of the run's own steps
(`WF_vars(RunStep)`, in DecisionHandler `WF_vars(HandlerStep)`): the workflow is
scheduled every hour, in a queueing concurrency group, and its steps execute one
after the other. TriageQueue states it of the step of the job that has the group and,
as jobs compete for the group, strong fairness of a scan's start and of a triage
run's (`TriageFairness`); `FleetFairness` needs the scan only. DecisionHandler assumes nothing about when a waiting run starts. Failures are no
part of it and are bounded in number, so liveness says: once failures stop, this
happens. People are never fair. CardLifecycle also assumes that the issue list
catches up (`WF_vars(IndexCatchesUp)`). Where a property depends on people leaving
a card alone or a target staying as it is, it says so itself (`<>[]`).

## 4. Proofs

`AutoMergeProofs.tla`, for any finite set of cards and any bounds:

* `TypeCorrect == Spec => []TypeOK`. `TypeOK` alone is not inductive: the actions
  on one card update `labels[cur]`, so the proof needs `CursorInv`, that a
  stage which works on a card has one. Each of the four step groups and each
  group of other actors is one lemma.
* `LedgerIsSound == Spec => []LedgerSound`. Only `AppendLedger` matters. The ledger is the
  end of `appended` from some point on (`From`), and whatever is missing of that history
  was dropped by a step whose rows did not fit. The lemma `AppendedLedger` shows for any
  batch, any order of it and any sizes of rows that an append keeps this: what it drops
  exceeds one of the two caps together with rows written after it, distinct rows stay
  distinct, and every recorded identity is among the rows ever written.

`CardLifecycleProofs.tla`, for any number of cards, acts, bad scans and faults:

* `CardTypeCorrect == Spec => []TypeOK`.
* `AbsenceRecordsAreTrue == Spec => []AbsenceInvariant`. The invariant says that a
  record on a card is about absences that were observed in the epochs the record
  names (`RecordIsTrue`), and that the stages which write or close have the
  observation they need (`AbsenceInHand`). It is needed because
  `SoftCloseIsTwiceObserved` is about history, of which the closing step sees only
  the record.
* `SoftCloseTwiceObserved == Spec => SoftCloseIsTwiceObserved`, from that invariant.
* `OnePendingDecision == Spec => []AtMostOnePending`. What the property says of pending
  cards is not inductive: a second card could be open and not pending, and be made
  pending later. `OneOpen` is about open cards, and says what a run may rely on between
  its lookup and the call that creates or reopens: there is none. The lookup finds every
  open card only because the list is not behind at that point of the run, which is
  `ListSettled`: what a run indexes late is what that run opened.
* `OnlySoftClosedReopened == Spec => ReopensOnlySoftClosed`. The code tells a soft-closed
  card by its marks, the property by its history (`how`). `EndsAreTrue` ties the two: a
  card that a decision, a rollback or the end of its target closed has no absence record,
  which `AbsenceInvariant` and `CardInHand` keep so through the stages that write one and
  then close. `ReuseInHand` carries it from the lookup to the reopening.

`AutoMergeAuditProofs.tla` proves `AuditHolds == Spec => []AuditInvariant`.
`AuditInvariant` contains the type invariant and the cursor, is inductive given
`LedgerSound`, and is also what TLC checks in `automerge_one`. Its point is `MergedInv(c)`:
a pull request that Wheelhouse merged has its intent still on the card, or a completed
record on a claimed card, or an entry in the history of the ledger. The other parts are
what makes that inductive, and each is a hand-over between two steps of a run:

* `StartInv`: before the step that produces it, a hand-off file is empty, so that
  nothing an earlier run left is believed;
* `ClaimInv`: a card that is being claimed owes the ledger nothing, so that no intent of
  a merge is overwritten by a new one; what is validated was claimed;
* `DoneInv`: a completed record, a staged card and a row of the ledger are only ever about
  a merged pull request;
* `CandidateInv`: from the write of the intent to the PUT the card bears the claim, its
  body has the intent for the head that was seen, and it is not resolved;
* `ResultsInv` and `RecordInv`: what the act step reports (merged, held, to release) and
  what record makes of it (staged, resolved, cleared) fits the pull request it is about.

`AuditIsNeverLost`, `MergedHeadIsVetted` and `ResolvedAfterLedger` follow, each from the
invariant and the one or two actions that could break it.

In the same module, `ImplementsAuditedMerge` shows that every initial state maps to
an initial state of AuditedMerge and every step to a step of it or a stutter. The same
invariant supplies what the abstract guards ask for (one call out at a time, a card
leaves the queue accounted). `OwnerStopsMerges` is then not argued over the steps of
AutoMerge at all: in AuditedMerge only a call that goes out can merge, and it does not
go out for a stopped card.

`TriageQueueProofs.tla`, for any caps, ceiling, calendar, moves of the target and faults.
The property about money relates two histories, of calls and of units, which no one step
sees together; the proof accounts for every unit from the reservation to the call:

* `TypeInv` (`TriageTypeCorrect`): the types, what a job knows at each of its stages
  (`JobOK`), and that a re-entry gives back an attempt the card has (`PlanOK`).
* `SeenInv`: card, claims and jobs follow the target and never overtake it (`OrderInv`); a
  job that is to reserve or queue has found its event unclaimed and its card in order
  (`StagesInv`); and a replayed card has no claim of the attempt it repeats but one made
  since (`ReplayedInv`). The last one is why a replay that gives an attempt back does not
  call twice for it.
* `BudgetInv`, `PaidInv` (`EveryCallHasItsUnit`): the ledger of the day is not behind what
  the day granted, also when the reservation landed and its answer was lost; and the calls
  made, the one a job is about to make, the one it is about to queue and the one the
  queued card still promises are, together, no more than the units taken.
* `HeadInv` (`HeadIsNotOverspent`): calls on the head at hand, the one about to be made and
  the one a queued card may bring are covered by its attempts, its context refreshes
  and its claimed backfill; a head to come has no calls.

`EveryCallIsPaid` compares `Cardinality(Each(calls))` with `Cardinality(Each(units))`: one
element per call and per unit. The sum of a function's values is defined by
recursion over a set, about which nothing can be proved here, and the size of a finite
set is the same number.

`ScanProofs.tla` has four machines.

* ForkChecks: `ApprovedRunsAreVetted` from `VetInv`: a run number is of one run for ever; a
  risky head that the job has in hand behind the vetting is not the pull request's any
  more, or it has come back; and what the job is about to approve are runs of that very
  head, whatever is pushed meanwhile. `MergeReadyProven` from `ReadyInv` and the lemma
  `MergeReadyOfReads`: complete reads which the code calls merge-ready prove it, a
  failure that is excused included.
* ContributorCleanup: `CleanupClosesInSilence` from `SaidInv` (asks are numbered in the
  order in which they were posted, and markers follow them), `AskingInv` (who asks keeps
  the sweep away), `SweepInv` (what a sweep decided to write rests on what it read; since
  then only people spoke) and `EndInv` (no ask has two explanations). The newest ask
  is a greatest element, which `GreatestOf` provides by well-founded strict inclusion
  of finite sets.
* ScanHealth: `HealthDarkIsShouted` from `HealthInv`, whose point is that the stored count
  of a repository is the size of its streak of dark scans, for every repository and
  after every write, lost or not.
* EditsPolicy: `ClosesAreAudited` from `PolicyInv`: two notices that
  stand are never about one revision, because a new one is posted only where none is
  found (`NoticedOnce`); a notice that a card names was on an open card (`CardsAreNamed`);
  and from the hand-off to the close the run carries a policy that such a card named, whose
  revision the last proof saw again (`ClosesAreNamed`).

`AgentProofs.tla`: `AssistedMergeConfirmed`, a property of what the scan and the
captain merge, follows from `AssistInv`: heads never return; two assist runs are never
about one head, because the claim is; the label is set before the push, so a pushed
resolution bears it until a person lifts it, its confirmation is decided, or a later
run's rollback takes it off; and that rollback is about a head that the captain asked to
merge. `SpendNeverDenied` follows from `CallInv`, five parts: the worker's
memory is in step with its supervisor (`WorkerInItsStep`), a call that may have cost
money has its checkpoint on disk (`SpendIsSaved`), a result that was written knows of it
(`ResultKnows`) unless it is the rejection by a supervisor that failed before it had the
worker's files, a prompt goes out on a written checkpoint, which the capture's proof
covers (`ProofIsFull`), and the verdict is made last, from what arrived (`VerdictIsLast`).

`FleetProofs.tla`: `FleetIsItsMachines` shows that `FleetSpec` implies the specification of
each of its machines, of the triage queue all but the fairness. So the theorems above
hold of the fleet that TLC runs; `FleetTypesCorrect` draws that conclusion for the types.

`DecisionHandlerProofs.tla`, for any decisions, acts, pushes, scans, reruns and failures.
Every step is of the handler, a decision, or of somebody else (`Kinds`); the
handler's are described once by what they do to run, card and effects (`JobStep`,
`CardStep`, `EffectStep`). Four inductive invariants share these lemmas:

* `TypeInv` (`HandlerTypeCorrect`): the types; the pull request's revisions are counted;
  runs and recovery claims are of decisions that were made.
* `SafeInv` (`DecisionPostsOnce`, `MergedAsDecided`, `SettledIsOver`). An event counted
  the comments that were there. A reply and a claim each add one, so the card has
  at least as many as the event, its reply and its claim (`CommentInv`), and a run that
  finds the event's count has neither behind it; a recovery, allowed its claim,
  has no reply (`RunInv`). A post without a reply has the lock of its run on the
  card, which a second run does not pass (`PostInv`). `EndInv`: the pull request ends
  once, and the merge is accepted only for the head that the decided event names.
* `StateInv` (`CardTells`): the outcome labels the card has at each stage from the lock to
  the close, as long as no call after the execution failed.
* `OvertakenInv` (`OvertakenIsOver`): an event that was overtaken never shows a label as
  its last row; where its row is an erasure, the card was written since, and a run that
  was admitted for it finds a ticked box.

The assumptions are `ConstantsAssumption`, `CountsAssumption`, `AssistAssumption`,
`ModelCallAssumption`, `PolicyAssumption`, `DecisionsAssumption`, `TriageAssumption`,
`ForkAssumption`, `CleanupAssumption` and `HealthAssumption`: the bounds are natural
numbers, the sets are what their names say, and the caps of triage are in the ranges that
the configuration is clamped to. TLC evaluates them in every run whose module extends theirs.

With these, every invariant that a passing run checks is proved, and every action property.
The inductive invariants were checked by TLC on the small instances first. Three definitions
were restated on the way. `Classify` and `MergeHeld` were CASE expressions whose guards
overlap; the code tests one condition after the other, TLC does too, but TLA+ leaves the choice
among true guards open, so they are chains of IF now. `DarkFor` counts a streak as a set of
scans (`DarkStreak`) instead of filtering a sequence.

Left to TLC, because the prover cannot do it: everything under fairness (`AuditedSpec` with
its fairness, `PendingAuditFinishes`, `StaleClaimIsReleased`, `EligibleIsMerged`,
`ManualHoldEndsReclaims`, `GoneIsClosed`, `AbsentIsConsumed`, `WantedIsQueuedUndisturbed`,
`LockComesOff`, `PaidResultIsShown`) and ENABLED. What recursion over data computes is
out of its reach as well; no property depends on that any more.

## 5. Plan

In the order in which they would add most:

* proofs: abstract specifications of the triage budget and of the decision handler, as
  AuditedMerge is one of the auto-merge transaction, and that the two modules implement them;
* the natural-language path of the decision handler: a model's reading of a
  comment, its receipt, the execution of what it read;
* the repair of cards by the projection writer (`verify`, `defer`) as a component of its
  own; DecisionHandler has its write and TriageQueue its refresh;
* waves of replays over several cards that compete for one day's budget;
* the brokers of the agent runtime, as far as they keep state.

## 6. Not modelled

* **Agent runtime brokers, adapters, redaction, sandbox and tools**, `task_builder.py`:
  parsing, hashing and process plumbing around the one call that ModelCall
  has; what they return is a nondeterministic outcome there.
* **Natural-language decisions** (`nl_readonly_search.py`, the investigate lane): a
  read-only search and a prompt; its decision enters DecisionHandler as any other.
* **AGOS state and project bridge**: reports derived from the cards; nothing reads them
  back into a decision.
* **Presentation and migration of cards**: the layout of a body and one-off rewrites of
  older layouts; the state of a card survives them by construction of the hidden block.
* **Deep review**: one comment per run in a concurrency group of its own; it changes no
  card state that another component reads.
* In the modelled components: what each subsection of section 2 lists as left out.

