----------------------------- MODULE ForkChecks ------------------------------
(***************************************************************************)
(* The checks of one pull request from a fork: how the fleet scan           *)
(* (wheelhouse_core.build_repo) turns check contexts and workflow runs into *)
(* a bucket, approves runs that wait for a maintainer (approve_ci), and     *)
(* reads the pull request once more before an existing card is changed      *)
(* (reconcile._final_ci_wait_projection).  The owner's /approve takes the   *)
(* same path without an expected head and without strictness.               *)
(*                                                                         *)
(* One job at a time has the concurrency group; the contributor, GitHub     *)
(* Actions and the base branch move between any two of its calls, also to a *)
(* head that was there before.  Drafts and same-repository branches are     *)
(* left out.                                                                *)
(***************************************************************************)
EXTENDS Integers, FiniteSets

CONSTANTS
    MaxHeads,    \* bound: the heads, and with them the head's contents
    MaxRuns,     \* bound: workflow runs of all heads
    MaxEvents    \* bound: what contributor, maintainers and GitHub do unasked

ASSUME ForkAssumption ==
    /\ {MaxHeads, MaxEvents} \subseteq Nat
    /\ MaxRuns \in Nat \ {0, 1}

VARIABLES
    fork,       \* the pull request and its base
    ciRuns,     \* workflow runs of all heads
    look,       \* the job
    shown,      \* the card: what it says of the checks
    approvals,  \* history: approved runs, how their heads came to be approved
    unasked     \* what is left of MaxEvents

forkVars == <<fork, ciRuns, look, shown, approvals, unasked>>

Heads == 0..MaxHeads

\* How compliance is read: from current-body events, from contexts, or not.
Modes == {"event", "legacy", "none"}

\* A run waits for approval (action_required), runs or has concluded; its check
\* context follows later.  Numbers order the runs of a workflow.
CiRun == [n: 1..MaxRuns, wf: {"compliance", "tests"}, head: Heads,
          out: {"waiting", "running", "pass", "fail", "cancelled"},
          ctx: {"absent", "pending", "pass", "fail", "cancelled"}]

\* A check context of a head, as the query shows it.
Context == [n: 1..MaxRuns, wf: {"compliance", "tests"},
            ctx: {"pending", "pass", "fail", "cancelled"}]

Buckets == {"maintainer-edits-required", "needs-ci-approval", "needs-reraise",
            "ci-running", "merge-ready", "fix-tests", "review-needed",
            "ci-state-unknown"}

\* risky: heads that change files CI executes; stray: those of which an untracked
\* check failed.
Fork == [head: Heads, risky: SUBSET Heads, editable: BOOLEAN, baseSafe: BOOLEAN,
         stray: SUBSET Heads, mode: Modes]

\* kept: the contexts as read; cut: the last is on a page not read.  For the
\* properties alone: proven is what those reads prove of the head, and back that
\* the pull request has left the head since it was fetched and has it again.
Look == [at: {"idle", "read", "runs", "waits", "route", "fetch", "vet", "list",
              "source", "approve"},
         head: Heads, exact: BOOLEAN, strict: BOOLEAN, kept: SUBSET Context,
         cut: BOOLEAN, stray: BOOLEAN, bucket: Buckets,
         fresh: BOOLEAN, proven: BOOLEAN, todo: SUBSET (1..MaxRuns),
         failed: BOOLEAN, back: BOOLEAN]
Away == [at |-> "idle", head |-> 0, exact |-> FALSE, strict |-> TRUE,
         kept |-> {}, cut |-> FALSE, stray |-> FALSE,
         bucket |-> "ci-state-unknown", fresh |-> FALSE, proven |-> FALSE,
         todo |-> {}, failed |-> FALSE, back |-> FALSE]

\* Of a card's bucket, whether it claims merge-ready as a current observation.
Shown == [kind: {"none", "pr-review", "ci-approval"}, ready: BOOLEAN,
          proven: BOOLEAN]

NewRun(n, wf, head) ==
    [n |-> n, wf |-> wf, head |-> head, out |-> "waiting", ctx |-> "absent"]

ForkInit ==
    /\ \E risky \in SUBSET Heads, mode \in Modes :
          fork = [head |-> 0, risky |-> risky, editable |-> TRUE,
                  baseSafe |-> TRUE, stray |-> {}, mode |-> mode]
    /\ ciRuns = {NewRun(1, "compliance", 0), NewRun(2, "tests", 0)}
    /\ look = Away
    /\ shown = [kind |-> "none", ready |-> FALSE, proven |-> FALSE]
    /\ approvals = {}
    /\ unasked = MaxEvents

-----------------------------------------------------------------------------
(* Contexts and runs become a bucket *)

\* _reduce_check_outcomes, for the contexts of one name
Reduce(outs) ==
    IF "fail" \in outs THEN "fail"
    ELSE IF "pending" \in outs \/ outs = {} THEN "pending"
    ELSE IF "pass" \in outs THEN "pass"
    ELSE "fail"

Contexts(snap, wf) == {c \in snap : c.wf = wf}
CheckOutcomes(snap, wf) == {c.ctx : c \in Contexts(snap, wf)}

Latest(listed) == CHOOSE r \in listed : \A s \in listed : s.n <= r.n

\* _compliance_run_outcome
RunOutcome(r) ==
    CASE r.out = "running" -> "pending"
      [] r.out = "pass"    -> "pass"
      [] OTHER             -> "fail"

\* _context_outcome_matches_run
ContextMatches(ctx, r) ==
    CASE r.out = "running" -> ctx = "pending"
      [] r.out = "waiting" -> ctx = "fail"
      [] OTHER             -> ctx = r.out

\* _build_compliance_evidence: every context belongs to a listed run and says
\* what that run says, and the latest run has its context if it concluded.
EvidenceComplete(snap, listed) ==
    /\ listed # {}
    /\ \A c \in Contexts(snap, "compliance") :
          \E r \in listed : r.n = c.n /\ ContextMatches(c.ctx, r)
    /\ Latest(listed).out \in {"pass", "fail"} =>
          \E c \in Contexts(snap, "compliance") : c.n = Latest(listed).n

\* Mutant: the latest passing run decides, not the latest run.
EventOutcomeOfAnyPass(complete, listed) ==
    IF ~complete THEN "pending"
    ELSE IF \E r \in listed : r.out = "pass" THEN "pass"
    ELSE RunOutcome(Latest(listed))

\* _event_compliance_outcome
EventOutcome(complete, listed) ==
    IF complete THEN RunOutcome(Latest(listed)) ELSE "pending"

\* A passing group whose cancelled siblings are its only other contexts.
Excused(outs) == "pass" \in outs /\ outs \subseteq {"pass", "cancelled"}

\* _event_rollup_failure_is_accounted: superseded events, cancelled siblings.
EventFailureAccounted(snap, listed, stray) ==
    LET ctxs == Contexts(snap, "compliance")
        tests == CheckOutcomes(snap, "tests")
    IN  /\ Latest(listed).out = "pass"
        /\ \A c \in ctxs : c.ctx # "pending"
                           /\ (c.n = Latest(listed).n => c.ctx = "pass")
        /\ tests = {} \/ Excused(tests)
        /\ ~stray
        /\ \E c \in ctxs \cup Contexts(snap, "tests") : c.ctx # "pass"

\* _rollup_failure_only_ignorable_cancels
CancelsAccounted(snap, stray) ==
    /\ \A wf \in {"compliance", "tests"} :
          LET outs == CheckOutcomes(snap, wf) IN outs = {} \/ Excused(outs)
    /\ ~stray
    /\ \E c \in snap : c.ctx = "cancelled"

\* GitHub's own rollup of the contexts of a commit
RollupFails(snap, stray) ==
    stray \/ \E c \in snap : c.ctx \in {"fail", "cancelled"}

\* check_status: compliance, in three modes, under the rollup's failure
Compliance(mode, snap, whole, complete, listed, stray) ==
    LET outs == CheckOutcomes(snap, "compliance")
        base == CASE mode = "event" -> EventOutcome(complete, listed)
                  [] mode = "legacy" -> IF outs = {} THEN "missing" ELSE Reduce(outs)
                  [] mode = "none" -> "n/a"
        excused == /\ whole
                   /\ IF mode = "event"
                      THEN complete /\ EventFailureAccounted(snap, listed, stray)
                      ELSE CancelsAccounted(snap, stray)
    IN  IF base \in {"pass", "n/a"} /\ RollupFails(snap, stray) /\ ~excused
        THEN "fail" ELSE base

TestState(snap) ==
    LET outs == CheckOutcomes(snap, "tests")
    IN  IF outs = {} THEN "none" ELSE Reduce(outs)

\* classify, of an open fork pull request that is no draft
Classify(comp, tests, ci) ==
    IF ~ci                    THEN "needs-ci-approval"
    ELSE IF comp = "fail"     THEN "needs-reraise"
    ELSE IF comp = "pending"  THEN "ci-running"
    ELSE IF comp = "missing"  THEN "review-needed"
    ELSE CASE tests = "none"    -> "review-needed"
           [] tests = "pass"    -> "merge-ready"
           [] tests = "fail"    -> "fix-tests"
           [] tests = "pending" -> "ci-running"

\* What the reads prove, said without the program's reductions: the last run of
\* the workflow passed, or its contexts did, or none failed where none is
\* required; the tests passed; nothing failed that a later run does not excuse.
Passed(outs) == "pass" \in outs /\ "fail" \notin outs /\ "pending" \notin outs
Proven(mode, snap, listed, stray) ==
    /\ CASE mode = "event"  -> listed # {} /\ Latest(listed).out = "pass"
         [] mode = "legacy" -> Passed(CheckOutcomes(snap, "compliance"))
         [] mode = "none"   -> "fail" \notin CheckOutcomes(snap, "compliance")
    /\ Passed(CheckOutcomes(snap, "tests"))
    /\ ~stray

-----------------------------------------------------------------------------
(* The contributor, GitHub Actions and the base branch *)

Unasked == unasked > 0 /\ unasked' = unasked - 1
Last    == CHOOSE n \in {r.n : r \in ciRuns} \cup {0} :
               \A r \in ciRuns : r.n <= n

\* A new head, or back to one that was there before: either starts the
\* compliance workflow (none once MaxRuns are used up), and what ran before can
\* still be read and approved.  Back to the first head costs nothing of the bound.
Vetting == {"vet", "list", "source", "approve"}
PushHead ==
    /\ \E h \in Heads \ {fork.head} :
          /\ IF h = 0 THEN UNCHANGED unasked ELSE Unasked
          /\ fork' = [fork EXCEPT !.head = h]
          /\ ciRuns' = IF Last < MaxRuns
                       THEN ciRuns \cup {NewRun(Last + 1, "compliance", h)}
                       ELSE ciRuns
          /\ look' = [look EXCEPT !.back = @ \/ (look.at \in Vetting
                                                  /\ h = look.head)]
    /\ UNCHANGED <<shown, approvals>>

\* An edited body or a second trigger starts a workflow again.
TriggerAgain ==
    /\ Unasked
    /\ Last < MaxRuns
    /\ \E wf \in {"compliance", "tests"} :
          ciRuns' = ciRuns \cup {[n |-> Last + 1, wf |-> wf,
                                  head |-> fork.head, out |-> "running",
                                  ctx |-> IF wf = "tests" THEN "pending"
                                          ELSE "absent"]}
    /\ UNCHANGED <<fork, look, shown, approvals>>

\* Runs of the tests are read through their contexts only.
Moved(r, out) ==
    [r EXCEPT !.out = out,
              !.ctx = IF r.wf = "compliance" THEN @
                      ELSE IF out = "running" THEN "pending" ELSE out]
SetRun(r, new) == ciRuns' = (ciRuns \ {r}) \cup {new}

RunConcludes ==
    /\ \E r \in ciRuns, out \in {"pass", "fail", "cancelled"} :
          r.out = "running" /\ SetRun(r, Moved(r, out))
    /\ UNCHANGED <<fork, look, shown, approvals, unasked>>

\* The check context catches up with its run.
ContextShows ==
    /\ \E r \in ciRuns :
          LET now == IF r.out = "running" THEN "pending" ELSE r.out
          IN  /\ r.out # "waiting" /\ r.ctx # now
              /\ SetRun(r, [r EXCEPT !.ctx = now])
    /\ UNCHANGED <<fork, look, shown, approvals, unasked>>

RerunWorkflow ==
    /\ Unasked
    /\ \E r \in ciRuns :
          /\ r.head = fork.head /\ r.out \in {"pass", "fail", "cancelled"}
          /\ SetRun(r, Moved(r, "running"))
    /\ UNCHANGED <<fork, look, shown, approvals>>

StrayFails ==
    /\ Unasked
    /\ fork.head \notin fork.stray
    /\ fork' = [fork EXCEPT !.stray = @ \cup {fork.head}]
    /\ UNCHANGED <<ciRuns, look, shown, approvals>>

\* Maintainer edits are allowed or not; the base gets a workflow that runs with
\* secrets on pull_request_target.
PermissionsMove ==
    /\ Unasked
    /\ \/ fork' = [fork EXCEPT !.editable = ~@]
       \/ fork.baseSafe /\ fork' = [fork EXCEPT !.baseSafe = FALSE]
    /\ UNCHANGED <<ciRuns, look, shown, approvals>>

-----------------------------------------------------------------------------
(* The scan reads *)

\* Any call may fail, or fail after its effect.
Replies == {"done", "failed", "landed"}
GoOn(at) == look' = [look EXCEPT !.at = at]
GoHome   == look' = Away

OfHead(h) == {r \in ciRuns : r.head = h}
ContextsOf(h) == {[n |-> r.n, wf |-> r.wf, ctx |-> r.ctx] :
                     r \in {s \in OfHead(h) : s.ctx # "absent"}}

\* The contexts on the page that was read.
AsRead(kept, cut) ==
    IF cut THEN {c \in kept : \E d \in kept : c.n < d.n} ELSE kept

StartLook ==
    /\ look = Away
    /\ look' = [Away EXCEPT !.at = "read"]
    /\ UNCHANGED <<fork, ciRuns, shown, approvals, unasked>>

\* The owner decides /approve on the card.
StartApproval ==
    /\ look = Away /\ shown.kind = "ci-approval"
    /\ look' = [Away EXCEPT !.at = "fetch", !.strict = FALSE]
    /\ UNCHANGED <<fork, ciRuns, shown, approvals, unasked>>

\* The card says what was read, or that the state is unknown.
SaysRead ==
    LET ready == look.bucket = "merge-ready" /\ look.fresh
    IN  shown' = [kind |-> IF look.bucket = "needs-ci-approval" THEN "ci-approval"
                           ELSE "pr-review",
                  ready |-> ready, proven |-> ready /\ look.proven]
SaysUnknown(kind) ==
    shown' = [kind |-> kind, ready |-> FALSE, proven |-> FALSE]

\* The pull request with its contexts, in one query; a page that is not the
\* last is read as it is.  Where the fork cannot be pushed to, nothing else is
\* read; an exact read that finds another head ends as unknown.
ReadPr ==
    /\ look.at = "read"
    /\ \/ /\ look.exact /\ fork.head # look.head
          /\ SaysUnknown("pr-review") /\ GoHome
       \/ /\ ~look.exact /\ ~fork.editable
          /\ look' = [look EXCEPT !.at = "route", !.head = fork.head,
                                  !.bucket = "maintainer-edits-required"]
          /\ UNCHANGED shown
       \/ /\ IF look.exact THEN fork.head = look.head ELSE fork.editable
          /\ \E cut \in BOOLEAN :
                look' = [look EXCEPT
                   !.at = "runs", !.head = fork.head, !.bucket = "ci-state-unknown",
                   !.kept = AsRead(ContextsOf(fork.head), cut), !.cut = cut,
                   !.stray = fork.head \in fork.stray]
          /\ UNCHANGED shown
    /\ UNCHANGED <<fork, ciRuns, approvals, unasked>>

\* _check_observation_shape
ChecksComplete(whole, complete) == whole /\ complete

\* enrich_compliance_evidence lists the runs of the head that was read, then
\* check_status and classify.
ReadRuns ==
    /\ look.at = "runs"
    /\ \E o \in Replies \ {"landed"} :
          /\ fork.mode = "event" \/ o = "done"
          /\ LET snap   == look.kept
                 whole  == ~look.cut
                 listed == {r \in OfHead(look.head) : r.wf = "compliance"}
                 complete == o = "done" /\ whole /\ EvidenceComplete(snap, listed)
                 comp == Compliance(fork.mode, snap, whole, complete, listed,
                                    look.stray)
                 ci == look.stray \/ snap # {}
                 bucket == Classify(comp, TestState(snap), ci)
                 ready == bucket = "merge-ready"
             IN  look' = [look EXCEPT
                    !.at = "waits", !.kept = {}, !.cut = FALSE, !.stray = FALSE,
                    !.bucket = bucket,
                    !.fresh = ready /\ ChecksComplete(whole,
                                              fork.mode = "event" => complete),
                    !.proven = ready /\ Proven(fork.mode, snap, listed,
                                               look.stray)]
    /\ UNCHANGED <<fork, ciRuns, shown, approvals, unasked>>

WaitingRuns(h) == {r.n : r \in {c \in OfHead(h) : c.out = "waiting"}}

\* _list_action_required_runs: an error fails the scan of the repository, and
\* leaves an exact read unknown.
ListWaiting ==
    /\ look.at = "waits"
    /\ \E o \in Replies \ {"landed"} :
          /\ IF o = "done"
             THEN /\ UNCHANGED shown
                  /\ look' = [look EXCEPT
                        !.at = "route",
                        !.bucket = IF WaitingRuns(look.head) = {} THEN @
                                   ELSE "needs-ci-approval",
                        !.fresh = @ /\ WaitingRuns(look.head) = {},
                        !.proven = @ /\ WaitingRuns(look.head) = {}]
             ELSE /\ GoHome
                  /\ IF look.exact THEN SaysUnknown("pr-review") ELSE UNCHANGED shown
    /\ UNCHANGED <<fork, ciRuns, approvals, unasked>>

\* ci_safety, of the pull request and the base as they are now.
RiskyFiles(h) == h \in fork.risky
RiskyNow == RiskyFiles(fork.head)
SafeNow  == ~RiskyNow /\ fork.baseSafe

\* Only an existing card is read for again, and only one of its kind.
MayReadAgain == shown.kind = "pr-review"
ExactRead == [Away EXCEPT !.at = "read", !.exact = TRUE, !.head = look.head]
ReadAgain == look' = IF MayReadAgain THEN ExactRead ELSE Away

\* build_repo's second half: cards, waits and approvals.
RouteTarget ==
    /\ look.at = "route" /\ ~look.exact
    /\ \/ /\ look.bucket \in {"merge-ready", "review-needed",
                              "maintainer-edits-required"}
          /\ SaysRead
          /\ GoHome
       \/ /\ look.bucket \in {"needs-reraise", "fix-tests"}
          /\ UNCHANGED shown
          /\ GoHome
       \/ /\ look.bucket = "ci-running"
          /\ UNCHANGED shown
          /\ ReadAgain
       \/ /\ look.bucket = "needs-ci-approval" /\ SafeNow
          /\ UNCHANGED shown
          /\ GoOn("fetch")
       \/ /\ look.bucket = "needs-ci-approval" /\ ~SafeNow
          /\ SaysRead
          /\ GoHome
    /\ UNCHANGED <<fork, ciRuns, approvals, unasked>>

\* plan_ci_wait_projection: an approval that GitHub does not show yet, and one
\* that is needed again, are unknown.
ProjectExact ==
    /\ look.at = "route" /\ look.exact
    /\ IF ~look.fresh \/ look.bucket = "needs-ci-approval"
       THEN SaysUnknown("pr-review") ELSE SaysRead
    /\ GoHome
    /\ UNCHANGED <<fork, ciRuns, approvals, unasked>>

-----------------------------------------------------------------------------
(* approve_ci *)

\* How the scan goes on after approve_ci (_auto_approve_or_card): approved runs
\* are read for again, an error leaves the state unknown, a hold is shown, and
\* nothing to approve needs no card.  The owner gets an answer.
Conclude(status) ==
    IF ~look.strict
    THEN GoHome /\ UNCHANGED shown
    ELSE CASE status = "approved" -> ReadAgain /\ UNCHANGED shown
           [] status = "noop"     -> GoHome /\ UNCHANGED shown
           [] status = "hold"     -> GoHome /\ SaysRead
           [] status = "error"    -> GoHome /\ SaysUnknown("ci-approval")

FetchHead ==
    /\ look.at = "fetch"
    /\ \E o \in Replies \ {"landed"} :
          /\ IF o = "failed" \/ (look.strict /\ fork.head # look.head)
             THEN Conclude("error")
             ELSE /\ look' = [look EXCEPT !.at = "vet", !.head = fork.head]
                  /\ UNCHANGED shown
    /\ UNCHANGED <<fork, ciRuns, approvals, unasked>>

\* Posture and files are those of the live pull request, not of the head that
\* was fetched.
VetHead ==
    /\ look.at = "vet"
    /\ \E o \in Replies \ {"landed"} :
          /\ IF RiskyNow \/ o = "failed" THEN Conclude("hold")
             ELSE IF look.strict /\ ~fork.baseSafe THEN Conclude("error")
             ELSE GoOn("list") /\ UNCHANGED shown
    /\ UNCHANGED <<fork, ciRuns, approvals, unasked>>

\* The list and the detail of each listed run.
ListMatching ==
    /\ look.at = "list"
    /\ \E o \in Replies \ {"landed"} :
          /\ IF o = "failed" THEN Conclude("error")
             ELSE IF WaitingRuns(look.head) = {} THEN Conclude("noop")
             ELSE /\ look' = [look EXCEPT !.at = "source",
                                          !.todo = WaitingRuns(look.head)]
                  /\ UNCHANGED shown
    /\ UNCHANGED <<fork, ciRuns, approvals, unasked>>

\* Mutant: the source permission is read again, the head is not compared.
SourceEditable == fork.editable

\* Before every single approval the source is read again.
SourceStands == fork.editable /\ fork.head = look.head

CheckSource ==
    /\ look.at = "source"
    /\ \E o \in Replies \ {"landed"} :
          /\ IF o = "done" /\ SourceStands THEN GoOn("approve") /\ UNCHANGED shown
             ELSE Conclude("error")
    /\ UNCHANGED <<fork, ciRuns, approvals, unasked>>

\* Approvals go on after one failed; any failure makes the whole uncertain.
ApproveRun ==
    /\ look.at = "approve"
    /\ \E n \in look.todo, o \in Replies :
          LET hit == {r \in ciRuns : r.n = n /\ r.out = "waiting"}
              rest == look.todo \ {n}
              bad == look.failed \/ o # "done" \/ hit = {}
          IN  /\ IF o = "failed" THEN UNCHANGED <<ciRuns, approvals>>
                 ELSE /\ ciRuns' = (ciRuns \ hit) \cup
                                     {Moved(r, "running") : r \in hit}
                      /\ approvals' = approvals \cup
                            {[head |-> r.head, back |-> look.back] : r \in hit}
              /\ IF rest = {}
                 THEN Conclude(IF bad THEN "error" ELSE "approved")
                 ELSE /\ look' = [look EXCEPT !.at = "source", !.todo = rest,
                                              !.failed = bad]
                      /\ UNCHANGED shown
    /\ UNCHANGED <<fork, unasked>>

-----------------------------------------------------------------------------
ForkNext ==
    \/ PushHead \/ TriggerAgain \/ RunConcludes \/ ContextShows
    \/ RerunWorkflow \/ StrayFails \/ PermissionsMove
    \/ StartLook \/ StartApproval \/ ReadPr \/ ReadRuns \/ ListWaiting
    \/ RouteTarget \/ ProjectExact
    \/ FetchHead \/ VetHead \/ ListMatching \/ CheckSource \/ ApproveRun

ForkSpec == ForkInit /\ [][ForkNext]_forkVars

-----------------------------------------------------------------------------
\* The types of the variables.
ForkTypeOK ==
    /\ fork \in Fork
    /\ ciRuns \subseteq CiRun
    /\ look \in Look
    /\ shown \in Shown
    /\ approvals \subseteq [head: Heads, back: BOOLEAN]
    /\ unasked \in 0..MaxEvents

\* No run of a head that changes what CI executes is approved, by the scan or by
\* /approve, though files, runs and permissions are read in calls of their own
\* while the contributor pushes; unless the pull request left that head after it
\* was fetched and had it again before the approval: the files are read of the
\* pull request, the heads compared before and after, and so a head that went
\* and came back may carry the verdict on another (wheelhouse_core.approve_ci).
ApprovedRunsWereVetted ==
    \A a \in approvals : a.head \in fork.risky => a.back

\* A card that says merge-ready, as a current observation, was proven by the
\* reads it was made from: the head's latest compliance event passed, its tests
\* passed, and nothing failed that a later run does not excuse, whatever
\* re-ran, was cancelled or was cut off between those reads
\* (wheelhouse_core.check_status, target_reconcile.plan_ci_wait_projection).
MergeReadyIsProven ==
    shown.ready => shown.proven
=============================================================================
