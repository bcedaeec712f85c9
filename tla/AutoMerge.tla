------------------------------ MODULE AutoMerge ------------------------------
(***************************************************************************)
(* The scan-time auto-merge transaction of scripts/auto_merge.py: one      *)
(* scheduled run lists the decision cards, scans the fleet, claims a pure  *)
(* pending card, validates the claim, stages an audit intent in the card   *)
(* body, merges the pull request, and afterwards turns the intent into a   *)
(* ledger row and a resolved card.                                         *)
(*                                                                         *)
(* Runs exclude each other (the workflows share the concurrency group      *)
(* wheelhouse-backstop), so there is at most one run.  What interleaves    *)
(* with its API calls are people: the owner ticks, comments on or closes   *)
(* the card, the contributor pushes or closes, somebody merges by hand.    *)
(* A run can lose its runner between any two calls, a step of it can die   *)
(* while the always() steps still run, and a call can fail.                *)
(*                                                                         *)
(* A card stands for the pull request it is about.  updatedAt, the comment *)
(* count and the body digest are compared by the code for equality only;   *)
(* fresh[c] says whether the live card still equals the snapshot of it the *)
(* run holds.                                                              *)
(***************************************************************************)
EXTENDS Integers, Sequences, FiniteSets, SequencesExt

CONSTANTS
    Cards,               \* the decision cards, one pull request each
    NoCard,              \* no card
    MaxHead,             \* bound: heads a pull request can have
    LedgerCap,           \* LEDGER_ENTRY_CAP
    LedgerRoom,          \* LEDGER_MAX_BODY_BYTES, less the text around the rows
    RowSize,             \* what the ledger row of a card's merge takes of it
    MaxDisturbances,     \* bound: what people do, over a behaviour
    MaxFaults,           \* bound: lost runners, dead steps, failed calls
    TouchingHeads,       \* heads with a commit in their history that touches a workflow
    CarriedOver,         \* cards that an earlier release may have left with an intent
    WriterAcceptsReview  \* does _edit_issue_body accept a pr-review body?

ASSUME ConstantsAssumption ==
    /\ IsFiniteSet(Cards) /\ NoCard \notin Cards
    /\ MaxHead \in Nat \ {0}
    /\ LedgerCap \in Nat \ {0}
    /\ MaxDisturbances \in Nat
    /\ MaxFaults \in Nat
    /\ TouchingHeads \subseteq 1..MaxHead
    /\ CarriedOver \subseteq Cards
    /\ WriterAcceptsReview \in BOOLEAN

ASSUME RoomAssumption == LedgerRoom \in Nat /\ RowSize \in [Cards -> Nat]

VARIABLES
    prState, prHead, mergedBy,  \* the target pull requests
    gates,         \* do the live gates outside this model (CI, VISION.md, ...) pass?
    issueOpen, labels, body, ownerComment,  \* the cards
    ledger,        \* rows of the ledger issue, oldest first
    recorded,      \* history: identities a successful edit of the ledger covered
    appended,      \* history: the rows those edits brought, oldest first
    stage,         \* where the run is
    todo, cur,     \* the loop of the current step, and its element
    buf,           \* a card body the run read and is about to write back
    files,         \* the JSON files the steps hand to each other
    fresh,         \* live card = snapshot the run holds
    faults, disturbances

targets == <<prState, prHead, mergedBy, gates>>
card    == <<issueOpen, labels, body, ownerComment>>
audit   == <<ledger, recorded, appended>>
bounds  == <<faults, disturbances>>
loop    == <<stage, todo, cur, buf>>
vars    == <<targets, card, audit, loop, files, fresh, bounds>>

Heads == 1..MaxHead

Labels == {"needs-decision", "processing", "claim", "resolved", "manual-merge"}

ClaimLabels == {"processing", "claim"}

\* What the run reads of a card body: the state block's head, whether it holds
\* an eligible verdict for that head, the audit record, the manual-merge hold
\* of that head, and whether a decision box is ticked.
Body == [head: Heads, verdict: BOOLEAN, audit: {"none", "intent", "pending"},
         hold: BOOLEAN, tick: BOOLEAN]

\* scan.json, the two claim hand-offs, and the act step's results.
Files == [listed: SUBSET Cards, seen: [Cards -> 0..MaxHead], ready: SUBSET Cards,
          pre: SUBSET Cards, claims: SUBSET Cards, valid: SUBSET Cards,
          merges: SUBSET Cards, backfill: SUBSET Cards, releases: SUBSET Cards,
          holds: SUBSET Cards, written: BOOLEAN, staged: SUBSET Cards]

BlankBody == [head |-> 1, verdict |-> FALSE, audit |-> "none", hold |-> FALSE,
              tick |-> FALSE]

NoFiles == [listed |-> {}, seen |-> [c \in Cards |-> 0], ready |-> {},
            pre |-> {}, claims |-> {}, valid |-> {}, merges |-> {},
            backfill |-> {}, releases |-> {}, holds |-> {}, written |-> FALSE,
            staged |-> {}]

Stages == {"idle", "scan", "preclaim", "claim", "label", "confirm", "validate",
           "recover", "act", "stageRead", "stageWrite", "stageConfirm", "g7",
           "guard", "put", "pendRead", "pendWrite", "holdRead", "holdWrite",
           "record", "recordStage", "ledger", "resolve", "resolveClose",
           "resolveRelease", "release", "clear", "drop", "reconcile"}

-----------------------------------------------------------------------------
(* What the code asks of a card.                                            *)

\* _card_is_claimed
Claimed(c) == /\ ClaimLabels \cup {"needs-decision"} \subseteq labels[c]
              /\ "resolved" \notin labels[c]

\* render_card.is_refreshable
Refreshable(c) == /\ "needs-decision" \in labels[c]
                  /\ labels[c] \cap (ClaimLabels \cup {"resolved"}) = {}

\* _audit_state_is_protected
Protected(c) == body[c].audit # "none"

\* an owner or maintainer decision that a read of the card shows
OwnerActed(c) == ownerComment[c] \/ body[c].tick

\* Fault: the comparison trusts the snapshot and forgets the owner.
MutMatchesSnapshotOnly(c) == issueOpen[c] /\ fresh[c] /\ Claimed(c)

\* _current_claim_matches against the snapshot the run holds
ClaimMatches(c) == issueOpen[c] /\ fresh[c] /\ Claimed(c) /\ ~OwnerActed(c)

\* What evaluate_candidate (G0-G6) asks besides what this model names: policy,
\* scan health, authors, labels, size, VISION.md, checks, mergeability.
GatesPass(c) == gates[c]

\* live_pr and the live gates agree with head h
TargetReady(c, h) == prState[c] = "open" /\ prHead[c] = h /\ GatesPass(c)

\* verdict_eligible for the verdict on the card
VerdictEligible(c) == body[c].verdict

\* _workflow_merge_gate (G7) for the head on the card
TouchesWorkflow(c) == body[c].head \in TouchingHeads

\* _ledger_entry_identity of the audit record on the card
Identity(c) == <<c, body[c].head>>

InLedger(id) == \E i \in 1..Len(ledger) : ledger[i] = id

-----------------------------------------------------------------------------
Init ==
    /\ prState = [c \in Cards |-> "open"]
    /\ prHead = [c \in Cards |-> 1]
    /\ mergedBy = [c \in Cards |-> "nobody"]
    /\ gates = [c \in Cards |-> TRUE]
    /\ issueOpen = [c \in Cards |-> TRUE]
    /\ \E left \in SUBSET CarriedOver :
          /\ labels = [c \in Cards |-> {"needs-decision"} \cup
                           (IF c \in left THEN ClaimLabels ELSE {})]
          /\ body = [c \in Cards |->
                        [head |-> 1, verdict |-> TRUE, hold |-> FALSE, tick |-> FALSE,
                         audit |-> IF c \in left THEN "intent" ELSE "none"]]
    /\ ownerComment = [c \in Cards |-> FALSE]
    /\ ledger = <<>>
    /\ recorded = {}
    /\ appended = <<>>
    /\ stage = "idle"
    /\ todo = {}
    /\ cur = NoCard
    /\ buf = BlankBody
    /\ files = NoFiles
    /\ fresh = [c \in Cards |-> FALSE]
    /\ faults = 0
    /\ disturbances = 0

-----------------------------------------------------------------------------
(* People, on GitHub, at any moment.                                        *)

Disturb == /\ disturbances < MaxDisturbances
           /\ disturbances' = disturbances + 1

\* The contributor pushes: a new head.
Push(c) == /\ Disturb
           /\ prState[c] = "open" /\ prHead[c] < MaxHead
           /\ prHead' = [prHead EXCEPT ![c] = @ + 1]
           /\ UNCHANGED <<prState, mergedBy, gates, card, audit, loop, files,
                          fresh, faults>>

\* Checks turn red or green, VISION.md changes, a label appears or goes.
GatesFlip(c) == /\ Disturb
                /\ prState[c] = "open"
                /\ gates' = [gates EXCEPT ![c] = ~@]
                /\ UNCHANGED <<prState, prHead, mergedBy, card, audit, loop,
                               files, fresh, faults>>

\* Somebody merges, or the contributor closes, in the GitHub UI.
PersonEnds(c, s) == /\ Disturb
                    /\ prState[c] = "open"
                    /\ prState' = [prState EXCEPT ![c] = s]
                    /\ mergedBy' = [mergedBy EXCEPT ![c] =
                                       IF s = "merged" THEN "person" ELSE @]
                    /\ UNCHANGED <<prHead, gates, card, audit, loop, files,
                                   fresh, faults>>

\* The owner ticks a decision box: an edit of the body.
OwnerTicks(c) == /\ Disturb
                 /\ issueOpen[c] /\ ~body[c].tick
                 /\ body' = [body EXCEPT ![c].tick = TRUE]
                 /\ fresh' = [fresh EXCEPT ![c] = FALSE]
                 /\ UNCHANGED <<targets, issueOpen, labels, ownerComment, audit,
                                loop, files, faults>>

\* The owner comments a slash-command or asks to hold or close.
OwnerComments(c) == /\ Disturb
                    /\ ~ownerComment[c]
                    /\ ownerComment' = [ownerComment EXCEPT ![c] = TRUE]
                    /\ fresh' = [fresh EXCEPT ![c] = FALSE]
                    /\ UNCHANGED <<targets, issueOpen, labels, body, audit,
                                   loop, files, faults>>

\* The owner closes the card.
OwnerCloses(c) == /\ Disturb
                  /\ issueOpen[c]
                  /\ issueOpen' = [issueOpen EXCEPT ![c] = FALSE]
                  /\ fresh' = [fresh EXCEPT ![c] = FALSE]
                  /\ UNCHANGED <<targets, labels, body, ownerComment, audit,
                                 loop, files, faults>>

\* Anybody else comments on the card.
BystanderComments(c) == /\ Disturb
                        /\ fresh[c]
                        /\ fresh' = [fresh EXCEPT ![c] = FALSE]
                        /\ UNCHANGED <<targets, card, audit, loop, files, faults>>

\* A triage run between two scans publishes an eligible verdict for the head
\* on the card.
TriagePublishes(c) == /\ stage = "idle"
                      /\ issueOpen[c] /\ Refreshable(c) /\ ~body[c].verdict
                      /\ body' = [body EXCEPT ![c].verdict = TRUE]
                      /\ UNCHANGED <<targets, issueOpen, labels, ownerComment,
                                     audit, loop, files, fresh, bounds>>

People == \E c \in Cards :
             \/ Push(c) \/ GatesFlip(c)
             \/ \E s \in {"merged", "closed"} : PersonEnds(c, s)
             \/ OwnerTicks(c) \/ OwnerComments(c) \/ OwnerCloses(c)
             \/ BystanderComments(c)

-----------------------------------------------------------------------------
(* Control of the run.                                                      *)

Fault == faults < MaxFaults /\ faults' = faults + 1

\* Go to stage s with the loop over S ahead.
Enter(s, S) == stage' = s /\ todo' = S /\ cur' = NoCard /\ buf' = BlankBody

\* Go to stage s on card c of the current loop.
OnCard(s, c) == stage' = s /\ todo' = todo \ {c} /\ cur' = c /\ buf' = BlankBody

\* Stay on the current card and go to stage s.
Goto(s) == stage' = s /\ UNCHANGED <<todo, cur>>

\* The loop of stage s is done with card c.
DoneWith(s, c) == stage' = s /\ todo' = todo \ {c} /\ cur' = NoCard
                  /\ buf' = BlankBody

\* The claim labels come off the cards of S (_release_card_claim), which
\* makes the snapshots of these cards stale.
Unlabel(S) ==
    /\ labels' = [c \in Cards |-> IF c \in S THEN labels[c] \ ClaimLabels
                                             ELSE labels[c]]
    /\ fresh' = [c \in Cards |-> fresh[c] /\ c \notin S]

\* The runner is lost: no later step of this run executes.
RunnerLost == /\ stage # "idle"
              /\ Fault
              /\ Enter("idle", {})
              /\ files' = NoFiles
              /\ fresh' = [c \in Cards |-> FALSE]
              /\ UNCHANGED <<targets, card, audit, disturbances>>

\* The claim, validate or act step dies; its hand-off is not written, the
\* steps up to "record" are skipped, and record runs because it is always().
StepDies ==
    /\ stage \in {"claim", "label", "confirm", "validate", "recover", "act",
                  "stageRead", "stageWrite", "stageConfirm", "g7", "guard",
                  "put", "pendRead", "pendWrite", "holdRead", "holdWrite"}
    /\ Fault
    /\ Enter("record", {})
    /\ files' = [files EXCEPT !.merges = {}, !.backfill = {}, !.releases = {},
                              !.holds = {}, !.claims = {},
                              !.valid = IF stage \in {"claim", "label", "confirm",
                                                      "validate"}
                                        THEN {} ELSE @]
    /\ UNCHANGED <<targets, card, audit, fresh, disturbances>>

\* A call about one card raises, and the loop goes on with the next card: a
\* claim that is not confirmed, a candidate that keeps its claim and intent, a
\* hold that is not persisted, a card that is resolved but not closed.
CallFails ==
    /\ Fault
    /\ \/ stage \in {"label", "confirm"} /\ Enter("claim", todo) /\ UNCHANGED files
       \/ stage \in {"stageRead", "g7", "guard"} /\ Enter("act", todo) /\ UNCHANGED files
       \/ /\ stage \in {"holdRead", "holdWrite"} /\ Enter("act", todo)
          /\ files' = [files EXCEPT !.holds = @ \cup {cur}]
       \/ stage = "resolveClose" /\ Enter("resolve", todo) /\ UNCHANGED files
    /\ UNCHANGED <<targets, card, audit, fresh, disturbances>>

-----------------------------------------------------------------------------
(* Steps "list cards", "scan the fleet" and "evaluate before claim".        *)

ListCards == /\ stage = "idle"
             /\ Enter("scan", {})
             /\ files' = [NoFiles EXCEPT !.listed =
                    {c \in Cards : issueOpen[c] /\ "needs-decision" \in labels[c]}]
             /\ fresh' = [c \in Cards |-> TRUE]
             /\ UNCHANGED <<targets, card, audit, bounds>>

Scan == /\ stage = "scan"
        /\ Enter("preclaim", {})
        /\ files' = [files EXCEPT
              !.seen = [c \in Cards |-> IF prState[c] = "open" THEN prHead[c]
                                                               ELSE 0],
              !.ready = {c \in Cards : prState[c] = "open" /\ gates[c]}]
        /\ UNCHANGED <<targets, card, audit, fresh, bounds>>

\* preclaim_candidates: G0-G6, read-only, on the listed cards.
Preclaim == /\ stage = "preclaim"
            /\ Enter("claim", Cards)
            /\ files' = [files EXCEPT !.pre =
                 {c \in files.listed \cap files.ready :
                     /\ body[c].head = files.seen[c] /\ VerdictEligible(c)
                     /\ TargetReady(c, files.seen[c])}]
            /\ UNCHANGED <<targets, card, audit, fresh, bounds>>

-----------------------------------------------------------------------------
(* claim_cards and validate_claimed_cards.                                  *)

\* Fault: only a claim on a card that would be claimed again is recovered.
MutStaleIfCandidate(c) == c \in files.pre /\ Claimed(c) /\ ~Protected(c) /\ issueOpen[c]

\* A claim that no audit record protects is what an interrupted run left behind.
StaleClaim(c) == c \in files.listed /\ Claimed(c) /\ ~Protected(c) /\ issueOpen[c]

\* recover_stale_card_claims
RecoverStaleClaim(c) ==
    /\ stage = "claim" /\ c \in todo
    /\ StaleClaim(c)
    /\ Unlabel({c})
    /\ DoneWith("claim", c)
    /\ UNCHANGED <<targets, issueOpen, body, ownerComment, audit, files, bounds>>

\* A claimed card with an intent keeps its claim for the act step.
KeepIntentClaim(c) ==
    /\ stage = "claim" /\ c \in todo
    /\ c \in files.listed /\ body[c].audit = "intent" /\ ClaimMatches(c)
    /\ files' = [files EXCEPT !.claims = @ \cup {c}]
    /\ DoneWith("claim", c)
    /\ UNCHANGED <<targets, card, audit, fresh, bounds>>

\* Fault: the manual-merge hold of the head is not consulted.
MutClaimsHeldHead(c) == /\ c \in files.pre
                        /\ issueOpen[c] /\ fresh[c] /\ Refreshable(c)
                        /\ ~OwnerActed(c) /\ VerdictEligible(c)

\* The re-read card of a preclaim passer is the listed one and undecided.
Claimable(c) == /\ c \in files.pre
                /\ issueOpen[c] /\ fresh[c] /\ Refreshable(c) /\ ~OwnerActed(c)
                /\ VerdictEligible(c) /\ ~body[c].hold

\* The card is re-read and found unchanged; the labels are added next.
ReadForClaim(c) ==
    /\ stage = "claim" /\ c \in todo
    /\ Claimable(c)
    /\ OnCard("label", c)
    /\ UNCHANGED <<targets, card, audit, files, fresh, bounds>>

\* Fault: another label than the one every reader looks for.
MutOtherLabel ==
    /\ stage = "label"
    /\ labels' = [labels EXCEPT ![cur] = @ \cup {"processing", "auto-merge"}]
    /\ Goto("confirm")
    /\ UNCHANGED <<targets, issueOpen, body, ownerComment, audit, buf, files,
                   fresh, bounds>>

LabelClaim ==
    /\ stage = "label"
    /\ labels' = [labels EXCEPT ![cur] = @ \cup ClaimLabels]
    /\ Goto("confirm")
    /\ UNCHANGED <<targets, issueOpen, body, ownerComment, audit, buf, files,
                   fresh, bounds>>

\* The labelled card is read once more: either it is exactly the card that was
\* claimed, or the claim is given back.
ConfirmClaim ==
    /\ stage = "confirm"
    /\ Enter("claim", todo)
    /\ \/ /\ ClaimMatches(cur)
          /\ files' = [files EXCEPT !.claims = @ \cup {cur}]
          /\ UNCHANGED <<labels, fresh>>
       \/ /\ ~ClaimMatches(cur)
          /\ Unlabel({cur})
          /\ UNCHANGED files
    /\ UNCHANGED <<targets, issueOpen, body, ownerComment, audit, bounds>>

\* Nothing to claim on c: not listed, not a preclaim passer, changed since.
SkipClaim(c) ==
    /\ stage = "claim" /\ c \in todo
    /\ ~StaleClaim(c)
    /\ ~(c \in files.listed /\ body[c].audit = "intent" /\ ClaimMatches(c))
    /\ ~Claimable(c)
    /\ DoneWith("claim", c)
    /\ UNCHANGED <<targets, card, audit, files, fresh, bounds>>

WriteClaims == /\ stage = "claim" /\ todo = {}
               /\ Enter("validate", files.claims)
               /\ UNCHANGED <<targets, card, audit, files, fresh, bounds>>

\* _write_claim_handoff could not write: every claim of the file is released
\* and the step fails.
WriteHandoffFails ==
    /\ \/ stage = "claim" /\ todo = {} /\ Unlabel(files.claims)
       \/ stage = "validate" /\ todo = {} /\ Unlabel(files.valid)
    /\ Fault
    /\ Enter("record", {})
    /\ files' = [files EXCEPT !.claims = {}, !.valid = {}]
    /\ UNCHANGED <<targets, issueOpen, body, ownerComment, audit, disturbances>>

ValidateClaim(c) ==
    /\ stage = "validate" /\ c \in todo
    /\ DoneWith("validate", c)
    /\ \/ /\ ClaimMatches(c)
          /\ files' = [files EXCEPT !.valid = @ \cup {c}]
          /\ UNCHANGED <<labels, fresh, faults>>
       \/ /\ ~ClaimMatches(c) /\ Protected(c)
          /\ UNCHANGED <<labels, fresh, files, faults>>
       \/ /\ ~ClaimMatches(c) /\ ~Protected(c)
          /\ Unlabel({c})
          /\ UNCHANGED <<files, faults>>
       \/ Fault /\ UNCHANGED <<labels, fresh, files>>
    /\ UNCHANGED <<targets, issueOpen, body, ownerComment, audit, disturbances>>

WriteValidated == /\ stage = "validate" /\ todo = {}
                  /\ Enter("recover", {})
                  /\ UNCHANGED <<targets, card, audit, files, fresh, bounds>>

-----------------------------------------------------------------------------
(* act_on_scan: recover what earlier runs left, then the candidates.        *)

\* Fault: only the cards of the open listing are searched.
MutListedIntents == {c \in files.listed : ~issueOpen[c] /\ body[c].audit = "intent"}

\* closed_audit_intent_entries
ClosedIntents == {c \in Cards : ~issueOpen[c] /\ body[c].audit = "intent"}

\* persist_workflow_hold accepts the card
HoldAccepted(c) == /\ issueOpen[c] /\ Claimed(c) /\ ~OwnerActed(c)
                   /\ body[c].audit = "intent"

\* recover_audit_intents, and the release list act_on_scan starts from.  A
\* closed card with an intent whose target is merged at that head becomes a
\* record; an open one stays as it is, whoever merged; an intent that already
\* carries the manual-merge hold goes back to pending; any other intent is
\* left to the candidate loop.  found are the closed cards with an intent, or
\* none if the search for them failed.
RecoverIntents(found) ==
    LET backfill == {c \in found : /\ prState[c] = "merged"
                                   /\ prHead[c] = body[c].head}
        held     == {c \in files.valid : /\ body[c].audit = "intent"
                                         /\ prState[c] # "merged"
                                         /\ body[c].hold}
    IN  /\ stage = "recover"
        /\ \/ found = ClosedIntents /\ UNCHANGED faults
           \/ found = {} /\ Fault
        /\ files' = [files EXCEPT
              !.merges = backfill, !.backfill = backfill, !.holds = held,
              !.releases = {c \in files.valid : ~Protected(c)} \cup
                           {c \in held : HoldAccepted(c)}]
        /\ Enter("act", files.ready \ (backfill \cup held))
        /\ UNCHANGED <<targets, card, audit, fresh, disturbances>>

\* evaluate_candidate with the claim required
Eligible(c) == /\ c \in files.valid
               /\ body[c].head = files.seen[c] /\ VerdictEligible(c) /\ ~body[c].hold
               /\ TargetReady(c, files.seen[c])

Evaluate(c) ==
    /\ stage = "act" /\ c \in todo
    /\ \/ Eligible(c) /\ OnCard("stageRead", c)
       \/ ~Eligible(c) /\ DoneWith("act", c)
    /\ UNCHANGED <<targets, card, audit, files, fresh, bounds>>

\* The candidate ends without a merge and stays in the release list it is in.
HoldCandidate == Enter("act", todo) /\ UNCHANGED files

\* The candidate ends without a merge; its claim and intent are to be released.
HoldAndRelease == /\ Enter("act", todo)
                  /\ files' = [files EXCEPT !.releases = @ \cup {cur}]

\* Fault: an intent that is already there counts as a conflict.
MutIntentIsConflict ==
    /\ stage = "stageRead"
    /\ \/ /\ ClaimMatches(cur) /\ body[cur].audit = "none"
          /\ Goto("stageWrite") /\ buf' = body[cur]
          /\ UNCHANGED files
       \/ /\ ~ClaimMatches(cur) \/ body[cur].audit # "none"
          /\ HoldCandidate
    /\ UNCHANGED <<targets, card, audit, fresh, bounds>>

\* stage_audit_intent, its read: the card must still be the validated one.
StageRead ==
    /\ stage = "stageRead"
    /\ \/ /\ ClaimMatches(cur) /\ body[cur].audit = "none"
          /\ Goto("stageWrite") /\ buf' = body[cur]
          /\ UNCHANGED files
       \/ /\ ClaimMatches(cur) /\ body[cur].audit = "intent"
          /\ Goto("g7") /\ files' = [files EXCEPT !.releases = @ \ {cur}]
          /\ UNCHANGED buf
       \/ /\ ~ClaimMatches(cur) \/ body[cur].audit = "pending"
          /\ HoldCandidate
    /\ UNCHANGED <<targets, card, audit, fresh, bounds>>

\* Its write, of the whole body as it was read.  _edit_issue_body raises for a
\* pr-review body, and a call may fail; both hold the candidate.
StageWrite ==
    /\ stage = "stageWrite"
    /\ \/ /\ WriterAcceptsReview
          /\ body' = [body EXCEPT ![cur] = [buf EXCEPT !.audit = "intent"]]
          /\ Goto("stageConfirm") /\ buf' = BlankBody
          /\ UNCHANGED <<files, faults>>
       \/ /\ \/ ~WriterAcceptsReview /\ UNCHANGED faults
             \/ Fault
          /\ HoldCandidate
          /\ UNCHANGED body
    /\ UNCHANGED <<targets, issueOpen, labels, ownerComment, audit, fresh,
                   disturbances>>

\* Its second read, which is the snapshot the final guard compares with.
StageConfirm ==
    /\ stage = "stageConfirm"
    /\ \/ /\ Goto("g7")
          /\ files' = [files EXCEPT !.releases = @ \ {cur}]
          /\ fresh' = [fresh EXCEPT ![cur] = TRUE]
          /\ UNCHANGED <<buf, faults>>
       \/ Fault /\ HoldCandidate /\ UNCHANGED fresh
    /\ UNCHANGED <<targets, card, audit, disturbances>>

\* act_merge: G7, then do_merge up to its workflow gate.
G7 ==
    /\ stage = "g7"
    /\ \/ /\ TargetReady(cur, body[cur].head) /\ ~TouchesWorkflow(cur)
          /\ Goto("guard") /\ UNCHANGED <<buf, files>>
       \/ /\ TargetReady(cur, body[cur].head) /\ TouchesWorkflow(cur)
          /\ Goto("holdRead") /\ UNCHANGED <<buf, files>>
       \/ ~TargetReady(cur, body[cur].head) /\ HoldAndRelease
    /\ UNCHANGED <<targets, card, audit, fresh, bounds>>

\* do_merge's second read of the target, and final_auto_merge_guard.
Guard ==
    /\ stage = "guard"
    /\ LET ok == ClaimMatches(cur) /\ TargetReady(cur, body[cur].head)
       IN  \/ ok /\ Goto("put") /\ UNCHANGED <<buf, files>>
           \/ ~ok /\ HoldAndRelease
    /\ UNCHANGED <<targets, card, audit, fresh, bounds>>

\* Fault: a merge call without an answer counts as a plain hold.
MutLostAnswerIsHold(answered) ==
    /\ stage = "put"
    /\ prState[cur] = "open" /\ prHead[cur] = body[cur].head
    /\ prState' = [prState EXCEPT ![cur] = "merged"]
    /\ mergedBy' = [mergedBy EXCEPT ![cur] = "wheelhouse"]
    /\ \/ answered /\ Goto("pendRead") /\ UNCHANGED <<buf, files, faults>>
       \/ ~answered /\ Fault /\ HoldAndRelease
    /\ UNCHANGED <<prHead, gates, card, audit, fresh, disturbances>>

\* Fault: the merge call does not pin the head.
MutUnpinnedMerge(answered) ==
    /\ stage = "put"
    /\ prState[cur] = "open"
    /\ prState' = [prState EXCEPT ![cur] = "merged"]
    /\ mergedBy' = [mergedBy EXCEPT ![cur] = "wheelhouse"]
    /\ \/ answered /\ Goto("pendRead") /\ UNCHANGED <<buf, faults>>
       \/ ~answered /\ Fault /\ Enter("act", todo)
    /\ UNCHANGED <<prHead, gates, card, audit, files, fresh, disturbances>>

\* PUT .../merge with the pinned head.  GitHub merges only an open target whose
\* head is still the pinned one.  Losing the answer, or an answer without a
\* usable commit, leaves the card claimed with its intent.
MergeLands(answered) ==
    /\ stage = "put"
    /\ prState[cur] = "open" /\ prHead[cur] = body[cur].head
    /\ prState' = [prState EXCEPT ![cur] = "merged"]
    /\ mergedBy' = [mergedBy EXCEPT ![cur] = "wheelhouse"]
    /\ \/ answered /\ Goto("pendRead") /\ UNCHANGED <<buf, faults>>
       \/ ~answered /\ Fault /\ Enter("act", todo)
    /\ UNCHANGED <<prHead, gates, card, audit, files, fresh, disturbances>>

\* The endpoint refuses.  With another head, or a merge conflict, the outcome
\* is a plain hold; otherwise it is an error and nothing is released.
MergeRefused ==
    /\ stage = "put"
    /\ \/ /\ \/ prHead[cur] # body[cur].head
             \/ prState[cur] = "open" /\ ~gates[cur]
          /\ HoldAndRelease /\ UNCHANGED faults
       \/ /\ prHead[cur] = body[cur].head
          /\ \/ prState[cur] # "open" /\ UNCHANGED faults
             \/ Fault
          /\ HoldCandidate
    /\ UNCHANGED <<targets, card, audit, fresh, disturbances>>

\* stage_pending_audit: one body write replaces the intent by the completed
\* record.  The record is handed to the record step even when this fails.
PendingRead ==
    /\ stage = "pendRead"
    /\ \/ /\ Goto("pendWrite") /\ buf' = body[cur]
          /\ UNCHANGED <<files, faults>>
       \/ /\ Fault /\ Enter("act", todo)
          /\ files' = [files EXCEPT !.merges = @ \cup {cur}]
    /\ UNCHANGED <<targets, card, audit, fresh, disturbances>>

PendingWrite ==
    /\ stage = "pendWrite"
    /\ Enter("act", todo)
    /\ files' = [files EXCEPT !.merges = @ \cup {cur}]
    /\ \/ /\ WriterAcceptsReview
          /\ body' = [body EXCEPT ![cur] = [buf EXCEPT !.audit = "pending"]]
          /\ UNCHANGED faults
       \/ /\ \/ ~WriterAcceptsReview /\ UNCHANGED faults
             \/ Fault
          /\ UNCHANGED body
    /\ UNCHANGED <<targets, issueOpen, labels, ownerComment, audit, fresh,
                   disturbances>>

\* persist_workflow_hold: the denial is written, label included, if the card
\* is unchanged between its two reads.  Failing keeps claim and intent.
HoldRead ==
    /\ stage = "holdRead"
    /\ \/ /\ HoldAccepted(cur)
          /\ Goto("holdWrite") /\ buf' = body[cur]
          /\ fresh' = [fresh EXCEPT ![cur] = TRUE]
          /\ UNCHANGED files
       \/ /\ ~HoldAccepted(cur)
          /\ Enter("act", todo)
          /\ files' = [files EXCEPT !.holds = @ \cup {cur}]
          /\ UNCHANGED fresh
    /\ UNCHANGED <<targets, card, audit, bounds>>

HoldWrite ==
    /\ stage = "holdWrite"
    /\ Enter("act", todo)
    /\ \/ /\ fresh[cur] /\ issueOpen[cur]
          /\ body' = [body EXCEPT ![cur] = [buf EXCEPT !.hold = TRUE]]
          /\ labels' = [labels EXCEPT ![cur] = @ \cup {"manual-merge"}]
          /\ files' = [files EXCEPT !.holds = @ \cup {cur},
                                    !.releases = @ \cup {cur}]
       \/ /\ ~(fresh[cur] /\ issueOpen[cur])
          /\ files' = [files EXCEPT !.holds = @ \cup {cur}]
          /\ UNCHANGED <<body, labels>>
    /\ UNCHANGED <<targets, issueOpen, ownerComment, audit, fresh, bounds>>

WriteResults ==
    /\ stage = "act" /\ todo = {}
    /\ Enter("record", {})
    /\ \/ files' = [files EXCEPT !.written = TRUE] /\ UNCHANGED faults
       \/ /\ Fault
          /\ files' = [files EXCEPT !.merges = {}, !.backfill = {},
                                    !.releases = {}, !.holds = {}]
    /\ UNCHANGED <<targets, card, audit, fresh, disturbances>>

-----------------------------------------------------------------------------
(* cmd_record: holds, ledger, resolved cards, releases.                     *)

\* Fault: a pending record counts only while the card is still undecided.
MutPendingIfClaimed == {c \in Cards : Claimed(c) /\ body[c].audit = "pending"}

\* pending_audit_records: found by the claim label, open or closed
PendingRecords == {c \in Cards : "claim" \in labels[c] /\ body[c].audit = "pending"}

\* Without a results file the validated claims are what may be released.  A
\* card with a manual-merge hold is released only once the hold is verified.
\* The search for pending records may fail, and the step goes on without them.
RecordBegin ==
    LET wrote   == {c \in files.holds : HoldAccepted(c)}
        release == IF files.written THEN (files.releases \ files.holds) \cup wrote
                                    ELSE files.valid
    IN  \E pending \in {PendingRecords, {}} :
        /\ stage = "record"
        /\ \/ pending = PendingRecords /\ UNCHANGED faults
           \/ pending = {} /\ Fault
        /\ body' = [c \in Cards |-> IF c \in wrote
                                    THEN [body[c] EXCEPT !.hold = TRUE] ELSE body[c]]
        /\ labels' = [c \in Cards |-> IF c \in wrote
                                      THEN labels[c] \cup {"manual-merge"}
                                      ELSE labels[c]]
        /\ files' = [files EXCEPT !.releases = release, !.staged = pending,
                                  !.merges = @ \cup pending]
        /\ Enter("recordStage", files.merges \ pending)
        /\ UNCHANGED <<targets, issueOpen, ownerComment, audit, fresh,
                       disturbances>>

\* A handed-over record is staged as pending if the act step could not; one
\* recovered from a closed card goes to the ledger as it is.
RecordStage(c) ==
    /\ stage = "recordStage" /\ c \in todo
    /\ DoneWith("recordStage", c)
    /\ \/ /\ c \in files.backfill
          /\ files' = [files EXCEPT !.staged = @ \cup {c}]
          /\ UNCHANGED <<body, faults>>
       \/ /\ c \notin files.backfill
          /\ body[c].audit = "pending" \/ WriterAcceptsReview
          /\ files' = [files EXCEPT !.staged = @ \cup {c}]
          /\ body' = [body EXCEPT ![c].audit = "pending"]
          /\ UNCHANGED faults
       \/ /\ c \notin files.backfill
          /\ \/ Fault
             \/ body[c].audit # "pending" /\ ~WriterAcceptsReview /\ UNCHANGED faults
          /\ UNCHANGED <<body, files>>
    /\ UNCHANGED <<targets, issueOpen, labels, ownerComment, audit, fresh,
                   disturbances>>

\* Fault: a retried record is appended again.
MutEveryRow(S) == {Identity(c) : c \in S}

\* append_ledger_entries: identities already in the ledger are skipped.
NewRows(S) == {id \in {Identity(c) : c \in S} : ~InLedger(id)}

Orders(S) == {s \in [1..Cardinality(S) -> S] :
                 \A i, j \in DOMAIN s : s[i] = s[j] => i = j}

Size(rows) == FoldSeq(LAMBDA id, n : n + RowSize[id[1]], 0, rows)

\* Both caps of append_ledger_entries, on rows and on the rendered body.
Fits(rows) == Len(rows) <= LedgerCap /\ Size(rows) <= LedgerRoom

From(rows, k) == SubSeq(rows, k + 1, Len(rows))

\* Fault: the newest rows go first.
MutKeepOldest(rows) ==
    {SubSeq(rows, 1, k) : k \in {n \in 0..Len(rows) :
        /\ n = 0 \/ Fits(SubSeq(rows, 1, n))
        /\ \A j \in n+1..Len(rows) : ~Fits(SubSeq(rows, 1, j))}}

\* The oldest rows go until the rest fits or none is left.  One sequence.
KeepNewest(rows) ==
    {From(rows, k) : k \in {n \in 0..Len(rows) :
        /\ n = Len(rows) \/ Fits(From(rows, n))
        /\ \A j \in 0..n-1 : ~Fits(From(rows, j))}}

\* append_to_ledger: the whole batch in one edit of the ledger issue.  If the
\* edit fails no card is resolved, and the staged cards keep claim and record.
AppendLedger ==
    /\ stage = "recordStage" /\ todo = {}
    /\ \/ /\ \E rows \in Orders(NewRows(files.staged)) :
                /\ ledger' \in KeepNewest(ledger \o rows)
                /\ appended' = appended \o rows
          /\ recorded' = recorded \cup {Identity(c) : c \in files.staged}
          /\ Enter("resolve", files.staged)
          /\ UNCHANGED faults
       \/ /\ files.staged # {} /\ Fault
          /\ Enter("release", files.releases \ files.merges)
          /\ UNCHANGED audit
    /\ UNCHANGED <<targets, card, files, fresh, disturbances>>

\* clear_closed_audit_intent for a record recovered from a closed card.
ClearClosedIntent(c) ==
    /\ stage = "resolve" /\ c \in todo \cap files.backfill
    /\ DoneWith("resolve", c)
    /\ \/ /\ WriterAcceptsReview /\ ~issueOpen[c] /\ body[c].audit = "intent"
          /\ body' = [body EXCEPT ![c].audit = "none"]
          /\ UNCHANGED faults
       \/ /\ \/ ~WriterAcceptsReview /\ UNCHANGED faults
             \/ Fault
          /\ UNCHANGED body
    /\ UNCHANGED <<targets, issueOpen, labels, ownerComment, audit, files,
                   fresh, disturbances>>

\* resolve_card: the audit comment, then the labels, then the close, and last
\* the claim labels.
ResolveLabels(c) ==
    /\ stage = "resolve" /\ c \in todo \ files.backfill
    /\ \/ /\ labels' = [labels EXCEPT ![c] =
                           (@ \cup {"resolved"}) \ {"needs-decision"}]
          /\ OnCard("resolveClose", c)
          /\ UNCHANGED faults
       \/ Fault /\ DoneWith("resolve", c) /\ UNCHANGED labels
    /\ UNCHANGED <<targets, issueOpen, body, ownerComment, audit, files, fresh,
                   disturbances>>

ResolveClose ==
    /\ stage = "resolveClose"
    /\ issueOpen' = [issueOpen EXCEPT ![cur] = FALSE]
    /\ Goto("resolveRelease")
    /\ UNCHANGED <<targets, labels, body, ownerComment, audit, buf, files,
                   fresh, bounds>>

ResolveRelease ==
    /\ stage = "resolveRelease"
    /\ Enter("resolve", todo)
    /\ \/ Unlabel({cur}) /\ UNCHANGED faults
       \/ Fault /\ UNCHANGED <<labels, fresh>>
    /\ UNCHANGED <<targets, issueOpen, body, ownerComment, audit, files,
                   disturbances>>

ResolveDone == /\ stage = "resolve" /\ todo = {}
               /\ Enter("release", files.releases \ files.merges)
               /\ UNCHANGED <<targets, card, audit, files, fresh, bounds>>

\* clear_audit_intent, its read.  It wants an open card; without a results file
\* it is not called, and a protected card is retained.
ReleaseRead(c) ==
    /\ stage = "release" /\ c \in todo
    /\ \/ /\ files.written /\ issueOpen[c] /\ body[c].audit = "intent"
          /\ stage' = "clear" /\ todo' = todo \ {c} /\ cur' = c
          /\ buf' = body[c]
       \/ /\ IF files.written THEN issueOpen[c] /\ body[c].audit = "none"
                              ELSE ~Protected(c)
          /\ OnCard("drop", c)
       \/ /\ IF files.written THEN ~issueOpen[c] \/ body[c].audit = "pending"
                              ELSE Protected(c)
          /\ DoneWith("release", c)
    /\ UNCHANGED <<targets, card, audit, files, fresh, bounds>>

\* Its write, of the body as it was read.
ClearIntent ==
    /\ stage = "clear"
    /\ \/ /\ WriterAcceptsReview
          /\ body' = [body EXCEPT ![cur] = [buf EXCEPT !.audit = "none"]]
          /\ Goto("drop") /\ buf' = BlankBody
          /\ UNCHANGED faults
       \/ /\ \/ ~WriterAcceptsReview /\ UNCHANGED faults
             \/ Fault
          /\ Enter("release", todo)
          /\ UNCHANGED body
    /\ UNCHANGED <<targets, issueOpen, labels, ownerComment, audit, files,
                   fresh, disturbances>>

\* release_card_claim: re-reads, refuses a protected card, drops the labels.
DropClaim ==
    /\ stage = "drop"
    /\ Enter("release", todo)
    /\ \/ ~Protected(cur) /\ Unlabel({cur}) /\ UNCHANGED faults
       \/ Protected(cur) /\ UNCHANGED <<labels, fresh, faults>>
       \/ Fault /\ UNCHANGED <<labels, fresh>>
    /\ UNCHANGED <<targets, issueOpen, body, ownerComment, audit, files,
                   disturbances>>

ReleaseDone == /\ stage = "release" /\ todo = {}
               /\ Enter("reconcile", files.listed)
               /\ fresh' = [c \in Cards |-> fresh[c] \/ c \in files.releases]
               /\ UNCHANGED <<targets, card, audit, files, bounds>>

-----------------------------------------------------------------------------
(* What "Reconcile the queue" does to these cards.                          *)

\* A pure pending card follows the head the scan saw.
ReconcileRefresh(c) ==
    /\ stage = "reconcile" /\ c \in todo
    /\ issueOpen[c] /\ fresh[c] /\ Refreshable(c)
    /\ files.seen[c] # 0 /\ files.seen[c] # body[c].head
    /\ body' = [body EXCEPT ![c] = [BlankBody EXCEPT !.head = files.seen[c]]]
    /\ labels' = [labels EXCEPT ![c] = @ \ {"manual-merge"}]
    /\ DoneWith("reconcile", c)
    /\ UNCHANGED <<targets, issueOpen, ownerComment, audit, files, fresh, bounds>>

\* Fault: the definitive close ignores the audit records.
MutCloseProtected(c) ==
    /\ stage = "reconcile" /\ c \in todo
    /\ issueOpen[c] /\ fresh[c] /\ files.seen[c] = 0
    /\ labels' = [labels EXCEPT ![c] = (@ \cup {"resolved"}) \ {"needs-decision"}]
    /\ issueOpen' = [issueOpen EXCEPT ![c] = FALSE]
    /\ DoneWith("reconcile", c)
    /\ UNCHANGED <<targets, body, ownerComment, audit, files, fresh, bounds>>

\* A card whose target the scan saw not open is closed, unless an audit record
\* is on it.
ReconcileClose(c) ==
    /\ stage = "reconcile" /\ c \in todo
    /\ issueOpen[c] /\ fresh[c] /\ files.seen[c] = 0 /\ ~Protected(c)
    /\ labels' = [labels EXCEPT ![c] = (@ \cup {"resolved"}) \ {"needs-decision"}]
    /\ issueOpen' = [issueOpen EXCEPT ![c] = FALSE]
    /\ DoneWith("reconcile", c)
    /\ UNCHANGED <<targets, body, ownerComment, audit, files, fresh, bounds>>

ReconcileLeave(c) ==
    /\ stage = "reconcile" /\ c \in todo
    /\ \/ ~(issueOpen[c] /\ fresh[c])
       \/ files.seen[c] = 0 /\ Protected(c)
       \/ files.seen[c] # 0 /\ ~(Refreshable(c) /\ files.seen[c] # body[c].head)
    /\ DoneWith("reconcile", c)
    /\ UNCHANGED <<targets, card, audit, files, fresh, bounds>>

RunEnds == /\ stage = "reconcile" /\ todo = {}
           /\ Enter("idle", {})
           /\ files' = NoFiles
           /\ fresh' = [c \in Cards |-> FALSE]
           /\ UNCHANGED <<targets, card, audit, bounds>>

-----------------------------------------------------------------------------
ClaimStep == \/ ListCards \/ Scan \/ Preclaim
             \/ \E c \in Cards : \/ RecoverStaleClaim(c) \/ KeepIntentClaim(c)
                                 \/ ReadForClaim(c) \/ SkipClaim(c)
                                 \/ ValidateClaim(c)
             \/ LabelClaim \/ ConfirmClaim \/ WriteClaims \/ WriteValidated

ActStep == \/ RecoverIntents(ClosedIntents) \/ RecoverIntents({})
           \/ \E c \in Cards : Evaluate(c)
           \/ StageRead \/ StageWrite \/ StageConfirm \/ G7 \/ Guard
           \/ MergeLands(TRUE) \/ MergeLands(FALSE) \/ MergeRefused
           \/ PendingRead \/ PendingWrite \/ HoldRead \/ HoldWrite
           \/ WriteResults

RecordStep == \/ RecordBegin \/ AppendLedger \/ ResolveClose \/ ResolveRelease
              \/ ResolveDone \/ ClearIntent \/ DropClaim \/ ReleaseDone
              \/ \E c \in Cards : \/ RecordStage(c) \/ ClearClosedIntent(c)
                                  \/ ResolveLabels(c) \/ ReleaseRead(c)

ReconcileStep == \/ RunEnds
                 \/ \E c \in Cards : \/ ReconcileRefresh(c) \/ ReconcileClose(c)
                                     \/ ReconcileLeave(c)

RunStep == ClaimStep \/ ActStep \/ RecordStep \/ ReconcileStep

Next == \/ RunStep
        \/ People
        \/ RunnerLost \/ StepDies \/ CallFails \/ WriteHandoffFails
        \/ \E c \in Cards : TriagePublishes(c)

\* The workflow is started every hour and its steps run to the end unless the
\* runner is lost: the run keeps making steps.
Spec == Init /\ [][Next]_vars /\ WF_vars(RunStep)


-----------------------------------------------------------------------------
(* Properties.                                                              *)

\* Every variable has its type; in a stage that works on one card, cur is it.
TypeOK ==
    /\ prState \in [Cards -> {"open", "merged", "closed"}]
    /\ prHead \in [Cards -> Heads]
    /\ mergedBy \in [Cards -> {"nobody", "wheelhouse", "person"}]
    /\ gates \in [Cards -> BOOLEAN]
    /\ issueOpen \in [Cards -> BOOLEAN]
    /\ labels \in [Cards -> SUBSET Labels]
    /\ body \in [Cards -> Body]
    /\ ownerComment \in [Cards -> BOOLEAN]
    /\ ledger \in Seq(Cards \X Heads)
    /\ recorded \subseteq Cards \X Heads
    /\ appended \in Seq(Cards \X Heads)
    /\ stage \in Stages
    /\ todo \subseteq Cards
    /\ cur \in Cards \cup {NoCard}
    /\ buf \in Body
    /\ files \in Files
    /\ fresh \in [Cards -> BOOLEAN]
    /\ faults \in 0..MaxFaults
    /\ disturbances \in 0..MaxDisturbances

\* A pull request that Wheelhouse merged is accounted for in every state,
\* whatever was interrupted: its ledger row was written, or its card carries
\* the audit record of exactly the merged head, and a completed record also
\* carries the claim label by which pending_audit_records finds it again.
AuditNeverLost ==
    \A c \in Cards : mergedBy[c] = "wheelhouse" =>
        \/ <<c, prHead[c]>> \in recorded
        \/ /\ body[c].head = prHead[c]
           /\ \/ body[c].audit = "intent"
              \/ body[c].audit = "pending" /\ "claim" \in labels[c]

\* The head that Wheelhouse merged is the head on the card, and the card holds
\* an eligible verdict for it: no push slips in between the gates, the final
\* guard and the merge call.
MergedHeadWasVetted ==
    \A c \in Cards : mergedBy[c] = "wheelhouse" =>
        body[c].head = prHead[c] /\ body[c].verdict

\* A card of a pull request that Wheelhouse merged leaves the queue as
\* resolved only after the ledger row exists, be it resolved by the record
\* step or by the reconciler.
ResolvedOnlyAfterLedger ==
    \A c \in Cards : mergedBy[c] = "wheelhouse" /\ "resolved" \in labels[c]
                        => <<c, prHead[c]>> \in recorded

\* The ledger has at most one row per merge, however often a record is
\* retried; its rows are the newest of all that were ever written to it, in
\* their order and without a gap; and a row is gone only because it and rows
\* written after it once exceeded what the ledger holds, in rows or in bytes.
LedgerSound ==
    /\ \A i, j \in 1..Len(ledger) : ledger[i] = ledger[j] => i = j
    /\ ledger = <<>> \/ Fits(ledger)
    /\ \A id \in recorded : \E i \in 1..Len(appended) : appended[i] = id
    /\ \E d \in 0..Len(appended) :
          /\ ledger = From(appended, d)
          /\ \A p \in 1..d : \E e \in p..Len(appended) :
                ~Fits(SubSeq(appended, p, e))

\* Once the owner has commented a decision on the card or closed it, no run
\* merges its pull request any more, unless the merge call is already out: not
\* the run whose reads came before and were refreshed in between, and no later
\* one that finds the claim or the intent.
OwnerStopsTheMerge ==
    \A c \in Cards :
        [](/\ ownerComment[c] \/ ~issueOpen[c]
           /\ mergedBy[c] # "wheelhouse" /\ ~(stage = "put" /\ cur = c)
           => [](mergedBy[c] # "wheelhouse"))

\* A completed audit record reaches the end of its transaction: the ledger row
\* is there and the card is closed, resolved and no longer claimed.
PendingAuditFinishes ==
    \A c \in Cards : body[c].audit = "pending" ~>
        /\ <<c, body[c].head>> \in recorded
        /\ ~issueOpen[c] /\ "claim" \notin labels[c]

\* A claim without an audit record, left by an interrupted run, is given back.
StaleClaimIsReleased ==
    \A c \in Cards : issueOpen[c] /\ Claimed(c) /\ body[c].audit = "none" ~>
        ~(Claimed(c) /\ body[c].audit = "none") \/ ~issueOpen[c]

\* A pull request that only a person may merge does not make its card change
\* hands every hour: if it stays eligible and undecided, the manual-merge hold
\* ends up on the card and the card stays a pure pending one.
ManualHoldEndsReclaims ==
    \A c \in Cards :
        <>[](/\ TargetReady(c, body[c].head) /\ issueOpen[c] /\ body[c].verdict
             /\ ~OwnerActed(c) /\ prHead[c] \in TouchingHeads)
        => <>[](body[c].hold /\ Refreshable(c))

\* What the README promises of an opted-in repository: a pull request that
\* clears every gate, on a pure pending card that nobody touches, does not
\* stay unmerged for ever.
EligibleIsMerged ==
    \A c \in Cards : ~<>[](/\ TargetReady(c, body[c].head)
                           /\ issueOpen[c] /\ body[c].verdict
                           /\ ~OwnerActed(c) /\ prHead[c] \notin TouchingHeads)

-----------------------------------------------------------------------------
(* What it promises.                                                        *)

\* The merge call that is out, and what became of a card's merge.
CallOut == IF stage = "put" THEN cur ELSE NoCard

AccountOf(c) == IF mergedBy[c] # "wheelhouse" THEN "open"
                ELSE IF <<c, prHead[c]>> \in recorded THEN "accounted"
                ELSE "merged"

Audited == INSTANCE AuditedMerge WITH
    call <- CallOut,
    account <- [c \in Cards |-> AccountOf(c)],
    stopped <- {c \in Cards : ownerComment[c]},
    closed <- {c \in Cards : ~issueOpen[c]},
    settled <- {c \in Cards : "resolved" \in labels[c]}

\* The transaction of auto_merge.py is the one of AuditedMerge: no interruption,
\* retry or person makes a call go out for a stopped card, a merge go without
\* its row, or a card leave the queue before.
AuditedSpec == Audited!Spec

-----------------------------------------------------------------------------
(* The inductive invariant behind the safety properties.                    *)

\* The merge of c, if Wheelhouse made it, is in the ledger or is an intent.
Accounted(c) == mergedBy[c] = "wheelhouse" =>
                    Identity(c) \in recorded \/ body[c].audit = "intent"

CandidateStages == {"stageRead", "stageWrite", "stageConfirm", "g7", "guard",
                    "put", "holdRead", "holdWrite"}
PendingStages   == {"pendRead", "pendWrite"}
ActStages       == {"act"} \cup CandidateStages \cup PendingStages
ClaimStages     == {"claim", "label", "confirm", "validate"}
ResolveStages   == {"resolve", "resolveClose", "resolveRelease"}
ReleaseStages   == {"release", "clear", "drop"}
CardStages      == CandidateStages \cup PendingStages \cup
                   {"label", "confirm", "resolveClose", "resolveRelease",
                    "clear", "drop"}

\* A stage that works on one card has one.
CursorInv == stage \in CardStages => cur \in Cards

TypeInv == TypeOK /\ CursorInv

\* A body that was read and will be written back differs at most by a tick.
Rereadable == /\ buf.head = body[cur].head /\ buf.verdict = body[cur].verdict

\* A merged card: what the merge leaves behind and nothing later disturbs.
MergedInv(c) == mergedBy[c] = "wheelhouse" =>
    /\ prState[c] = "merged"
    /\ body[c].head = prHead[c] /\ body[c].verdict
    /\ files.seen[c] \in {0, body[c].head}
    /\ \/ Identity(c) \in recorded
       \/ body[c].audit = "intent"
       \/ body[c].audit = "pending" /\ "claim" \in labels[c]
    /\ "resolved" \in labels[c] => Identity(c) \in recorded

\* The hand-offs start empty, and stay so until the step that fills them.
StartInv ==
    /\ stage \in {"scan", "preclaim"} => files.claims = {} /\ files.valid = {}
    /\ stage \in {"scan", "preclaim"} \cup ClaimStages =>
          files.releases = {} /\ files.holds = {} /\ files.merges = {}

\* The card a claim stage holds never lets go of a completed record.
ClaimInv == /\ stage \in {"label", "confirm"} => Accounted(cur)
            /\ stage \in ClaimStages =>
                  \A c \in files.claims \cup files.valid : Accounted(c)
            /\ stage = "validate" => todo \subseteq files.claims

\* Only merged pull requests get a completed record or a ledger row.
DoneInv ==
    /\ \A id \in recorded : prState[id[1]] = "merged"
    /\ \A c \in files.merges \cup files.backfill \cup files.staged : prState[c] = "merged"
    /\ \A c \in Cards : body[c].audit = "pending" => prState[c] = "merged"
    /\ stage \in PendingStages => prState[cur] = "merged"

\* The candidate of the act step.
CandidateInv ==
    /\ stage \in CandidateStages \cup PendingStages =>
          /\ body[cur].head = files.seen[cur] /\ body[cur].verdict
          /\ cur \notin todo /\ cur \notin files.holds
    /\ stage \in CandidateStages => mergedBy[cur] # "wheelhouse"
    /\ stage \in (CandidateStages \cup PendingStages) \ {"stageRead"} =>
          "claim" \in labels[cur]
    /\ stage \in (CandidateStages \cup PendingStages)
                    \ {"stageRead", "stageWrite"} =>
          body[cur].audit = "intent"
    /\ stage = "put" => "resolved" \notin labels[cur]
    /\ stage \in (CandidateStages \cup PendingStages)
                    \ {"stageRead", "stageWrite", "stageConfirm"} =>
          cur \notin files.releases
    /\ stage \in {"stageWrite", "pendWrite", "holdWrite"} => Rereadable
    /\ stage = "holdWrite" => buf.audit = "intent"

\* The act step's results.
ResultsInv ==
    /\ stage \in ActStages => todo \cap files.holds = {}
    /\ stage \in ActStages \cup {"record"} =>
          /\ \A c \in files.releases : mergedBy[c] = "wheelhouse" =>
                                          Identity(c) \in recorded
          /\ \A c \in files.holds : mergedBy[c] # "wheelhouse"
    /\ stage \in ActStages \cup {"record", "recordStage"} =>
          \A c \in files.merges \ files.backfill : "claim" \in labels[c]

\* The record step: resolved cards are in the ledger, and an intent is cleared
\* only on cards that Wheelhouse did not merge or that are in the ledger.
RecordInv ==
    /\ stage = "recordStage" => todo \subseteq files.merges
    /\ stage \in ResolveStages =>
          /\ todo \subseteq files.staged
          /\ stage # "resolve" => cur \in files.staged
          /\ \A c \in files.staged : Identity(c) \in recorded
    /\ stage \in {"recordStage"} \cup ResolveStages \cup ReleaseStages =>
          (files.written => \A c \in files.releases : mergedBy[c] = "wheelhouse" =>
                                                  Identity(c) \in recorded)
    /\ stage \in ReleaseStages => todo \subseteq files.releases
    /\ stage = "clear" => files.written /\ cur \in files.releases /\ Rereadable

AuditInvariant ==
    /\ TypeInv
    /\ \A c \in Cards : MergedInv(c)
    /\ StartInv /\ ClaimInv /\ DoneInv /\ CandidateInv /\ ResultsInv /\ RecordInv
=============================================================================
