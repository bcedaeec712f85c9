----------------------------- MODULE CardLifecycle -----------------------------
(***************************************************************************)
(* The life of the decision cards of one target: created, refreshed, put    *)
(* into scheduled confirmation, soft-closed, reused or hard-closed by       *)
(* scripts/reconcile.py and the lifecycle part of scripts/render_card.py,   *)
(* with the scheduled epoch of scripts/scheduled_epoch.py.                  *)
(*                                                                         *)
(* Runs exclude each other (concurrency group wheelhouse-backstop).  A run  *)
(* is a scheduled scan, the re-run of one, a manual scan or an ingest.      *)
(* People act between any two of its calls.                                 *)
(*                                                                         *)
(* Epochs are compared by the code only with the current one and the one    *)
(* before, so a card keeps the age of its absence record: the number of     *)
(* epochs since it was written, Old standing for two or more.               *)
(***************************************************************************)
EXTENDS Integers, FiniteSets

CONSTANTS
    MaxCards,      \* bound: cards the target can ever have
    MaxActs,       \* bound: what people do
    MaxReopens,    \* bound: cards that people reopen by hand
    MaxBadScans,   \* bound: scans that fail or are incomplete
    MaxFaults      \* bound: lost runners and failed calls

ASSUME CountsAssumption ==
    /\ MaxCards \in Nat \ {0}
    /\ {MaxActs, MaxReopens, MaxBadScans, MaxFaults} \subseteq Nat

VARIABLES
    targetOpen, wanted,  \* the target: open on GitHub, in the worklist
    cards,         \* the card issues
    indexing,      \* cards whose last change the issue list does not show yet
    stage, kind,   \* where the run is, and what started it
    obs,           \* what the scan says of the target
    qualified,     \* does the run have a scheduled epoch?
    todo, cur,     \* the loop over the listed cards, and the card at hand
    fresh,         \* card = the snapshot of it that the run compares with
    absentNow, absentBefore,  \* history: absence seen in this epoch, the one before
    previous,      \* history: outcome of the scheduled run before this one
    acts, reopens, badScans, faults

target  == <<targetOpen, wanted>>
run     == <<stage, kind, obs, qualified, todo, cur>>
epochs  == <<absentNow, absentBefore>>
bounds  == <<acts, reopens, badScans, faults>>
vars    == <<target, cards, indexing, run, fresh, epochs, previous, bounds>>

Cards  == 1..MaxCards
NoCard == 0
Old    == 2

Labels == {"needs-decision", "resolved", "blocked", "claim", "confirming"}

\* audit: the state block holds an auto-merge intent or a pending record.
\* how: what ended the card, or "live".  "decision" is a decision carried out,
\* "owner" the owner in the GitHub UI; all others are automation.
Card == [st: {"none", "open", "closed"}, labels: SUBSET Labels,
         count: 0..2, age: 0..Old, timely: BOOLEAN, touched: BOOLEAN,
         audit: BOOLEAN,
         how: {"live", "soft", "hard", "decision", "rollback", "owner"}]

NoIssue == [st |-> "none", labels |-> {}, count |-> 0, age |-> 0,
            timely |-> FALSE, touched |-> FALSE, audit |-> FALSE, how |-> "live"]

NewCard == [NoIssue EXCEPT !.st = "open", !.labels = {"needs-decision"}]

\* What the writes do to a card.  Closing a closed card changes nothing.
Ended(r, how)  == IF r.st = "open" THEN [r EXCEPT !.st = "closed", !.how = how]
                                   ELSE r
Consumed(r)    == [r EXCEPT !.labels = (@ \cup {"resolved"}) \ {"needs-decision"}]
Claimed(r)     == [r EXCEPT !.labels = @ \cup {"claim"}, !.audit = TRUE]
Released(r)    == [r EXCEPT !.labels = @ \ {"claim"}, !.audit = FALSE]
Merged(r)      == [Consumed(Ended(r, "decision")) EXCEPT !.labels = @ \ {"claim"}]
Blocked(r)     == [r EXCEPT !.labels = @ \cup {"blocked"}]
Reopened(r)    == [r EXCEPT !.st = "open", !.how = "live"]
Activated(r)   == [r EXCEPT !.labels = (@ \cup {"needs-decision"}) \ {"resolved"}]
Started(r)     == [r EXCEPT !.count = 1, !.age = 0, !.timely = FALSE,
                            !.labels = @ \cup {"confirming"}]
Confirmed(r)   == [r EXCEPT !.count = 2, !.age = 0, !.timely = TRUE,
                            !.labels = @ \cup {"confirming"}]
Cleared(r)     == [r EXCEPT !.count = 0, !.age = 0, !.labels = @ \ {"confirming"}]
Shut(r, how)   == IF r.st = "open"
                  THEN Consumed([Ended(r, how) EXCEPT !.touched = FALSE])
                  ELSE Consumed(r)
Touched(r)     == IF r.st = "open" THEN r ELSE [r EXCEPT !.touched = TRUE]

Stages == {"idle", "list", "scan", "epoch", "find", "refresh", "refreshWrite",
           "prepare", "prepareWrite", "prepared", "reopen", "inert", "activate",
           "active", "forceClose", "forceLabels", "create", "created", "rollback",
           "cards", "absentWrite", "secondWrite", "clearWrite", "comment",
           "close"}

\* The stages with a card at hand.
CardStages == Stages \ {"idle", "list", "scan", "epoch", "find", "refresh",
                        "create", "cards"}

IsOpen(c) == cards[c].st = "open"

\* render_card.is_refreshable
Refreshable(c) == /\ "needs-decision" \in cards[c].labels
                  /\ cards[c].labels \cap {"resolved", "blocked", "claim"} = {}

\* A fault: a closed card is reused whatever closed it.
MutReusableUnproved(c) == /\ cards[c].st = "closed"
                          /\ "resolved" \in cards[c].labels
                          /\ cards[c].labels \cap {"needs-decision", "blocked"} = {}
                          /\ cards[c].how # "owner"

\* render_card.reusable_closed_card: closed by automation, with the record of
\* a soft close that was written just before, and nobody touched it since.
Reusable(c) == /\ cards[c].st = "closed" /\ cards[c].how # "owner"
               /\ "resolved" \in cards[c].labels
               /\ cards[c].labels \cap {"needs-decision", "blocked", "claim"} = {}
               /\ ~cards[c].audit
               /\ cards[c].count = 2 /\ cards[c].timely /\ ~cards[c].touched

\* A fault: only pending cards are listed.
MutListsPendingOnly == {c \in Cards : IsOpen(c) /\ Refreshable(c) /\ c \notin indexing}

\* The open cards of the target that the issue list shows.
OpenListed == {c \in Cards : IsOpen(c) /\ c \notin indexing}

\* The ledger of epochs is older than the target.
Init ==
    /\ targetOpen = TRUE /\ wanted = TRUE
    /\ cards = [c \in Cards |-> NoIssue]
    /\ indexing = {}
    /\ stage = "idle" /\ kind = "none" /\ obs = "none" /\ qualified = FALSE
    /\ todo = {} /\ cur = NoCard
    /\ fresh = [c \in Cards |-> FALSE]
    /\ absentNow = FALSE /\ absentBefore = FALSE
    /\ previous = "none"
    /\ acts = 0 /\ reopens = 0 /\ badScans = 0 /\ faults = 0

-----------------------------------------------------------------------------
(* People, and the decision handler between two runs.                       *)

Act == acts < MaxActs /\ acts' = acts + 1
       /\ UNCHANGED <<reopens, badScans, faults>>

\* The target is closed or merged, or opened again.
TargetFlips == /\ Act
               /\ targetOpen' = ~targetOpen
               /\ UNCHANGED <<wanted, cards, indexing, run, fresh, epochs,
                              previous>>

\* The target enters or leaves the set that needs a maintainer.
WantedFlips == /\ Act
               /\ wanted' = ~wanted
               /\ UNCHANGED <<targetOpen, cards, indexing, run, fresh, epochs,
                              previous>>

\* A comment or an edit: the snapshots of the card are stale, and a closed card
\* has human activity after its close.
OwnerTouches(c) ==
    /\ Act
    /\ cards[c].st # "none"
    /\ cards' = [cards EXCEPT ![c] = Touched(@)]
    /\ fresh' = [fresh EXCEPT ![c] = FALSE]
    /\ UNCHANGED <<target, indexing, run, epochs, previous>>

OwnerCloses(c) ==
    /\ Act
    /\ IsOpen(c)
    /\ cards' = [cards EXCEPT ![c] = Ended(@, "owner")]
    /\ fresh' = [fresh EXCEPT ![c] = FALSE]
    /\ UNCHANGED <<target, indexing, run, epochs, previous>>

OwnerReopens(c) ==
    /\ reopens < MaxReopens /\ reopens' = reopens + 1
    /\ cards[c].st = "closed"
    /\ cards' = [cards EXCEPT ![c] = [Reopened(@) EXCEPT !.touched = FALSE]]
    /\ fresh' = [fresh EXCEPT ![c] = FALSE]
    /\ UNCHANGED <<target, indexing, run, epochs, previous, acts, badScans,
                   faults>>

\* A decision on a pending card without an absence record is carried out: the
\* card is consumed, or an error blocks it.
HandlerDecides(c) ==
    /\ Act
    /\ stage = "idle"
    /\ IsOpen(c) /\ Refreshable(c) /\ cards[c].count = 0
    /\ \/ cards' = [cards EXCEPT ![c] = Consumed(Ended(@, "decision"))]
       \/ cards' = [cards EXCEPT ![c] = Blocked(@)]
    /\ UNCHANGED <<target, indexing, run, fresh, epochs, previous>>

\* The auto-merge steps of a run, between its scan and its reconciler: a claim
\* with an audit record on a pending card, which is no longer as it was listed (the
\* writer of this commit refuses it, so that records are of an earlier release) ...
AuditStaged(c) ==
    /\ Act
    /\ stage = "epoch" /\ obs = "present" /\ c \in todo
    /\ IsOpen(c) /\ fresh[c] /\ Refreshable(c)
    /\ cards' = [cards EXCEPT ![c] = Claimed(@)]
    /\ fresh' = [fresh EXCEPT ![c] = FALSE]
    /\ UNCHANGED <<target, indexing, run, epochs, previous>>

\* ... and in that run, in a later one or never, its end: the card is released,
\* and listed again, or resolved with the record on it.
AuditEnds(c) ==
    /\ stage = "epoch" /\ cards[c].audit
    /\ \/ /\ "claim" \in cards[c].labels
          /\ cards' = [cards EXCEPT ![c] = Released(@)]
          /\ fresh' = [fresh EXCEPT ![c] = TRUE]
       \/ /\ ~targetOpen
          /\ cards' = [cards EXCEPT ![c] = Merged(@)]
          /\ fresh' = [fresh EXCEPT ![c] = FALSE]
    /\ UNCHANGED <<target, indexing, run, epochs, previous, bounds>>

\* The issue list catches up with what was created or reopened.
IndexCatchesUp == /\ indexing # {}
                  /\ indexing' = {}
                  /\ UNCHANGED <<target, cards, run, fresh, epochs, previous,
                                 bounds>>

-----------------------------------------------------------------------------
(* Control of the run.                                                      *)

Fault == faults < MaxFaults /\ faults' = faults + 1

Goto(s) == stage' = s /\ UNCHANGED <<kind, obs, qualified, todo, cur>>

GotoCard(s, c) == stage' = s /\ cur' = c /\ todo' = todo \ {c}
                  /\ UNCHANGED <<kind, obs, qualified>>

\* The run ends; a scheduled one leaves its outcome behind.
EndRun(outcome) ==
    /\ stage' = "idle" /\ kind' = "none" /\ obs' = "none" /\ qualified' = FALSE
    /\ todo' = {} /\ cur' = NoCard
    /\ previous' = IF kind \in {"scheduled", "rerun"} THEN outcome ELSE previous

\* The item of the worklist is done, and with it the run: no other loop
\* touches a card whose target is in the worklist.
ItemDone == EndRun(obs)

\* On with the next listed card.
NextCard == /\ stage' = "cards" /\ cur' = NoCard
            /\ UNCHANGED <<kind, obs, qualified, todo>>

RunnerLost == /\ stage # "idle"
              /\ Fault
              /\ EndRun("failed")
              /\ UNCHANGED <<target, cards, indexing, fresh, epochs, acts,
                             reopens, badScans>>

\* The issue list has caught up by the time another run starts.
StartRun(k) == /\ stage = "idle" /\ indexing = {}
               /\ kind' = k
               /\ stage' = IF k = "ingest" THEN "find" ELSE "list"
               /\ obs' = IF k = "ingest" THEN "present" ELSE "none"
               /\ qualified' = FALSE /\ todo' = {} /\ cur' = NoCard
               /\ UNCHANGED <<target, cards, indexing, fresh, epochs, previous>>

StartScheduled == StartRun("scheduled") /\ UNCHANGED bounds
StartOther     == \E k \in {"rerun", "manual", "ingest"} : Act /\ StartRun(k)

\* cards.json: all open cards, or none if the listing failed.
ListCards ==
    /\ stage = "list"
    /\ stage' = "scan"
    /\ \/ todo' = {c \in Cards : IsOpen(c)} /\ UNCHANGED faults
       \/ todo' = {} /\ Fault
    /\ fresh' = [c \in Cards |-> IsOpen(c)]
    /\ UNCHANGED <<target, cards, indexing, kind, obs, qualified, cur, epochs,
                   previous, acts, reopens, badScans>>

\* scan.json: the target is in the worklist, open outside it, not open, or the
\* repository was not read completely.
Scan ==
    /\ stage = "scan"
    /\ stage' = "epoch"
    /\ \/ /\ obs' = IF ~targetOpen THEN "gone"
                    ELSE IF wanted THEN "present" ELSE "absent"
          /\ UNCHANGED badScans
       \/ /\ obs' = "unknown"
          /\ badScans < MaxBadScans /\ badScans' = badScans + 1
    /\ UNCHANGED <<target, cards, indexing, kind, qualified, todo, cur, fresh,
                   epochs, previous, acts, reopens, faults>>

\* The scan step fails: scan.json cannot be loaded, and the reconciler ends
\* before it has asked for an epoch.
ScanStepFails ==
    /\ stage = "scan"
    /\ badScans < MaxBadScans /\ badScans' = badScans + 1
    /\ EndRun("failed")
    /\ UNCHANGED <<target, cards, indexing, fresh, epochs, acts, reopens, faults>>

\* Every absence record grows older by one epoch.
Aged == [c \in Cards |-> IF cards[c].count = 0 \/ cards[c].age = Old THEN cards[c]
                         ELSE [cards[c] EXCEPT !.age = @ + 1]]

\* scheduled_epoch.advance: a scheduled run opens an epoch, the re-run of the
\* run that opened the current one gets it again (that of an older run is like
\* a scheduled run), a manual run gets none.  It can fail before or after the
\* ledger was written.
OpenEpoch ==
    /\ stage = "epoch"
    /\ \/ /\ kind = "scheduled"
          /\ cards' = Aged
          /\ absentBefore' = absentNow
          /\ \/ qualified' = TRUE /\ absentNow' = (obs = "absent") /\ UNCHANGED faults
             \/ qualified' = FALSE /\ absentNow' = FALSE /\ Fault
       \/ /\ kind = "rerun"
          /\ qualified' = TRUE
          /\ absentNow' = (absentNow \/ obs = "absent")
          /\ UNCHANGED <<cards, absentBefore, faults>>
       \/ /\ qualified' = FALSE
          /\ \/ kind = "manual" /\ UNCHANGED faults
             \/ kind # "manual" /\ Fault
          /\ UNCHANGED <<cards, epochs>>
    /\ stage' = IF obs # "present" THEN "cards"
                ELSE IF todo = {} THEN "find" ELSE "refresh"
    /\ UNCHANGED <<target, indexing, kind, obs, todo, cur, fresh, previous, acts,
                   reopens, badScans>>

-----------------------------------------------------------------------------
(* The target is in the worklist: refresh its card, reuse one, create one.  *)

\* Of several rows of one target the last of the listing, newest first, counts.
Row(c) == c \in todo /\ \A d \in todo : c <= d

\* A pure pending card is refreshed when it carries an absence record.
Refresh ==
    /\ stage = "refresh"
    /\ \E c \in Cards :
          /\ Row(c)
          /\ LET stale == fresh[c] /\ IsOpen(c) /\ Refreshable(c) /\ cards[c].count > 0
             IN  \/ stale /\ GotoCard("refreshWrite", c) /\ UNCHANGED previous
                 \/ ~stale /\ ItemDone
    /\ UNCHANGED <<target, cards, indexing, fresh, epochs, bounds>>

\* One PATCH with the complete projection, which has no absence record.
RefreshWrite ==
    /\ stage = "refreshWrite"
    /\ \/ /\ cards' = [cards EXCEPT ![cur] = Cleared(@)]
          /\ UNCHANGED faults
       \/ Fault /\ UNCHANGED cards
    /\ ItemDone
    /\ UNCHANGED <<target, indexing, fresh, epochs, acts, reopens, badScans>>

\* Of several reusable cards the newest is taken.
Candidate(c) == Reusable(c) /\ \A d \in Cards : Reusable(d) => d <= c

\* lookup_card_lifecycle.  One open card is refreshed if something else about it
\* changed; several are an error; without one a closed card is reused.
Find ==
    /\ stage = "find"
    /\ \/ /\ Cardinality(OpenListed) = 1
          /\ \E c \in OpenListed : Refreshable(c) /\ GotoCard("refreshWrite", c)
          /\ UNCHANGED <<fresh, previous, faults>>
       \/ OpenListed # {} /\ ItemDone /\ UNCHANGED <<fresh, faults>>
       \/ /\ OpenListed = {}
          /\ \E c \in Cards : /\ Candidate(c)
                              /\ GotoCard("prepare", c)
                              /\ fresh' = [fresh EXCEPT ![c] = TRUE]
          /\ UNCHANGED <<previous, faults>>
       \/ /\ OpenListed = {} /\ \A c \in Cards : ~Reusable(c)
          /\ Goto("create")
          /\ UNCHANGED <<fresh, previous, faults>>
       \/ Fault /\ ItemDone /\ UNCHANGED fresh
    /\ UNCHANGED <<target, cards, indexing, epochs, acts, reopens, badScans>>

\* reuse_closed_card re-reads the candidate ...
Prepare ==
    /\ stage = "prepare"
    /\ \/ fresh[cur] /\ Reusable(cur) /\ Goto("prepareWrite") /\ UNCHANGED previous
       \/ ~(fresh[cur] /\ Reusable(cur)) /\ ItemDone
    /\ UNCHANGED <<target, cards, indexing, fresh, epochs, bounds>>

\* ... writes the current projection on it while it is closed and verifies it:
\* state and comments are those that were read ...
PrepareWrite ==
    /\ stage = "prepareWrite"
    /\ \/ /\ cards' = [cards EXCEPT ![cur] = Cleared(@)]
          /\ \/ fresh[cur] /\ Goto("prepared") /\ UNCHANGED previous
             \/ ~fresh[cur] /\ ItemDone
          /\ UNCHANGED faults
       \/ Fault /\ ItemDone /\ UNCHANGED cards
    /\ UNCHANGED <<target, indexing, fresh, epochs, acts, reopens, badScans>>

\* ... reads it once more: closed and as prepared.  An edit since then may or
\* may not show.
Prepared ==
    /\ stage = "prepared"
    /\ \/ cards[cur].st = "closed" /\ Goto("reopen") /\ UNCHANGED previous
       \/ (cards[cur].st # "closed" \/ ~fresh[cur]) /\ ItemDone
    /\ UNCHANGED <<target, cards, indexing, fresh, epochs, bounds>>

\* ... and reopens it, still without a decision label.
Reopen ==
    /\ stage = "reopen"
    /\ \/ /\ cards' = [cards EXCEPT ![cur] = Reopened(@)]
          /\ indexing' = indexing \cup {cur}
          /\ \/ Goto("inert") /\ UNCHANGED faults
             \/ Goto("forceClose") /\ Fault
       \/ Goto("forceClose") /\ Fault /\ UNCHANGED <<cards, indexing>>
    /\ UNCHANGED <<target, fresh, epochs, previous, acts, reopens, badScans>>

\* verify_unique_open_card accepts c: by its number it is as written, and the
\* list shows no other open card of the target.  That the list does not show c
\* yet is no objection.
Unique(c) == IsOpen(c) /\ OpenListed \subseteq {c}

\* ... may refuse it: not open, changed, another open card, or an error.
Refuses(c) == \/ (~IsOpen(c) \/ ~fresh[c] \/ ~(OpenListed \subseteq {c}))
                    /\ UNCHANGED faults
              \/ Fault

VerifyInert ==
    /\ stage = "inert"
    /\ \/ Unique(cur) /\ Goto("activate") /\ UNCHANGED faults
       \/ Refuses(cur) /\ Goto("forceClose")
    /\ UNCHANGED <<target, cards, indexing, fresh, epochs, previous, acts,
                   reopens, badScans>>

Activate ==
    /\ stage = "activate"
    /\ \/ /\ cards' = [cards EXCEPT ![cur] = Activated(@)]
          /\ \/ Goto("active") /\ UNCHANGED faults
             \/ Goto("forceClose") /\ Fault
       \/ Goto("forceClose") /\ Fault /\ UNCHANGED cards
    /\ UNCHANGED <<target, indexing, fresh, epochs, previous, acts, reopens,
                   badScans>>

VerifyActive ==
    /\ stage = "active"
    /\ \/ Unique(cur) /\ ItemDone /\ UNCHANGED faults
       \/ Refuses(cur) /\ Goto("forceClose") /\ UNCHANGED previous
    /\ UNCHANGED <<target, cards, indexing, fresh, epochs, acts, reopens,
                   badScans>>

\* _force_close_reused_card: the close, and whatever came of it the labels.
ForceClose ==
    /\ stage = "forceClose"
    /\ Goto("forceLabels")
    /\ \/ /\ cards' = [cards EXCEPT ![cur] = Ended(@, "rollback")]
          /\ UNCHANGED faults
       \/ Fault /\ UNCHANGED cards
    /\ UNCHANGED <<target, indexing, fresh, epochs, previous, acts, reopens,
                   badScans>>

ForceLabels ==
    /\ stage = "forceLabels"
    /\ \/ /\ cards' = [cards EXCEPT ![cur] = Consumed(@)]
          /\ UNCHANGED faults
       \/ Fault /\ UNCHANGED cards
    /\ ItemDone
    /\ UNCHANGED <<target, indexing, fresh, epochs, acts, reopens, badScans>>

\* _create_card.  The answer may be lost, and the card stays as it is.  With all
\* MaxCards issues in use it fails.
Create ==
    /\ stage = "create"
    /\ \/ \E c \in Cards :
             /\ cards[c].st = "none"
             /\ \A d \in 1..(c - 1) : cards[d].st # "none"
             /\ cards' = [cards EXCEPT ![c] = NewCard]
             /\ indexing' = indexing \cup {c}
             /\ fresh' = [fresh EXCEPT ![c] = TRUE]
             /\ \/ GotoCard("created", c) /\ UNCHANGED <<previous, faults>>
                \/ ItemDone /\ Fault
       \/ ItemDone /\ Fault /\ UNCHANGED <<cards, indexing, fresh>>
       \/ /\ \A c \in Cards : cards[c].st # "none"
          /\ ItemDone /\ UNCHANGED <<cards, indexing, fresh, faults>>
    /\ UNCHANGED <<target, epochs, acts, reopens, badScans>>

\* A new card is rolled back for what was read of it, if it cannot be read, or
\* for another open card; an incomplete list retains it.
VerifyCreated ==
    /\ stage = "created"
    /\ \/ Unique(cur) /\ ItemDone /\ UNCHANGED faults
       \/ /\ ~IsOpen(cur) \/ ~fresh[cur] \/ ~(OpenListed \subseteq {cur})
          /\ Goto("rollback") /\ UNCHANGED <<previous, faults>>
       \/ Fault /\ Goto("rollback") /\ UNCHANGED previous
       \/ Fault /\ ItemDone
    /\ UNCHANGED <<target, cards, indexing, fresh, epochs, acts, reopens,
                   badScans>>

\* Fault: the labels are changed, and the card stays open.
MutRollbackLeavesOpen ==
    /\ stage = "rollback"
    /\ ItemDone
    /\ cards' = [cards EXCEPT ![cur] = Consumed(@)]
    /\ UNCHANGED <<target, indexing, fresh, epochs, bounds>>

\* _rollback_created_card: only a card that is still the created one.
Rollback ==
    /\ stage = "rollback"
    /\ ItemDone
    /\ \/ /\ IsOpen(cur)
          /\ cards' = [cards EXCEPT ![cur] = Consumed(Ended(@, "rollback"))]
          /\ UNCHANGED faults
       \/ (~IsOpen(cur) \/ ~fresh[cur]) /\ UNCHANGED <<cards, faults>>
       \/ Fault /\ UNCHANGED cards
       \/ /\ Fault /\ IsOpen(cur)
          /\ cards' = [cards EXCEPT ![cur] = Ended(@, "rollback")]
    /\ UNCHANGED <<target, indexing, fresh, epochs, acts, reopens, badScans>>

-----------------------------------------------------------------------------
(* The target is not in the worklist: the listed cards, one by one.         *)

\* Fault: any later absence confirms.
MutAnyLaterAbsence(c) == cards[c].count # 0

\* Fault: the epoch of the record is one that confirms it.
MutSameEpochConfirms(c) == cards[c].count # 0 /\ cards[c].age # Old

\* The record of c is confirmed by an absence in this epoch.
Confirms(c) == cards[c].count # 0 /\ cards[c].age = 1

\* The first absence, or one that is not next to the recorded one.
Starts(c) == \/ cards[c].count = 0
             \/ cards[c].count = 1 /\ cards[c].age # 1
             \/ cards[c].count = 2 /\ cards[c].age = Old

\* Fault: a record that is out of date is not started again.
MutNeverRestarts(c) ==
    /\ stage = "cards" /\ c \in todo /\ obs = "absent"
    /\ \/ /\ qualified /\ IsOpen(c) /\ fresh[c] /\ Refreshable(c)
          /\ \/ cards[c].count = 0 /\ GotoCard("absentWrite", c)
             \/ Confirms(c) /\ GotoCard("secondWrite", c)
       \/ /\ ~(/\ qualified /\ IsOpen(c) /\ fresh[c] /\ Refreshable(c)
                /\ (cards[c].count = 0 \/ Confirms(c)))
          /\ todo' = todo \ {c}
          /\ UNCHANGED <<stage, kind, obs, qualified, cur>>
    /\ UNCHANGED <<target, cards, indexing, fresh, epochs, previous, bounds>>

\* An open target outside the worklist.
Absent(c) ==
    /\ stage = "cards" /\ c \in todo /\ obs = "absent"
    /\ \/ /\ qualified /\ IsOpen(c) /\ fresh[c] /\ Refreshable(c) /\ ~cards[c].audit
          /\ \/ Starts(c) /\ GotoCard("absentWrite", c)
             \/ Confirms(c) /\ GotoCard("secondWrite", c)
             \/ ~Starts(c) /\ ~Confirms(c) /\ GotoCard("comment", c)
          /\ cards' = IF Starts(c) \/ Confirms(c) THEN cards
                      ELSE [cards EXCEPT ![c] = [@ EXCEPT !.timely = FALSE]]
       \/ /\ ~(/\ qualified /\ IsOpen(c) /\ fresh[c] /\ Refreshable(c)
               /\ ~cards[c].audit)
          /\ todo' = todo \ {c}
          /\ UNCHANGED <<stage, kind, obs, qualified, cur, cards>>
    /\ UNCHANGED <<target, indexing, fresh, epochs, previous, bounds>>

\* Fault: a restart counts on.
MutCountsOn ==
    /\ stage = "absentWrite"
    /\ NextCard
    /\ cards' = [cards EXCEPT ![cur] = [Started(@) EXCEPT !.count = cards[cur].count + 1]]
    /\ UNCHANGED <<target, indexing, fresh, epochs, previous, bounds>>

\* update_reconcile_absence with count 1.
AbsentWrite ==
    /\ stage = "absentWrite"
    /\ NextCard
    /\ \/ /\ cards' = [cards EXCEPT ![cur] = Started(@)]
          /\ UNCHANGED faults
       \/ Fault /\ UNCHANGED cards
    /\ UNCHANGED <<target, indexing, fresh, epochs, previous, acts, reopens,
                   badScans>>

\* update_reconcile_absence with count 2 and the provenance of the soft close,
\* verified by the writer and by the reconciler.
SecondWrite ==
    /\ stage = "secondWrite"
    /\ \/ /\ cards' = [cards EXCEPT ![cur] = Confirmed(@)]
          /\ \/ fresh[cur] /\ Goto("comment")
             \/ ~fresh[cur] /\ NextCard
          /\ UNCHANGED faults
       \/ /\ Fault /\ NextCard
          /\ \/ UNCHANGED cards
             \/ cards' = [cards EXCEPT ![cur] = Confirmed(@)]
    /\ UNCHANGED <<target, indexing, fresh, epochs, previous, acts, reopens,
                   badScans>>

\* Fault: only a pending card is closed.
MutGonePendingOnly(c) ==
    /\ stage = "cards" /\ c \in todo /\ obs = "gone"
    /\ \/ /\ IsOpen(c) /\ fresh[c] /\ Refreshable(c)
          /\ GotoCard(IF cards[c].count > 0 THEN "clearWrite" ELSE "comment", c)
       \/ /\ ~(IsOpen(c) /\ fresh[c] /\ Refreshable(c))
          /\ todo' = todo \ {c} /\ UNCHANGED <<stage, kind, obs, qualified, cur>>
    /\ UNCHANGED <<target, cards, indexing, fresh, epochs, previous, bounds>>

\* A target that is not open: a card in whatever state is closed, unless an
\* audit record is on it, and an absence record on it is cleared first.
Gone(c) ==
    /\ stage = "cards" /\ c \in todo /\ obs = "gone"
    /\ \/ /\ IsOpen(c) /\ fresh[c] /\ ~cards[c].audit
          /\ GotoCard(IF cards[c].count > 0 THEN "clearWrite" ELSE "comment", c)
       \/ /\ ~(IsOpen(c) /\ fresh[c] /\ ~cards[c].audit)
          /\ todo' = todo \ {c} /\ UNCHANGED <<stage, kind, obs, qualified, cur>>
    /\ UNCHANGED <<target, cards, indexing, fresh, epochs, previous, bounds>>

\* clear_reconcile_absence, verified by the writer and by the reconciler.
ClearWrite ==
    /\ stage = "clearWrite"
    /\ \/ /\ cards' = [cards EXCEPT ![cur] = Cleared(@)]
          /\ \/ fresh[cur] /\ Goto("comment")
             \/ ~fresh[cur] /\ NextCard
          /\ UNCHANGED faults
       \/ Fault /\ NextCard /\ UNCHANGED cards
    /\ UNCHANGED <<target, indexing, fresh, epochs, previous, acts, reopens,
                   badScans>>

\* close_card comments and re-reads: open, and one comment more than before.
CloseComment ==
    /\ stage = "comment"
    /\ \/ IsOpen(cur) /\ fresh[cur] /\ Goto("close") /\ UNCHANGED faults
       \/ ~(IsOpen(cur) /\ fresh[cur]) /\ NextCard /\ UNCHANGED faults
       \/ Fault /\ NextCard
    /\ UNCHANGED <<target, cards, indexing, fresh, epochs, previous, acts,
                   reopens, badScans>>

\* One PATCH closes and relabels.  Its answer may be lost.
Closed == [cards EXCEPT ![cur] = Shut(@, IF obs = "gone" THEN "hard" ELSE "soft")]

CloseCard ==
    /\ stage = "close"
    /\ NextCard
    /\ \/ cards' = Closed /\ UNCHANGED faults
       \/ cards' = Closed /\ Fault
       \/ Fault /\ UNCHANGED cards
    /\ UNCHANGED <<target, indexing, fresh, epochs, previous, acts, reopens,
                   badScans>>

CardsDone == /\ stage = "cards" /\ (todo = {} \/ obs = "unknown")
             /\ EndRun(obs)
             /\ UNCHANGED <<target, cards, indexing, fresh, epochs, bounds>>

-----------------------------------------------------------------------------
People == \/ TargetFlips \/ WantedFlips
          \/ \E c \in Cards : \/ OwnerTouches(c) \/ OwnerCloses(c)
                              \/ OwnerReopens(c) \/ HandlerDecides(c)

AuditStep == \E c \in Cards : AuditStaged(c) \/ AuditEnds(c)

ItemStep == \/ Refresh \/ RefreshWrite \/ Find \/ Prepare \/ PrepareWrite
            \/ Prepared \/ Reopen \/ VerifyInert \/ Activate \/ VerifyActive
            \/ ForceClose \/ ForceLabels \/ Create \/ VerifyCreated \/ Rollback

CloseStep == \/ \E c \in Cards : Absent(c) \/ Gone(c)
             \/ AbsentWrite \/ SecondWrite \/ ClearWrite \/ CloseComment
             \/ CloseCard \/ CardsDone

RunStep == \/ StartScheduled \/ ListCards \/ Scan \/ OpenEpoch
           \/ ItemStep \/ CloseStep

Next == \/ RunStep \/ People \/ AuditStep
        \/ StartOther \/ IndexCatchesUp \/ RunnerLost \/ ScanStepFails

\* The scan is scheduled every hour and its steps run; the list catches up.
Spec == Init /\ [][Next]_vars /\ WF_vars(RunStep) /\ WF_vars(IndexCatchesUp)

-----------------------------------------------------------------------------
(* Properties.                                                              *)

\* Every variable has its type.
TypeOK ==
    /\ targetOpen \in BOOLEAN /\ wanted \in BOOLEAN
    /\ cards \in [Cards -> Card]
    /\ indexing \subseteq Cards
    /\ stage \in Stages
    /\ kind \in {"none", "scheduled", "rerun", "manual", "ingest"}
    /\ obs \in {"none", "present", "absent", "gone", "unknown"}
    /\ qualified \in BOOLEAN
    /\ todo \subseteq Cards
    /\ cur \in Cards \cup {NoCard}
    /\ stage \in CardStages => cur \in Cards
    /\ fresh \in [Cards -> BOOLEAN]
    /\ absentNow \in BOOLEAN /\ absentBefore \in BOOLEAN
    /\ previous \in {"none", "present", "absent", "gone", "unknown", "failed"}
    /\ acts \in 0..MaxActs /\ reopens \in 0..MaxReopens
    /\ badScans \in 0..MaxBadScans /\ faults \in 0..MaxFaults

\* A card is soft-closed only when a complete scheduled scan saw the target
\* open outside the worklist in this epoch and in the epoch just before:
\* neither the re-run of a scan nor a manual run is counted as a second
\* observation, and no stale record of an earlier absence is.
SoftCloseIsTwiceObserved ==
    [][\A c \in Cards : cards[c].how # "soft" /\ cards'[c].how = "soft"
                           => absentNow /\ absentBefore]_vars

\* The run reopens only a card that it had soft-closed: not one that the owner
\* closed, that a decision consumed, that was rolled back, or that was closed
\* with its target; unless somebody interferes with the card in this very run.
ReopensOnlySoftClosed ==
    [][\A c \in Cards : stage = "reopen" /\ cur = c /\ fresh[c] /\ ~IsOpen(c)
                           /\ cards'[c].st = "open"
                           => cards[c].how = "soft"]_vars

\* The queue never shows two pending decisions for one target, as long as
\* nobody reopens a card by hand.
AtMostOnePending ==
    reopens = 0 =>
        \A c, d \in Cards : /\ IsOpen(c) /\ "needs-decision" \in cards[c].labels
                            /\ IsOpen(d) /\ "needs-decision" \in cards[d].labels
                            => c = d

\* A target that stays closed keeps no open card, in whatever state the card
\* was left; but for one with an audit record, which only auto-merge may finish.
GoneIsClosed ==
    <>[]~targetOpen => <>[](\A c \in Cards : IsOpen(c) => cards[c].audit)

\* A target that stays outside the worklist keeps no pending card.
AbsentIsConsumed ==
    <>[](targetOpen /\ ~wanted) =>
        <>[](\A c \in Cards : ~(IsOpen(c) /\ Refreshable(c)))

\* The queue is the issue list: a target that stays in the worklist has, in
\* the end, an open card that is pending or blocked.
WantedIsQueued ==
    <>[](targetOpen /\ wanted) =>
        <>[](\E c \in Cards : IsOpen(c) /\ "needs-decision" \in cards[c].labels)

\* The same for behaviours in which no call fails, no runner is lost, and no
\* card is reopened by hand, as long as there are issues to create.
WantedIsQueuedUndisturbed ==
    /\ [](faults = 0 /\ reopens = 0 /\ \E c \in Cards : cards[c].st = "none")
    /\ <>[](targetOpen /\ wanted)
    => <>[](\E c \in Cards : IsOpen(c) /\ "needs-decision" \in cards[c].labels)

\* What the README says of the epochs: a scheduled observation that is not a
\* complete absence, a failed one too, breaks the adjacency, so the scheduled
\* run before the one that soft-closes saw the absence as well.
FailedScanBreaksAdjacency ==
    [][\A c \in Cards : cards[c].how # "soft" /\ cards'[c].how = "soft"
                           => previous = "absent"]_vars

-----------------------------------------------------------------------------
(* The invariant behind SoftCloseIsTwiceObserved.                           *)

\* What an absence record says was observed.
RecordIsTrue(c) ==
    /\ cards[c].count >= 1 /\ cards[c].age = 0 => absentNow
    /\ cards[c].count >= 1 /\ cards[c].age = 1 => absentBefore
    /\ cards[c].count = 2 /\ cards[c].age = 0 => absentBefore

\* The card that is about to be written or closed, and why.
AbsenceInHand ==
    /\ stage \in {"absentWrite", "secondWrite"} => obs = "absent"
    /\ stage = "clearWrite" => obs = "gone"
    /\ stage \in {"comment", "close"} => obs \in {"absent", "gone"}
    /\ stage = "cards" /\ obs = "absent" /\ qualified => absentNow
    /\ stage \in {"absentWrite", "secondWrite"} => absentNow
    /\ stage = "secondWrite" => absentBefore
    /\ stage \in {"comment", "close"} /\ obs = "absent" => absentNow /\ absentBefore

AbsenceInvariant == (\A c \in Cards : RecordIsTrue(c)) /\ AbsenceInHand
=============================================================================
