----------------------------- MODULE TriageQueue -----------------------------
(***************************************************************************)
(* The automatic triage of one pull request: a scan (reconcile.py) holds    *)
(* the new card back, buys one unit of the daily budget, writes the card as *)
(* queued and dispatches triage.yml, whose run claims the exact review      *)
(* context, calls the model and puts the result on the card.  The owner may *)
(* run an ended run again, and replay an attempt (triage_replay.py).        *)
(*                                                                         *)
(* Scans, triage runs and replays share the concurrency group               *)
(* wheelhouse-backstop, so one job at a time; the target moves and people   *)
(* touch the card between any two calls of a job.  The model harness is     *)
(* claude, the default, and VISION.md is present: a base stands for base    *)
(* and VISION.md together.  Heads only move forward.                        *)
(***************************************************************************)
EXTENDS Integers, FiniteSets

CONSTANTS
    AttemptCap,       \* triage_attempt_cap_per_revision
    ContextAllowance, \* triage_context_refresh_allowance
    Ceiling,          \* triage_daily_ceiling
    MaxMoves,    \* bound: what the target does: pushes, base moves, new facts
    MaxDays,     \* bound: midnights
    MaxActs,     \* bound: what people do to the card
    MaxFaults,   \* bound: failed calls, lost answers, lost runners
    MaxAgain,    \* bound: ended triage runs the owner starts again
    MaxReplays,  \* bound: replays the owner starts
    MaxTurns     \* bound: all of these but replays together

\* The ranges of wheelhouse_core._triage_attempt_cap and its neighbours
ASSUME TriageAssumption ==
    /\ AttemptCap \in 1..5
    /\ ContextAllowance \in 0..5
    /\ Ceiling \in 1..2000
    /\ {MaxMoves, MaxDays, MaxActs, MaxFaults, MaxAgain, MaxReplays, MaxTurns}
           \subseteq Nat

VARIABLES
    pr,       \* the pull request: head, base and facts
    day,      \* the UTC day
    ledger,   \* the budget issue: its day, and the units used on it
    card,     \* the card issue
    results,  \* durable result comments on the card, and those not projected
    claims,   \* claim comments on the card
    runs,     \* dispatched triage runs that wait for the group
    ended,    \* triage runs that were started
    job,      \* the job that has the group
    units,    \* history: units granted, by day
    calls,    \* history: primary model calls, by head
    spent     \* what is left of each bound

triageHistory == <<units, calls>>
triageVars == <<pr, day, ledger, card, results, claims, runs, ended, job,
                triageHistory, spent>>

None  == -1
Moves == 0..MaxMoves
Days  == 0..MaxDays

\* A ReviewObservation is known by what it observed, and whether completely.
\* It is also the queued admission context, whose identity names it.
Obs   == [head: Moves, base: Moves, facts: Moves, whole: BOOLEAN]
NoObs == [head |-> None, base |-> None, facts |-> None, whole |-> FALSE]

\* A triage run as dispatched: the queued context, and whether its recovery
\* token is that of a policy backfill; n tells dispatches apart.
Runs  == [n: Nat, ctx: Obs, rec: BOOLEAN]
NoRun == [n |-> None, ctx |-> NoObs, rec |-> FALSE]
Key(r) == [ctx |-> r.ctx, rec |-> r.rec]
Keys   == [ctx: Obs, rec: BOOLEAN]

\* What a result says: a valid or corrected result, one that is advisory only,
\* or an error and its message.  Model output is told apart by its run.
Errors == {"empty", "rejected", "stale", "duplicate", "unfinished",
           "undispatched"}
Outs   == {"valid", "advisory"} \cup Errors
Results  == [head: Moves, out: Outs, basis: Obs \cup {NoObs}, n: Nat]
NoResult == [head |-> None, out |-> "empty", basis |-> NoObs, n |-> 0]

\* rebound is the observation an admitted assessment was admitted on; backfill
\* is the context of the policy's marker.
Card == [place: {"absent", "pending", "decided"}, held: BOOLEAN,
         obs: Obs \cup {NoObs}, triaged: Moves \cup {None},
         tbase: Moves \cup {None},
         status: {"none", "queued", "succeeded", "error"},
         attempts: Nat, uses: SUBSET Moves, ctx: Obs \cup {NoObs},
         rebound: Obs \cup {NoObs}, shown: Results \cup {NoResult}, replayed: BOOLEAN,
         backfill: Obs \cup {NoObs}]

NoCard == [place |-> "absent", held |-> FALSE, obs |-> NoObs,
           triaged |-> None, tbase |-> None, status |-> "none",
           attempts |-> 0, uses |-> {}, ctx |-> NoObs, rebound |-> NoObs,
           shown |-> NoResult, replayed |-> FALSE,
           backfill |-> NoObs]

\* Active claims, those whose comment ended plainly (no error code), those
\* superseded, whether some superseded comment cannot be trusted, claims and
\* records written since the replay marker, claimed correction turns.
Claims == [active: SUBSET Keys, plain: SUBSET Keys, superseded: SUBSET Keys,
           tainted: BOOLEAN, late: SUBSET Keys, turns: SUBSET Keys]

Plans == {"none", "error", "absent", "advisory", "drift", "reentry",
          "backfill"}

Stages == {"idle", "recover", "refresh", "gate", "reserve", "defer", "commit",
           "dispatch", "clear", "persist", "project", "settle", "admit",
           "claim", "model", "correct", "consume", "rescue", "finish",
           "supersede"}

\* seen: the observation the job works with; moved: people touched the card
\* since the job's snapshot of it; coded: the model's first answer failed with
\* an error code; why: whose result is being published.
Job  == [at: Stages, seen: Obs \cup {NoObs}, moved: BOOLEAN,
         run: Runs \cup {NoRun}, coded: BOOLEAN, res: Results \cup {NoResult},
         why: {"none", "recovered", "undispatched", "denied", "consumed",
               "rescued"},
         plan: Plans]
Idle == [at |-> "idle", seen |-> NoObs, moved |-> FALSE, run |-> NoRun,
         coded |-> FALSE, res |-> NoResult, why |-> "none", plan |-> "none"]

Live == [head |-> pr.head, base |-> pr.base, facts |-> pr.facts,
         whole |-> TRUE]

\* Bounds are spent as records of what is left.
Left == [moves: 0..MaxMoves, days: Days, acts: 0..MaxActs, faults: 0..MaxFaults,
         again: 0..MaxAgain, replays: 0..MaxReplays, turns: 0..MaxTurns]

TriageInit ==
    /\ pr = [head |-> 0, base |-> 0, facts |-> 0]
    /\ day = 0
    /\ ledger = [day |-> 0, used |-> 0]
    /\ card = NoCard
    /\ results = [kept |-> {}, open |-> {}]
    /\ claims = [active |-> {}, plain |-> {}, superseded |-> {},
                 tainted |-> FALSE, late |-> {}, turns |-> {}]
    /\ runs = {} /\ ended = {}
    /\ job = Idle
    /\ units = [d \in Days |-> 0]
    /\ calls = [h \in Moves |-> 0]
    /\ spent = [moves |-> MaxMoves, days |-> MaxDays, acts |-> MaxActs,
                faults |-> MaxFaults, again |-> MaxAgain,
                replays |-> MaxReplays, turns |-> MaxTurns]

-----------------------------------------------------------------------------
(* What the card says *)

Pending == card.place = "pending"

QueuedFor(c, h) == c.triaged = h /\ c.status = "queued"

\* An admitted assessment lost its observation on an unchanged head.
Drifted(c, o) ==
    /\ ~c.held
    /\ c.rebound # NoObs
    /\ c.rebound # c.obs
    /\ c.obs = o
    /\ o.whole

\* This revision and base were tried already.
Fresh(c, o) == c.triaged = o.head /\ ~Drifted(c, o) /\ c.tbase = o.base

\* Only the base moved since the last attempt on this head.
ContextMoved(c, o) ==
    /\ c.triaged = o.head
    /\ ~Fresh(c, o)
    /\ c.tbase \notin {None, o.base}

\* A card that records no attempt but was tried has at least one.
Attempts(c, h) ==
    IF c.triaged = h /\ c.attempts = 0 THEN 1 ELSE c.attempts

ContextAdmits(c, o) ==
    o.base \notin c.uses /\ Cardinality(c.uses) < ContextAllowance

\* A new card is created held, a held card stays held, while this is true.
ShouldHold(o) == o.whole

\* The backfill marker of this plan admits past both budgets.
ShouldTriage(c, o, plan) ==
    /\ ShouldHold(o)
    /\ c.place = "pending"
    /\ c.obs = o
    /\ ~Fresh(c, o)
    /\ \/ plan = "backfill"
       \/ ContextMoved(c, o) /\ ContextAdmits(c, o)
       \/ ~ContextMoved(c, o) /\ Attempts(c, o.head) < AttemptCap

\* The token a run brought still names what the card was queued for, and the
\* target is still there.
TokenHolds(r) ==
    /\ Pending
    /\ QueuedFor(card, r.ctx.head)
    /\ card.ctx = r.ctx
    /\ card.obs = r.ctx
    /\ <<pr.head, pr.base>> = <<r.ctx.head, r.ctx.base>>
    /\ r.rec = (card.backfill = r.ctx)

-----------------------------------------------------------------------------
(* What is written to the card *)

\* render_card.upsert_card: the same head keeps every triage field; a new head
\* drops them.  A held card is published when triage cannot start.
Refreshed(c, o) ==
    LET kept == IF c.obs.head = o.head THEN c
                ELSE [NoCard EXCEPT !.place = c.place, !.held = c.held]
    IN  [kept EXCEPT !.obs = o, !.held = @ /\ ShouldHold(o)]

\* The body a replay prepares before queueing: it clears the cached attempt,
\* records the planned count and leaves its marker.
Prepared(c, plan, o) ==
    CASE plan = "none" -> c
      [] plan = "backfill" ->
           [c EXCEPT !.triaged = None, !.tbase = None, !.status = "none",
                     !.ctx = NoObs, !.rebound = NoObs, !.shown = NoResult,
                     !.backfill = o]
      [] plan = "absent" ->
           [c EXCEPT !.attempts = Attempts(c, o.head), !.replayed = TRUE]
      [] OTHER ->
           [c EXCEPT !.triaged = None, !.status = "none", !.rebound = NoObs,
                     !.shown = NoResult,
                     !.attempts = Attempts(c, o.head)
                                    - (IF plan = "reentry" THEN 1 ELSE 0),
                     !.replayed = TRUE]

\* body_with_triage_queued: one budget or the other pays, a backfill neither.
Queued(c, o, plan) ==
    LET moved == ContextMoved(c, o)
    IN  [c EXCEPT !.triaged = o.head, !.tbase = o.base, !.status = "queued",
                  !.ctx = o, !.rebound = NoObs, !.shown = NoResult,
                  !.uses = IF moved /\ plan # "backfill"
                           THEN @ \cup {o.base} ELSE @,
                  !.attempts = IF moved \/ plan = "backfill" THEN @
                               ELSE Attempts(c, o.head) + 1]

\* Mutant: the deferral forgets the attempts with the attempt.
DeferredAnew(c) ==
    [c EXCEPT !.held = FALSE, !.triaged = None, !.tbase = None,
              !.status = "none", !.attempts = 0]

\* body_with_triage_budget_deferred
Deferred(c) ==
    [c EXCEPT !.held = FALSE, !.triaged = None, !.tbase = None,
              !.status = "none"]

\* clear_triage_queued: the placeholder of a held card stays.
Cleared(c) == [c EXCEPT !.triaged = None, !.status = "none"]

\* assessment_admission.admit_assessment: valid output, of a review of exactly
\* the complete observation the card stores now.
Admits(c, res) ==
    res.out = "valid" /\ res.basis = c.obs /\ c.obs.whole

\* update_card_triage publishes a held card in the same edit.
Projected(c, res, base) ==
    [c EXCEPT !.held = FALSE, !.triaged = res.head, !.shown = res,
              !.status = IF res.out \in Errors THEN "error" ELSE "succeeded",
              !.tbase = IF base = None THEN @ ELSE base,
              !.rebound = IF Admits(c, res) THEN c.obs ELSE NoObs]

-----------------------------------------------------------------------------
(* The target, the calendar and people *)

Budget(b) == spent[b] > 0 /\ spent.turns > 0
Spend(b)  == spent' = [spent EXCEPT ![b] = @ - 1, !.turns = @ - 1]

TargetMoves ==
    /\ Budget("moves") /\ Spend("moves")
    /\ \E part \in {"head", "base", "facts"} :
          pr' = [pr EXCEPT ![part] = @ + 1]
    /\ UNCHANGED <<day, ledger, card, results, claims, runs, ended, job,
                   triageHistory>>

Midnight ==
    /\ Budget("days") /\ Spend("days")
    /\ day' = day + 1
    /\ UNCHANGED <<pr, ledger, card, results, claims, runs, ended, job,
                   triageHistory>>

\* A tick, a label or a comment, and with it perhaps the decision.
TouchCard ==
    /\ Pending
    /\ Budget("acts") /\ Spend("acts")
    /\ \E place \in {"pending", "decided"} :
          /\ place = "decided" \/ job # Idle
          /\ card' = [card EXCEPT !.place = place]
    /\ job' = IF job.at = "idle" THEN job ELSE [job EXCEPT !.moved = TRUE]
    /\ UNCHANGED <<pr, day, ledger, results, claims, runs, ended,
                   triageHistory>>

\* A call of a job is answered, or its answer is lost before or after its
\* effect.
Outcomes == {"done"} \cup (IF Budget("faults") THEN {"failed", "landed"} ELSE {})
Answered(o) ==
    IF o = "done" THEN UNCHANGED spent ELSE Spend("faults")

Go(stage) == job' = [job EXCEPT !.at = stage]
End       == job' = Idle

LostRunner ==
    /\ job # Idle
    /\ Budget("faults") /\ Spend("faults")
    /\ End
    /\ UNCHANGED <<pr, day, ledger, card, results, claims, runs, ended,
                   triageHistory>>

-----------------------------------------------------------------------------
(* A result reaches the card: update_card_triage *)

\* Where the caller goes on: when the card took the result, when the writer
\* returned False, and when it raised.
Applied(why) ==
    IF why = "consumed" THEN "rescue"
    ELSE IF why = "rescued" THEN "finish" ELSE "idle"
Skipped(why) ==
    IF why = "recovered" THEN "refresh"
    ELSE IF why = "undispatched" THEN "clear" ELSE Applied(why)
Raised(why) == IF why = "undispatched" THEN "clear" ELSE Applied(why)

Return(stage) ==
    IF stage = "idle" THEN End
    ELSE job' = [job EXCEPT !.at = stage, !.res = NoResult, !.why = "none"]

Publish(res, why) ==
    job' = [job EXCEPT !.at = "persist", !.res = res, !.why = why]

NeedsQueued == job.why \in {"recovered", "denied"}

\* assessment_record.persist: a comment of the same identity is reused.
WithResult(res) ==
    IF res \in results.kept THEN results
    ELSE [kept |-> results.kept \cup {res}, open |-> results.open \cup {res}]

\* The durable comment comes before the card.
Persist ==
    /\ job.at = "persist"
    /\ \/ /\ ~(Pending /\ (NeedsQueued => QueuedFor(card, job.res.head)))
          /\ Return(Skipped(job.why))
          /\ UNCHANGED <<results, spent>>
       \/ /\ Pending /\ (NeedsQueued => QueuedFor(card, job.res.head))
          /\ \E o \in Outcomes :
                /\ Answered(o)
                /\ results' = IF o = "failed" THEN results
                              ELSE WithResult(job.res)
                /\ IF o = "done" THEN Go("project")
                   ELSE Return(Raised(job.why))
    /\ UNCHANGED <<pr, day, ledger, card, claims, runs, ended, triageHistory>>

\* The card is read again; a base comes only with the consumer's own result.
Project ==
    /\ job.at = "project"
    /\ \/ /\ ~(Pending /\ card.obs.head = job.res.head)
          /\ Return(Skipped(job.why))
          /\ UNCHANGED <<card, spent>>
       \/ /\ Pending /\ card.obs.head = job.res.head
          /\ \E o \in Outcomes :
                /\ Answered(o)
                /\ card' = IF o = "failed" THEN card
                           ELSE Projected(card, job.res,
                                    IF job.why = "consumed"
                                    THEN job.res.basis.base ELSE None)
                /\ IF o = "done" THEN Go("settle")
                   ELSE Return(Raised(job.why))
    /\ UNCHANGED <<pr, day, ledger, results, claims, runs, ended,
                   triageHistory>>

\* assessment_record.mark_projected
Settle ==
    /\ job.at = "settle"
    /\ \E o \in Outcomes :
          /\ Answered(o)
          /\ results' = IF o = "failed" THEN results
                        ELSE [results EXCEPT !.open = @ \ {job.res}]
          /\ IF o = "done" THEN Return(Applied(job.why))
             ELSE Return(Raised(job.why))
    /\ UNCHANGED <<pr, day, ledger, card, claims, runs, ended, triageHistory>>

-----------------------------------------------------------------------------
(* The scan: reconcile.py's pass over this card *)

\* The item is what the scan observed, completely or not.
StartScan ==
    /\ job = Idle
    /\ \E whole \in BOOLEAN :
          /\ whole \/ Budget("faults")
          /\ IF whole THEN UNCHANGED spent ELSE Spend("faults")
          /\ job' = [Idle EXCEPT !.seen = [Live EXCEPT !.whole = whole],
                                 !.at = "recover"]
    /\ UNCHANGED <<pr, day, ledger, card, results, claims, runs, ended,
                   triageHistory>>

\* No card yet: it is created held when triage will be queued for it.
CreateCard ==
    /\ job.at = "recover" /\ card.place = "absent"
    /\ \/ /\ card' = [NoCard EXCEPT !.place = "pending", !.obs = job.seen,
                                    !.held = ShouldHold(job.seen)]
          /\ Go("gate")
          /\ UNCHANGED spent
       \/ /\ Budget("faults") /\ Spend("faults")
          /\ End
          /\ UNCHANGED card
    /\ UNCHANGED <<pr, day, ledger, results, claims, runs, ended,
                   triageHistory>>

\* A card the owner decided is not maintained.
LeaveDecided ==
    /\ job.at = "recover" /\ card.place = "decided"
    /\ End
    /\ UNCHANGED <<pr, day, ledger, card, results, claims, runs, ended,
                   triageHistory, spent>>

\* Durable results of the head the scan saw that are not projected yet.  More
\* than one cannot be read.
Unprojected(h) == {r \in results.open : r.head = h}

\* Mutant: a card tried at the head of the result is taken to show it.
ShowsAny(res) == card.triaged = res.head

Shows(res) ==
    card.shown = res /\ card.triaged = res.head
        /\ card.status \in {"succeeded", "error"}

\* recover_pending_assessment_projection: a paid result comes before a new
\* attempt; when the card shows it already, only its comment is settled.
Recover ==
    /\ job.at = "recover" /\ Pending
    /\ \E o \in Outcomes \ {"landed"} :
          /\ Answered(o)
          /\ LET found == IF o = "done" THEN Unprojected(job.seen.head) ELSE {}
             IN  IF /\ Cardinality(found) = 1
                    /\ \E r \in found :
                          Shows(r) \/ QueuedFor(card, job.seen.head)
                 THEN \E r \in found :
                        job' = [job EXCEPT !.at = IF Shows(r) THEN "settle"
                                                  ELSE "persist",
                                           !.res = r, !.why = "recovered"]
                 ELSE Go("refresh")
    /\ UNCHANGED <<pr, day, ledger, card, results, claims, runs, ended,
                   triageHistory>>

\* _matches_snapshot, _queue_card_snapshot_matches: nothing is written over what
\* people did since the card was read.
SnapshotMatches == ~job.moved

\* refresh_needed: the observation rotated, or a held card lost its way out.
RefreshNeeded(o) == card.obs # o \/ (card.held /\ ~ShouldHold(o))

\* upsert_card, by the scan: a card that people touched since the listing is
\* left alone.
Refresh ==
    /\ job.at = "refresh"
    /\ LET needed == Pending /\ RefreshNeeded(job.seen)
       IN  \/ /\ ~SnapshotMatches \/ ~Pending
             /\ End
             /\ UNCHANGED <<card, spent>>
          \/ /\ SnapshotMatches /\ Pending /\ ~needed
             /\ Go("gate")
             /\ UNCHANGED <<card, spent>>
          \/ /\ SnapshotMatches /\ needed
             /\ \E o \in Outcomes \ {"landed"} :
                   /\ Answered(o)
                   /\ card' = IF o = "done" THEN Refreshed(card, job.seen)
                              ELSE card
                   /\ Go("gate")
    /\ UNCHANGED <<pr, day, ledger, results, claims, runs, ended,
                   triageHistory>>

\* maybe_queue_auto_triage, on the card as read for queueing
Gate ==
    /\ job.at = "gate"
    /\ IF SnapshotMatches
          /\ ShouldTriage(Prepared(card, job.plan, job.seen), job.seen, job.plan)
       THEN Go("reserve") ELSE End
    /\ UNCHANGED <<pr, day, ledger, card, results, claims, runs, ended,
                   triageHistory, spent>>

Used == IF ledger.day = day THEN ledger.used ELSE 0

\* A refused unit publishes the card, for a scan; a replay leaves it alone.
Refused == IF job.plan = "none" THEN Go("defer") ELSE End

\* reserve_triage_budget: a unit is granted only when its write verified.
Reserve ==
    /\ job.at = "reserve"
    /\ \/ /\ ~SnapshotMatches
          /\ End
          /\ UNCHANGED <<ledger, units, spent>>
       \/ /\ SnapshotMatches /\ Used >= Ceiling
          /\ Refused
          /\ UNCHANGED <<ledger, units, spent>>
       \/ /\ SnapshotMatches /\ Used < Ceiling
          /\ \E o \in Outcomes :
                /\ Answered(o)
                /\ ledger' = IF o = "failed" THEN ledger
                             ELSE [day |-> day, used |-> Used + 1]
                /\ units' = IF o = "done" THEN [units EXCEPT ![day] = @ + 1]
                            ELSE units
                /\ IF o = "done" THEN Go("commit") ELSE Refused
    /\ UNCHANGED <<pr, day, card, results, claims, runs, ended, calls>>

\* publish_triage_budget_deferral
Defer ==
    /\ job.at = "defer"
    /\ \/ /\ ~SnapshotMatches
          /\ UNCHANGED <<card, spent>>
       \/ /\ SnapshotMatches
          /\ \E o \in Outcomes :
                /\ Answered(o)
                /\ card' = IF o = "failed" THEN card ELSE Deferred(card)
    /\ End
    /\ UNCHANGED <<pr, day, ledger, results, claims, runs, ended,
                   triageHistory>>

\* The queued write, only over the snapshot, and read back before a permit.
Commit ==
    /\ job.at = "commit"
    /\ \/ /\ ~SnapshotMatches
          /\ End
          /\ UNCHANGED <<card, claims, spent>>
       \/ /\ SnapshotMatches
          /\ \E o \in Outcomes :
                /\ Answered(o)
                /\ IF o = "failed" THEN UNCHANGED <<card, claims>>
                   ELSE /\ card' = Queued(Prepared(card, job.plan, job.seen),
                                          job.seen, job.plan)
                        /\ claims' = IF job.plan \in {"none", "backfill"}
                                     THEN claims
                                     ELSE [claims EXCEPT !.late = {}]
                /\ IF o = "done" THEN Go("dispatch") ELSE End
    /\ UNCHANGED <<pr, day, ledger, results, runs, ended, triageHistory>>

\* A dispatch that is refused, or only seems so, publishes the card.
Dispatch ==
    /\ job.at = "dispatch"
    /\ \E o \in Outcomes :
          /\ Answered(o)
          /\ runs' = IF o = "failed" THEN runs
                     ELSE runs \cup {[n |-> Cardinality(runs) + Cardinality(ended),
                                      ctx |-> job.seen,
                                      rec |-> job.plan = "backfill"]}
          /\ IF o = "done" THEN End
             ELSE Publish([head |-> job.seen.head, out |-> "undispatched",
                           basis |-> NoObs, n |-> 0], "undispatched")
    /\ UNCHANGED <<pr, day, ledger, card, results, claims, ended,
                   triageHistory>>

\* clear_triage_queued, when the failure could not be published
Clear ==
    /\ job.at = "clear"
    /\ \/ /\ ~(Pending /\ QueuedFor(card, job.seen.head))
          /\ UNCHANGED <<card, spent>>
       \/ /\ Pending /\ QueuedFor(card, job.seen.head)
          /\ \E o \in Outcomes :
                /\ Answered(o)
                /\ card' = IF o = "failed" THEN card ELSE Cleared(card)
    /\ End
    /\ UNCHANGED <<pr, day, ledger, results, claims, runs, ended,
                   triageHistory>>

-----------------------------------------------------------------------------
(* The triage run: triage.yml with the claude harness *)

StartTriage ==
    /\ job = Idle
    /\ \E r \in runs :
          /\ runs' = runs \ {r} /\ ended' = ended \cup {r}
          /\ job' = [Idle EXCEPT !.at = "admit", !.run = r, !.seen = r.ctx]
    /\ UNCHANGED <<pr, day, ledger, card, results, claims, triageHistory,
                   spent>>

\* The owner starts an ended run again.
RunAgain ==
    /\ Budget("again") /\ Spend("again")
    /\ \E r \in ended : runs' = runs \cup {r} /\ ended' = ended \ {r}
    /\ UNCHANGED <<pr, day, ledger, card, results, claims, job,
                   triageHistory>>

\* Resolve and verify, then verify again before the claim.  A run that stops
\* here writes nothing: the recovery of the claude harness is a later job.
Admit ==
    /\ job.at = "admit"
    /\ \E o \in Outcomes \ {"landed"} :
          /\ Answered(o)
          /\ IF o = "done" /\ TokenHolds(job.run) THEN Go("claim") ELSE End
    /\ UNCHANGED <<pr, day, ledger, card, results, claims, runs, ended,
                   triageHistory>>

ErrorOf(out) == [head |-> job.seen.head, out |-> out, basis |-> NoObs, n |-> 0]
OutputOf(out) == [head |-> job.seen.head, out |-> out, basis |-> job.seen,
                  n |-> job.run.n]

\* Mutant: a claim whose comment has its last words is no claim any more.
ListedRunning(key) == key \in claims.active \ claims.plain

\* The claims of the card are read before one is written: an active one bars
\* the run, finished or not.
Listed(key) == key \in claims.active

\* agent_claim.claim: one comment for each event key.
Claim ==
    /\ job.at = "claim"
    /\ LET key == Key(job.run)
       IN  \/ /\ Listed(key)
             /\ \E o \in Outcomes \ {"landed"} :
                   /\ Answered(o)
                   /\ IF o = "done" THEN Publish(ErrorOf("duplicate"), "denied")
                      ELSE End
             /\ UNCHANGED claims
          \/ /\ ~Listed(key)
             /\ \E o \in Outcomes :
                   /\ Answered(o)
                   /\ claims' = IF o = "failed" THEN claims
                                ELSE [claims EXCEPT !.active = @ \cup {key},
                                                    !.plain = @ \ {key},
                                                    !.late = @ \cup {key}]
                   /\ IF o = "done" THEN Go("model") ELSE End
    /\ UNCHANGED <<pr, day, ledger, card, results, runs, ended,
                   triageHistory>>

\* decide_triage_apply: a first answer that can be trusted counts, else a trusted
\* correction of it in full, else it can still be advisory.
Decided(first, corrected) ==
    CASE first = "trusted" \/ corrected -> {OutputOf("valid")}
      [] first = "invalid" /\ ~corrected -> {OutputOf("advisory"), ErrorOf("rejected")}
      [] first = "nothing" -> {ErrorOf("empty")}

\* The primary call delivers a result that is trusted, an invalid one, or
\* nothing.
CallModel ==
    /\ job.at = "model"
    /\ calls' = [calls EXCEPT ![job.seen.head] = @ + 1]
    /\ \/ job' = [job EXCEPT !.at = "correct", !.coded = TRUE]
       \/ \E first \in {"trusted", "nothing"}, coded \in BOOLEAN :
             /\ first = "trusted" => ~coded
             /\ \E res \in Decided(first, FALSE) :
                   job' = [job EXCEPT !.at = "consume", !.coded = coded, !.res = res]
    /\ UNCHANGED <<pr, day, ledger, card, results, claims, runs, ended, units,
                   spent>>

\* At most one correction turn for a review context, claimed as well.
Correct ==
    /\ job.at = "correct"
    /\ \E o \in Outcomes, corrected \in BOOLEAN :
          /\ Answered(o)
          /\ claims' = IF o = "failed" THEN claims
                       ELSE [claims EXCEPT !.turns = @ \cup {Key(job.run)}]
          /\ corrected => o = "done" /\ Key(job.run) \notin claims.turns
          /\ \E res \in Decided("invalid", corrected) :
                job' = [job EXCEPT !.at = "consume", !.res = res]
    /\ UNCHANGED <<pr, day, ledger, card, results, runs, ended,
                   triageHistory>>

\* The context is read again after the model; a stale answer is an error.
Consume ==
    /\ job.at = "consume"
    /\ \E o \in Outcomes \ {"landed"} :
          /\ Answered(o)
          /\ Publish(IF o = "done" /\ TokenHolds(job.run) THEN job.res
                     ELSE ErrorOf("stale"), "consumed")
    /\ UNCHANGED <<pr, day, ledger, card, results, claims, runs, ended,
                   triageHistory>>

\* triage-recover: publish a card that is still held and queued.
Rescue ==
    /\ job.at = "rescue"
    /\ \E o \in Outcomes \ {"landed"} :
          /\ Answered(o)
          /\ IF /\ o = "done"
                /\ card.held /\ card.status = "queued"
                /\ card.obs.head = job.seen.head
             THEN Publish(ErrorOf("unfinished"), "rescued")
             ELSE Go("finish")
    /\ UNCHANGED <<pr, day, ledger, card, results, claims, runs, ended,
                   triageHistory>>

\* The result record and the last words of the claim comment, which stay
\* plain unless the model failed with a code.
Finish ==
    /\ job.at = "finish"
    /\ \E o \in Outcomes :
          /\ Answered(o)
          /\ LET key == Key(job.run)
             IN  claims' = IF o = "failed" THEN claims
                           ELSE [claims EXCEPT
                                   !.plain = IF job.coded THEN @
                                             ELSE @ \cup ({key} \cap claims.active),
                                   !.late = @ \cup {key}]
    /\ End
    /\ UNCHANGED <<pr, day, ledger, card, results, runs, ended,
                   triageHistory>>

-----------------------------------------------------------------------------
(* The replay: triage_replay.py, started by the owner *)

\* The replayed attempt was queued and never claimed: its context has no
\* claim, or only one older than the marker.
DuplicateOnly ==
    LET key == [ctx |-> card.obs, rec |-> FALSE]
    IN  /\ card.ctx = card.obs
        /\ key \notin claims.late
        /\ IF key \in claims.active THEN key \in claims.plain
           ELSE key \in claims.superseded /\ ~claims.tainted

\* An advisory result, and an admitted assessment that lost its observation,
\* stand in the card's cache as successes.
AdvisoryStands == card.status = "succeeded" /\ card.shown.out = "advisory"
DriftStands ==
    card.status = "succeeded" /\ card.rebound \notin {NoObs, card.obs}

\* The policy retries an attempt that ended as a duplicate, and that only once.
BackfillStands ==
    /\ card.status = "error" /\ card.shown.out = "duplicate"
    /\ card.backfill = NoObs /\ ~card.replayed

\* The card shows the target as it is now, and a complete observation of it.
ReplayInScope ==
    /\ Pending /\ card.obs.whole
    /\ <<card.obs.head, card.obs.base>> = <<pr.head, pr.base>>

\* What the cache must say for each plan; a replayed card comes back only for
\* an attempt that was never claimed.
CacheStands(plan) ==
    LET tried == card.triaged = card.obs.head /\ ~card.held
    IN  /\ plan = "backfill" \/ (plan = "reentry") = card.replayed
        /\ CASE plan = "backfill" -> tried /\ BackfillStands
             [] plan = "reentry" ->
                  tried /\ card.status \in {"queued", "error"} /\ DuplicateOnly
             [] plan = "error"    -> tried /\ card.status = "error"
             [] plan = "absent"   -> card.triaged = None /\ card.status = "none"
             [] plan = "advisory" -> tried /\ AdvisoryStands
             [] plan = "drift"    -> tried /\ DriftStands

\* An attempt is left; a re-entry gives back the one it repeats.
AttemptIsLeft(plan) ==
    LET count == Attempts(card, card.obs.head)
    IN  CASE plan = "backfill" -> TRUE
          [] plan = "reentry"  -> count - 1 \in 0..(AttemptCap - 1)
          [] OTHER             -> count < AttemptCap

\* triage_replay.inspect_candidate
Replayable(plan) ==
    ReplayInScope /\ plan # "none" /\ CacheStands(plan) /\ AttemptIsLeft(plan)

\* triage_budget_remaining: a read, before any write.
UnitRemains == Used < Ceiling

StartReplay ==
    /\ job = Idle
    /\ spent.replays > 0 /\ spent' = [spent EXCEPT !.replays = @ - 1]
    /\ UnitRemains
    /\ \E plan \in Plans :
          /\ Replayable(plan)
          /\ job' = [Idle EXCEPT !.at = "supersede", !.seen = card.obs,
                                 !.plan = plan]
    /\ UNCHANGED <<pr, day, ledger, card, results, claims, runs, ended,
                   triageHistory>>

\* Before anything is written the candidate is inspected again, with its target:
\* a card that people touched since is left.  The policy needs the claim it
\* retries.
ReplayStands ==
    /\ SnapshotMatches /\ Replayable(job.plan)
    /\ job.plan = "backfill" =>
         [ctx |-> job.seen, rec |-> FALSE] \in claims.active \cup claims.superseded

\* wait_for_claim_tombstone_visibility: nothing is queued over an own write
\* that the card does not show yet.
TombstoneSeen(o) == o = "done"

\* Claims that cannot be trusted, or conflict, stop the replay.
ClaimsConflict(key) ==
    claims.tainted \/ key \in claims.active \cap claims.superseded

\* What makes run leave a selected candidate alone.
ReplayBarred(key) == ~ReplayStands \/ ClaimsConflict(key)

\* A tombstone that the card shows lets the common path queue the prepared body.
QueuesReplay(o) == IF TombstoneSeen(o) THEN Go("gate") ELSE End

\* supersede_triage_claim: the tombstone of the attempt's claim comes before
\* the new attempt.
Supersede ==
    /\ job.at = "supersede"
    /\ LET key  == [ctx |-> job.seen, rec |-> FALSE]
           bars == ReplayBarred(key)
       IN  \/ /\ bars
             /\ End
             /\ UNCHANGED <<claims, spent>>
          \/ /\ ~bars /\ key \notin claims.active
             /\ QueuesReplay("done")
             /\ UNCHANGED <<claims, spent>>
          \/ /\ ~bars /\ key \in claims.active
             /\ \E o \in Outcomes :
                   /\ Answered(o)
                   /\ claims' = IF o = "failed" THEN claims
                                ELSE [claims EXCEPT
                                        !.active = @ \ {key},
                                        !.superseded = @ \cup {key},
                                        !.tainted = key \notin claims.plain]
                   /\ QueuesReplay(o)
    /\ UNCHANGED <<pr, day, ledger, card, results, runs, ended,
                   triageHistory>>

-----------------------------------------------------------------------------
TriageStep ==
    \/ Persist \/ Project \/ Settle
    \/ CreateCard \/ LeaveDecided \/ Recover \/ Refresh
    \/ Gate \/ Reserve \/ Defer \/ Commit \/ Dispatch \/ Clear
    \/ Admit \/ Claim \/ CallModel \/ Correct \/ Consume \/ Rescue \/ Finish
    \/ Supersede

TriageNext ==
    \/ TargetMoves \/ Midnight \/ TouchCard
    \/ StartScan \/ StartTriage \/ StartReplay \/ RunAgain
    \/ TriageStep \/ LostRunner

\* A job that has the group goes on; scans come again and again by schedule,
\* and the group starts what waits in it.
TriageFairness ==
    /\ WF_triageVars(TriageStep)
    /\ SF_triageVars(StartScan)
    /\ SF_triageVars(StartTriage)

TriageSpec == TriageInit /\ [][TriageNext]_triageVars /\ TriageFairness

-----------------------------------------------------------------------------
\* The types of the variables.
TriageTypeOK ==
    /\ pr \in [head: Moves, base: Moves, facts: Moves]
    /\ day \in Days
    /\ ledger \in [day: Days, used: Nat]
    /\ card \in Card
    /\ results \in [kept: SUBSET Results, open: SUBSET Results]
    /\ claims \in Claims
    /\ runs \subseteq Runs /\ ended \subseteq Runs
    /\ job \in Job
    /\ units \in [Days -> Nat]
    /\ calls \in [Moves -> Nat]
    /\ spent \in Left

\* What a history counted, one by one.
Each(f) == UNION {{x} \X (1..f[x]) : x \in DOMAIN f}

\* The budget: no day grants more units than the ceiling, and the model is
\* never called, for the first time or again, without a unit of its own
\* (render_card.reserve_triage_budget, agent_claim.claim): runs started again,
\* dispatches reported as failed that landed, and replays included.
EveryCallIsPaid ==
    /\ \A d \in Days : units[d] <= Ceiling
    /\ Cardinality(Each(calls)) <= Cardinality(Each(units))

\* Every review of a head is on its books: an attempt, the context refresh of
\* one base, or the one backfill by policy; and the books stay within their
\* caps.  So whatever the card went through (refreshes, deferrals, cleared
\* attempts, replays and the attempts they give back for want of a claim), a
\* head is never reviewed more often than it may be
\* (render_card.triage_attempt_count, agent_claim.duplicate_only_evidence).
HeadSpendIsBounded ==
    Pending =>
       /\ card.attempts <= AttemptCap
       /\ Cardinality(card.uses) <= ContextAllowance
       /\ calls[card.obs.head]
            <= card.attempts + Cardinality(card.uses)
                 + (IF card.backfill = NoObs THEN 0 ELSE 1)

\* A durable result that the card does not show yet settles the card's queued
\* attempt, though the job that paid for it died: some later scan projects it,
\* unless a second one hides it or the target moves
\* (reconcile.recover_pending_assessment_projection).
Awaited == Pending /\ QueuedFor(card, pr.head)
PaidResultIsShown ==
    Awaited /\ Cardinality(Unprojected(pr.head)) = 1
       ~> ~Awaited \/ Cardinality(Unprojected(pr.head)) > 1

\* A held card is published, whatever happens to its attempt
\* (reconcile.maybe_queue_auto_triage, render_card.update_card_triage).
HeldIsPublished == (Pending /\ card.held) ~> ~(Pending /\ card.held)
=============================================================================
