--------------------------- MODULE TriageQueueProofs ---------------------------
(***************************************************************************)
(* The books of automatic triage balance for any caps and any bounds: every *)
(* model call has a unit of the daily budget of its own, and no head is     *)
(* reviewed more often than its attempts, context refreshes and the one     *)
(* backfill allow.                                                         *)
(***************************************************************************)
EXTENDS TriageQueue, FiniteSetTheorems, TLAPS

\* The stages of a triage run, those at which a result is written, those on the
\* way to the queue, and those only scans and replays reach.
Triages == {"admit", "claim", "model", "correct", "consume", "rescue", "finish"}
Writes  == {"persist", "project", "settle"}
Queues  == {"gate", "reserve", "commit"}
Scans   == {"recover", "refresh", "defer", "dispatch", "supersede"} \cup Queues

\* The bounds leave room for what the target and the calendar still do.
RoomInv ==
    /\ \A part \in {"head", "base", "facts"} : pr[part] + spent.moves <= MaxMoves
    /\ day + spent.days <= MaxDays
    /\ IsFiniteSet(runs) /\ IsFiniteSet(ended)

\* What a job knows at each stage.
JobOK(j) ==
    /\ j.at # "idle" => j.seen \in Obs
    /\ j.run # NoRun => j.run \in Runs /\ j.seen = j.run.ctx /\ j.plan = "none"
    /\ j.at \in Triages \/ j.why \in {"consumed", "rescued"} => j.run # NoRun
    /\ j.at \in Writes \cup {"consume"} => j.res \in Results
    /\ j.at \in Scans \/ j.why = "recovered" => j.run = NoRun
    /\ j.at \in {"recover", "refresh"} \/ j.why = "recovered" => j.plan = "none"
    /\ j.at = "supersede" => j.plan # "none"

\* A replay works on the observation of its card; a re-entry gives an attempt
\* back that the card has.
PlanOK(c, j) ==
    /\ j.plan # "none" /\ j.at \in Queues \cup {"supersede"} => j.seen = c.obs
    /\ j.plan = "reentry" /\ j.at \in Queues => Attempts(c, j.seen.head) >= 1

\* A card that exists shows an observation.
CardOK(c) == IF c.place = "absent" THEN c.obs = NoObs ELSE c.obs \in Obs

TypeInv ==
    /\ TriageTypeOK
    /\ RoomInv
    /\ JobOK(job) /\ PlanOK(card, job) /\ CardOK(card)

-----------------------------------------------------------------------------
(* Types of what the operators return *)

\* A head is a move, and so is a base; that an observation is missing is no
\* observation.
LEMMA ObsFields ==
    /\ \A o \in Obs : /\ o.head \in Moves /\ o.base \in Moves /\ o.facts \in Moves
                      /\ o.whole \in BOOLEAN /\ o # NoObs
    /\ Moves \subseteq Int /\ None \notin Moves /\ MaxMoves \in Nat
    /\ NoObs.head = None /\ NoObs.base = None /\ NoObs.facts = None
<1>1. MaxMoves \in Nat
  BY TriageAssumption DEF TriageAssumption
<1>2. Moves \subseteq Int /\ None \notin Moves
  BY <1>1 DEF Moves, None
<1>3. NoObs.head = None /\ NoObs.base = None /\ NoObs.facts = None
  BY DEF NoObs
<1>4. ASSUME NEW o \in Obs
      PROVE  /\ o.head \in Moves /\ o.base \in Moves /\ o.facts \in Moves
             /\ o.whole \in BOOLEAN
  BY DEF Obs
<1>5. ASSUME NEW o \in Obs PROVE o # NoObs
  BY <1>2, <1>3, <1>4
<1>6. QED BY <1>1, <1>2, <1>3, <1>4, <1>5

\* The fields of a card.
LEMMA CardFields ==
    ASSUME NEW c \in Card
    PROVE  /\ c.place \in {"absent", "pending", "decided"} /\ c.held \in BOOLEAN
           /\ c.obs \in Obs \cup {NoObs} /\ c.triaged \in Moves \cup {None}
           /\ c.tbase \in Moves \cup {None}
           /\ c.status \in {"none", "queued", "succeeded", "error"}
           /\ c.attempts \in Nat /\ c.uses \in SUBSET Moves
           /\ c.ctx \in Obs \cup {NoObs} /\ c.rebound \in Obs \cup {NoObs}
           /\ c.replayed \in BOOLEAN /\ c.backfill \in Obs \cup {NoObs}
BY DEF Card

\* No card is a card, though an absent one.
LEMMA NoCardType == NoCard \in Card
BY DEF NoCard, Card, None

\* A count of attempts is a number.
LEMMA AttemptsType ==
    ASSUME NEW c \in Card, NEW h
    PROVE  Attempts(c, h) \in Nat /\ Attempts(c, h) >= c.attempts
<1>1. c.attempts \in Nat
  BY CardFields
<1>2. QED BY <1>1 DEF Attempts

\* render_card.upsert_card writes a card.
LEMMA RefreshedType ==
    ASSUME NEW c \in Card, NEW o \in Obs
    PROVE  Refreshed(c, o) \in Card
<1>1. CASE c.obs.head = o.head
  <2>1. Refreshed(c, o) = [c EXCEPT !.obs = o, !.held = c.held /\ ShouldHold(o)]
    BY <1>1 DEF Refreshed
  <2>2. ShouldHold(o) \in BOOLEAN /\ c.held \in BOOLEAN
    BY ObsFields, CardFields DEF ShouldHold
  <2>3. QED BY <2>1, <2>2 DEF Card
<1>2. CASE c.obs.head # o.head
  <2> DEFINE n == [NoCard EXCEPT !.place = c.place, !.held = c.held]
  <2>1. n \in Card
    <3>1. /\ c.place \in {"absent", "pending", "decided"} /\ c.held \in BOOLEAN
          /\ NoCard \in Card
      BY NoCardType, CardFields
    <3> DEFINE m == [NoCard EXCEPT !.place = c.place]
    <3>2. m \in Card
      BY <3>1 DEF Card
    <3>3. n = [m EXCEPT !.held = c.held]
      OBVIOUS
    <3> HIDE DEF m, n
    <3>4. QED BY <3>1, <3>2, <3>3 DEF Card
  <2>2. Refreshed(c, o) = [n EXCEPT !.obs = o, !.held = n.held /\ ShouldHold(o)]
    <3> DEFINE kept == IF c.obs.head = o.head THEN c
                       ELSE [NoCard EXCEPT !.place = c.place, !.held = c.held]
    <3>1. kept = n
      BY <1>2
    <3>2. Refreshed(c, o)
            = [kept EXCEPT !.obs = o, !.held = kept.held /\ ShouldHold(o)]
      BY DEF Refreshed
    <3> HIDE DEF kept, n
    <3>3. QED BY <3>1, <3>2
  <2>3. ShouldHold(o) \in BOOLEAN /\ n.held \in BOOLEAN
    BY <2>1, ObsFields, CardFields DEF ShouldHold
  <2>4. QED
    <3> HIDE DEF n
    <3>1. QED BY <2>1, <2>2, <2>3 DEF Card
<1>3. QED BY <1>1, <1>2

\* triage_replay prepares a card, and the observation of it stays.
LEMMA PreparedType ==
    ASSUME NEW c \in Card, NEW plan \in Plans, NEW o \in Obs,
           plan = "reentry" => Attempts(c, o.head) >= 1
    PROVE  /\ Prepared(c, plan, o) \in Card
           /\ Prepared(c, plan, o).obs = c.obs
           /\ Prepared(c, plan, o).place = c.place
<1>1. Attempts(c, o.head) \in Nat
  BY AttemptsType
<1>2. CASE plan = "none"
  BY <1>2 DEF Prepared
<1>3. CASE plan = "backfill"
  BY <1>3 DEF Prepared, Card, None
<1>4. CASE plan = "absent"
  BY <1>1, <1>4 DEF Prepared, Card
<1>5. CASE plan \notin {"none", "backfill", "absent"}
  <2> DEFINE back == Attempts(c, o.head) - (IF plan = "reentry" THEN 1 ELSE 0)
  <2>1. back \in Nat
    BY <1>1
  <2>2. Prepared(c, plan, o)
          = [c EXCEPT !.triaged = None, !.status = "none", !.rebound = NoObs,
                      !.shown = NoResult, !.attempts = back, !.replayed = TRUE]
    BY <1>5 DEF Prepared
  <2>3. Prepared(c, plan, o).obs = c.obs /\ Prepared(c, plan, o).place = c.place
    <3> HIDE DEF back
    <3>1. QED BY <2>2 DEF Card
  <2>4. /\ None \in Moves \cup {None} /\ NoObs \in Obs \cup {NoObs}
        /\ NoResult \in Results \cup {NoResult}
    OBVIOUS
  <2>5. Prepared(c, plan, o) \in Card
    <3> HIDE DEF back
    <3>1. QED BY <2>1, <2>2, <2>4 DEF Card
  <2>6. QED BY <2>3, <2>5
<1>6. QED BY <1>2, <1>3, <1>4, <1>5

\* render_card.body_with_triage_queued writes a card, and the observation of it
\* stays.
LEMMA QueuedType ==
    ASSUME NEW c \in Card, NEW plan, NEW o \in Obs
    PROVE  /\ Queued(c, o, plan) \in Card
           /\ Queued(c, o, plan).obs = c.obs
           /\ Queued(c, o, plan).place = c.place
<1> DEFINE uses == IF ContextMoved(c, o) /\ plan # "backfill"
                   THEN c.uses \cup {o.base} ELSE c.uses
           count == IF ContextMoved(c, o) \/ plan = "backfill" THEN c.attempts
                    ELSE Attempts(c, o.head) + 1
<1>1. Queued(c, o, plan)
        = [c EXCEPT !.triaged = o.head, !.tbase = o.base, !.status = "queued",
                    !.ctx = o, !.rebound = NoObs, !.shown = NoResult,
                    !.uses = uses, !.attempts = count]
  BY DEF Queued
<1>2. uses \in SUBSET Moves
  BY ObsFields, CardFields
<1>3. count \in Nat
  BY AttemptsType, CardFields
<1>4. o.head \in Moves /\ o.base \in Moves
  BY ObsFields
<1> HIDE DEF uses, count
<1>5. [c EXCEPT !.triaged = o.head, !.tbase = o.base, !.status = "queued",
                !.ctx = o] \in Card
  BY <1>4 DEF Card
<1>6. [c EXCEPT !.triaged = o.head, !.tbase = o.base, !.status = "queued",
                !.ctx = o, !.rebound = NoObs, !.shown = NoResult,
                !.uses = uses, !.attempts = count] \in Card
  BY <1>2, <1>3, <1>5 DEF Card
<1>7. QED BY <1>1, <1>6 DEF Card

\* Deferring and clearing an attempt write a card, and the observation of it
\* stays (render_card.body_with_triage_budget_deferred, clear_triage_queued).
LEMMA DeferredType ==
    ASSUME NEW c \in Card
    PROVE  /\ Deferred(c) \in Card /\ Deferred(c).obs = c.obs
           /\ Deferred(c).place = c.place
           /\ Cleared(c) \in Card /\ Cleared(c).obs = c.obs
           /\ Cleared(c).place = c.place
<1>1. Deferred(c).obs = c.obs /\ Deferred(c).place = c.place
  BY DEF Deferred, Card
<1>2. Cleared(c).obs = c.obs /\ Cleared(c).place = c.place
  BY DEF Cleared, Card
<1>3. Deferred(c) \in Card
  BY DEF Deferred, Card, None
<1>4. Cleared(c) \in Card
  BY DEF Cleared, Card, None
<1>5. QED BY <1>1, <1>2, <1>3, <1>4

\* A result on the card leaves a card, and the observation of it stays
\* (render_card.update_card_triage).
LEMMA ProjectedType ==
    ASSUME NEW c \in Card, NEW res \in Results, NEW base \in Moves \cup {None}
    PROVE  /\ Projected(c, res, base) \in Card
           /\ Projected(c, res, base).obs = c.obs
           /\ Projected(c, res, base).place = c.place
<1> DEFINE said  == IF res.out \in Errors THEN "error" ELSE "succeeded"
           tbase == IF base = None THEN c.tbase ELSE base
           bound == IF Admits(c, res) THEN c.obs ELSE NoObs
<1>1. Projected(c, res, base)
        = [c EXCEPT !.held = FALSE, !.triaged = res.head, !.shown = res,
                    !.status = said, !.tbase = tbase, !.rebound = bound]
  BY DEF Projected
<1>2. said \in {"none", "queued", "succeeded", "error"}
  OBVIOUS
<1>3. tbase \in Moves \cup {None} /\ bound \in Obs \cup {NoObs}
  BY CardFields
<1>4. res.head \in Moves
  BY DEF Results
<1> HIDE DEF said, tbase, bound
<1>5. Projected(c, res, base) \in Card
  <2> DEFINE d == [c EXCEPT !.held = FALSE, !.triaged = res.head, !.shown = res]
  <2>1. d \in Card
    BY <1>4 DEF Card
  <2>2. Projected(c, res, base)
          = [d EXCEPT !.status = said, !.tbase = tbase, !.rebound = bound]
    BY <1>1 DEF Card
  <2> HIDE DEF d
  <2> DEFINE e == [d EXCEPT !.status = said]
  <2>3. e \in Card
    BY <1>2, <2>1 DEF Card
  <2>4. [d EXCEPT !.status = said, !.tbase = tbase, !.rebound = bound]
          = [e EXCEPT !.tbase = tbase, !.rebound = bound]
    OBVIOUS
  <2> HIDE DEF e
  <2>5. [e EXCEPT !.tbase = tbase, !.rebound = bound] \in Card
    BY <1>3, <2>3 DEF Card
  <2>6. QED BY <2>2, <2>4, <2>5
<1>6. QED BY <1>1, <1>5 DEF Card

-----------------------------------------------------------------------------
(* What an answer costs, and where a job goes on *)

\* The fields of a job.
LEMMA JobFields ==
    ASSUME NEW j \in Job
    PROVE  /\ j.at \in Stages /\ j.seen \in Obs \cup {NoObs} /\ j.moved \in BOOLEAN
           /\ j.run \in Runs \cup {NoRun} /\ j.coded \in BOOLEAN
           /\ j.res \in Results \cup {NoResult} /\ j.plan \in Plans
           /\ j.why \in {"none", "recovered", "undispatched", "denied", "consumed",
                         "rescued"}
BY DEF Job

\* A spent bound is still within its bound, and leaves the others alone.
LEMMA SpendType ==
    ASSUME spent \in Left, NEW b \in {"moves", "days", "acts", "faults", "again"},
           Budget(b), Spend(b)
    PROVE  /\ spent' \in Left
           /\ spent.moves \in Nat /\ spent.days \in Nat
           /\ spent'.moves = (IF b = "moves" THEN spent.moves - 1 ELSE spent.moves)
           /\ spent'.days = (IF b = "days" THEN spent.days - 1 ELSE spent.days)
<1>1. /\ MaxMoves \in Nat /\ MaxDays \in Nat /\ MaxActs \in Nat /\ MaxFaults \in Nat
      /\ MaxAgain \in Nat /\ MaxReplays \in Nat /\ MaxTurns \in Nat
  BY TriageAssumption DEF TriageAssumption
<1>8. spent.turns - 1 \in 0..MaxTurns
  BY <1>1 DEF Left, Budget
<1>2. CASE b = "moves"
  <2>1. spent' = [spent EXCEPT !.moves = spent.moves - 1, !.turns = spent.turns - 1]
    BY <1>2 DEF Spend
  <2>2. spent.moves > 0
    BY <1>2 DEF Budget
  <2>3. spent.moves - 1 \in 0..MaxMoves
    BY <1>1, <2>2 DEF Left, Days
  <2>4. spent' \in Left
    BY <1>8, <2>1, <2>3 DEF Left, Days
  <2>5. QED BY <1>2, <2>1, <2>4 DEF Left, Days
<1>3. CASE b = "days"
  <2>1. spent' = [spent EXCEPT !.days = spent.days - 1, !.turns = spent.turns - 1]
    BY <1>3 DEF Spend
  <2>2. spent.days > 0
    BY <1>3 DEF Budget
  <2>3. spent.days - 1 \in 0..MaxDays
    BY <1>1, <2>2 DEF Left, Days
  <2>4. spent' \in Left
    BY <1>8, <2>1, <2>3 DEF Left, Days
  <2>5. QED BY <1>3, <2>1, <2>4 DEF Left, Days
<1>4. CASE b = "acts"
  <2>1. spent' = [spent EXCEPT !.acts = spent.acts - 1, !.turns = spent.turns - 1]
    BY <1>4 DEF Spend
  <2>2. spent.acts > 0
    BY <1>4 DEF Budget
  <2>3. spent.acts - 1 \in 0..MaxActs
    BY <1>1, <2>2 DEF Left, Days
  <2>4. spent' \in Left
    BY <1>8, <2>1, <2>3 DEF Left, Days
  <2>5. QED BY <1>4, <2>1, <2>4 DEF Left, Days
<1>5. CASE b = "faults"
  <2>1. spent' = [spent EXCEPT !.faults = spent.faults - 1, !.turns = spent.turns - 1]
    BY <1>5 DEF Spend
  <2>2. spent.faults > 0
    BY <1>5 DEF Budget
  <2>3. spent.faults - 1 \in 0..MaxFaults
    BY <1>1, <2>2 DEF Left, Days
  <2>4. spent' \in Left
    BY <1>8, <2>1, <2>3 DEF Left, Days
  <2>5. QED BY <1>5, <2>1, <2>4 DEF Left, Days
<1>6. CASE b = "again"
  <2>1. spent' = [spent EXCEPT !.again = spent.again - 1, !.turns = spent.turns - 1]
    BY <1>6 DEF Spend
  <2>2. spent.again > 0
    BY <1>6 DEF Budget
  <2>3. spent.again - 1 \in 0..MaxAgain
    BY <1>1, <2>2 DEF Left, Days
  <2>4. spent' \in Left
    BY <1>8, <2>1, <2>3 DEF Left, Days
  <2>5. QED BY <1>6, <2>1, <2>4 DEF Left, Days
<1>7. QED BY <1>2, <1>3, <1>4, <1>5, <1>6

\* A call that is answered or lost costs no move of the target and no day.
LEMMA AnsweredType ==
    ASSUME spent \in Left, NEW o \in Outcomes, Answered(o)
    PROVE  spent' \in Left /\ spent'.moves = spent.moves /\ spent'.days = spent.days
<1>1. CASE o = "done"
  BY <1>1 DEF Answered
<1>2. CASE o # "done"
  <2>1. Budget("faults") /\ Spend("faults")
    BY <1>2 DEF Answered, Outcomes
  <2>2. QED BY <2>1, SpendType
<1>3. QED BY <1>1, <1>2

\* The job knows the same, and works by the same plan.
SameJob ==
    /\ job'.seen = job.seen /\ job'.run = job.run /\ job'.plan = job.plan
    /\ job'.moved = job.moved

\* Going on to a stage.
LEMMA GoFacts ==
    ASSUME job \in Job, NEW stage \in Stages, Go(stage)
    PROVE  /\ job' \in Job /\ job'.at = stage /\ SameJob
           /\ job'.res = job.res /\ job'.why = job.why /\ job'.coded = job.coded
BY DEF Job, Go, SameJob

\* An idle job is one, and knows nothing.
LEMMA IdleFacts ==
    /\ Idle \in Job /\ Idle.at = "idle" /\ Idle.run = NoRun /\ Idle.plan = "none"
    /\ Idle.why = "none" /\ Idle.seen = NoObs /\ ~Idle.moved
BY DEF Idle, Job, Stages, Plans

\* A job that ended.
LEMMA EndFacts ==
    ASSUME End
    PROVE  /\ job' = Idle /\ job' \in Job /\ job'.at = "idle" /\ job'.run = NoRun
           /\ job'.plan = "none" /\ job'.why = "none" /\ ~job'.moved
BY IdleFacts DEF End

\* Publishing a result.
LEMMA PublishFacts ==
    ASSUME job \in Job, NEW res \in Results,
           NEW why \in {"recovered", "undispatched", "denied", "consumed", "rescued"},
           Publish(res, why)
    PROVE  /\ job' \in Job /\ job'.at = "persist" /\ SameJob
           /\ job'.res = res /\ job'.why = why
BY DEF Job, Publish, SameJob, Stages

\* A published result ends the job, or gives it back to its caller.
LEMMA ReturnFacts ==
    ASSUME job \in Job, NEW stage \in {"idle", "rescue", "finish", "refresh", "clear"},
           Return(stage)
    PROVE  /\ job' \in Job /\ job'.at = stage
           /\ stage = "idle" => job' = Idle
           /\ stage # "idle" => SameJob /\ job'.why = "none"
<1>1. CASE stage = "idle"
  BY <1>1, EndFacts DEF Return
<1>2. CASE stage # "idle"
  <2>1. job' = [job EXCEPT !.at = stage, !.res = NoResult, !.why = "none"]
    BY <1>2 DEF Return
  <2>2. stage \in Stages /\ NoResult \in Results \cup {NoResult}
    BY DEF Stages
  <2>3. job' \in Job
    BY <2>1, <2>2 DEF Job
  <2>4. QED BY <1>2, <2>1, <2>3 DEF Job, SameJob
<1>3. QED BY <1>1, <1>2

\* Where a published result goes on to.
LEMMA Callers ==
    ASSUME NEW why \in {"none", "recovered", "undispatched", "denied", "consumed",
                        "rescued"},
           NEW stage \in {Applied(why), Skipped(why), Raised(why)}
    PROVE  /\ stage \in {"idle", "rescue", "finish", "refresh", "clear"}
           /\ stage \in {"rescue", "finish"} => why \in {"consumed", "rescued"}
           /\ stage = "refresh" => why = "recovered"
BY DEF Applied, Skipped, Raised

\* A job with nothing to do is in order.
LEMMA IdleOK == JobOK(Idle) /\ (\A c : PlanOK(c, Idle))
BY IdleFacts DEF JobOK, PlanOK, Triages, Writes, Queues, Scans

\* A job that returns from publishing is in order.
LEMMA ReturnOK ==
    ASSUME TypeInv, job.at \in Writes, job' \in Job,
           NEW stage \in {Applied(job.why), Skipped(job.why), Raised(job.why)},
           Return(stage)
    PROVE  JobOK(job') /\ (\A c : PlanOK(c, job'))
<1>1. job \in Job /\ JobOK(job)
  BY DEF TypeInv, TriageTypeOK
<1>2. job.why \in {"none", "recovered", "undispatched", "denied", "consumed", "rescued"}
  BY <1>1, JobFields
<1>3. /\ stage \in {"idle", "rescue", "finish", "refresh", "clear"}
      /\ stage \in {"rescue", "finish"} => job.why \in {"consumed", "rescued"}
      /\ stage = "refresh" => job.why = "recovered"
  BY <1>2, Callers
<1>4. CASE stage = "idle"
  BY <1>1, <1>3, <1>4, ReturnFacts, IdleOK
<1>5. CASE stage # "idle"
  <2>1. job'.at = stage /\ SameJob /\ job'.why = "none"
    BY <1>1, <1>3, <1>5, ReturnFacts
  <2>2. job.at # "idle"
    BY DEF Writes
  <2>3. QED BY <1>1, <1>3, <1>5, <2>1, <2>2
          DEF JobOK, PlanOK, SameJob, Triages, Writes, Queues, Scans
<1>6. QED BY <1>4, <1>5

-----------------------------------------------------------------------------
(* Types: one lemma per part of the state, then one step per action *)

\* No step of a job costs a move of the target or a day.
LEMMA StepSpends ==
    ASSUME TypeInv, TriageStep
    PROVE  spent' \in Left /\ spent'.moves = spent.moves /\ spent'.days = spent.days
<1> DEFINE Costs == \/ UNCHANGED spent
                    \/ \E o \in Outcomes : Answered(o)
                    \/ Budget("faults") /\ Spend("faults")
<1>1. CASE Persist \/ Project \/ Settle
  <2>1. Costs
    BY <1>1 DEF Persist, Project, Settle
  <2>2. QED BY <2>1, AnsweredType, SpendType DEF TypeInv, TriageTypeOK
<1>2. CASE CreateCard \/ LeaveDecided \/ Recover \/ Refresh
  <2>1. Costs
    BY <1>2 DEF CreateCard, LeaveDecided, Recover, Refresh
  <2>2. QED BY <2>1, AnsweredType, SpendType DEF TypeInv, TriageTypeOK
<1>3. CASE Gate \/ Reserve \/ Defer \/ Commit \/ Dispatch \/ Clear
  <2>1. Costs
    BY <1>3 DEF Gate, Reserve, Defer, Commit, Dispatch, Clear
  <2>2. QED BY <2>1, AnsweredType, SpendType DEF TypeInv, TriageTypeOK
<1>4. CASE Admit \/ Claim \/ CallModel \/ Correct \/ Consume
  <2>1. Costs
    BY <1>4 DEF Admit, Claim, CallModel, Correct, Consume
  <2>2. QED BY <2>1, AnsweredType, SpendType DEF TypeInv, TriageTypeOK
<1>5. CASE Rescue \/ Finish \/ Supersede
  <2>1. Costs
    BY <1>5 DEF Rescue, Finish, Supersede
  <2>2. QED BY <2>1, AnsweredType, SpendType DEF TypeInv, TriageTypeOK
<1>6. QED BY <1>1, <1>2, <1>3, <1>4, <1>5 DEF TriageStep

\* An error and an output of the model are results.
LEMMA ResultTypes ==
    ASSUME TypeInv, job.at # "idle"
    PROVE  /\ \A out \in Outs : ErrorOf(out) \in Results
           /\ job.run # NoRun => \A out \in Outs : OutputOf(out) \in Results
<1>1. job.seen \in Obs /\ (job.run # NoRun => job.run \in Runs)
  BY DEF TypeInv, JobOK
<1>2. job.seen.head \in Moves
  BY <1>1, ObsFields
<1>3. \A out \in Outs : ErrorOf(out) \in Results
  BY <1>2 DEF ErrorOf, Results
<1>4. ASSUME job.run # NoRun, NEW out \in Outs PROVE OutputOf(out) \in Results
  <2>1. job.run.n \in Nat
    BY <1>1, <1>4 DEF Runs
  <2>2. QED BY <1>1, <1>2, <2>1 DEF OutputOf, Results
<1>5. QED BY <1>3, <1>4

\* Where a published result goes on, the job is in order.
LEMMA WritesJob ==
    ASSUME TypeInv, Persist \/ Project \/ Settle
    PROVE  job' \in Job /\ JobOK(job') /\ (\A c : PlanOK(c, job'))
<1>1. job \in Job /\ JobOK(job) /\ job.at \in Writes
  BY DEF TypeInv, TriageTypeOK, Persist, Project, Settle, Writes
<1>2. job.why \in {"none", "recovered", "undispatched", "denied", "consumed", "rescued"}
  BY <1>1, JobFields
<1>3. ASSUME NEW stage \in {Applied(job.why), Skipped(job.why), Raised(job.why)},
             Return(stage)
      PROVE  job' \in Job /\ JobOK(job') /\ (\A c : PlanOK(c, job'))
  <2>1. job' \in Job
    BY <1>1, <1>2, <1>3, Callers, ReturnFacts
  <2>2. QED BY <1>1, <1>3, <2>1, ReturnOK
<1>4. ASSUME NEW stage \in {"project", "settle"}, Go(stage)
      PROVE  job' \in Job /\ JobOK(job') /\ (\A c : PlanOK(c, job'))
  <2>1. job' \in Job /\ job'.at = stage /\ SameJob /\ job'.res = job.res
        /\ job'.why = job.why
    BY <1>1, <1>4, GoFacts DEF Stages
  <2>2. job.at # "idle"
    BY <1>1 DEF Writes
  <2>3. QED BY <1>1, <1>4, <2>1, <2>2
          DEF JobOK, PlanOK, SameJob, Triages, Writes, Queues, Scans
<1>5. \/ \E stage \in {Applied(job.why), Skipped(job.why), Raised(job.why)} : Return(stage)
      \/ \E stage \in {"project", "settle"} : Go(stage)
  BY DEF Persist, Project, Settle
<1>6. QED BY <1>3, <1>4, <1>5

\* A job of a scan or a replay that goes on to the queue is in order.
LEMMA GoesOn ==
    ASSUME TypeInv, job.at \in Scans, NEW stage \in Scans \ {"recover", "supersede"},
           stage = "refresh" => job.at = "recover",
           Go(stage)
    PROVE  job' \in Job /\ JobOK(job') /\ SameJob /\ job'.at = stage
<1>1. job \in Job /\ JobOK(job) /\ job.at # "idle" /\ stage \in Stages
  BY DEF TypeInv, TriageTypeOK, Scans, Queues, Stages
<1>2. job' \in Job /\ job'.at = stage /\ SameJob /\ job'.res = job.res
      /\ job'.why = job.why
  BY <1>1, GoFacts
<1>3. QED BY <1>1, <1>2 DEF JobOK, SameJob, Triages, Writes, Queues, Scans

\* What a scan or a replay does next, its job is in order.
LEMMA ScansJob ==
    ASSUME TypeInv,
           \/ CreateCard \/ LeaveDecided \/ Recover \/ Refresh
           \/ Gate \/ Reserve \/ Defer \/ Commit \/ Dispatch \/ Clear \/ Supersede
    PROVE  job' \in Job /\ JobOK(job')
<1> USE DEF Scans, Queues
<1>1. job \in Job /\ JobOK(job) /\ results \in [kept: SUBSET Results, open: SUBSET Results]
  BY DEF TypeInv, TriageTypeOK
<1>2. CASE End
  BY <1>2, EndFacts, IdleOK
<1>3. CASE CreateCard
  BY <1>2, <1>3, GoesOn DEF CreateCard
<1>4. CASE LeaveDecided
  BY <1>2, <1>4 DEF LeaveDecided
<1>5. CASE Recover
  <2>1. CASE Go("refresh")
    BY <1>5, <2>1, GoesOn DEF Recover
  <2>2. ASSUME NEW r \in results.open, NEW stage \in {"settle", "persist"},
               job' = [job EXCEPT !.at = stage, !.res = r, !.why = "recovered"]
        PROVE  job' \in Job /\ JobOK(job')
    <3>1. r \in Results /\ stage \in Stages /\ job.at = "recover"
      BY <1>1, <1>5 DEF Stages, Recover
    <3>2. job' \in Job /\ job'.at = stage /\ job'.res = r /\ job'.why = "recovered"
          /\ SameJob
      BY <1>1, <2>2, <3>1 DEF Job, SameJob
    <3>3. QED BY <1>1, <3>1, <3>2 DEF JobOK, SameJob, Triages, Writes
  <2>3. QED BY <1>5, <2>1, <2>2 DEF Recover, Unprojected
<1>6. CASE Refresh
  BY <1>2, <1>6, GoesOn DEF Refresh
<1>7. CASE Gate
  BY <1>2, <1>7, GoesOn DEF Gate
<1>8. CASE Reserve
  BY <1>2, <1>8, GoesOn DEF Reserve, Refused
<1>9. CASE Defer \/ Clear
  BY <1>2, <1>9 DEF Defer, Clear
<1>10. CASE Commit
  BY <1>2, <1>10, GoesOn DEF Commit
<1>11. CASE Dispatch
  <2> DEFINE res == [head |-> job.seen.head, out |-> "undispatched", basis |-> NoObs,
                     n |-> 0]
  <2>1. job.at = "dispatch" /\ (End \/ Publish(res, "undispatched"))
    BY <1>11 DEF Dispatch
  <2>2. res \in Results
    BY <2>1, ResultTypes DEF ErrorOf, Outs, Errors
  <2>3. CASE Publish(res, "undispatched")
    <3>1. job' \in Job /\ job'.at = "persist" /\ SameJob /\ job'.res = res
          /\ job'.why = "undispatched"
      <4> HIDE DEF res
      <4>1. QED BY <1>1, <2>2, <2>3, PublishFacts
    <3>2. QED BY <1>1, <2>1, <2>2, <3>1 DEF JobOK, SameJob, Triages, Writes
  <2>4. QED BY <1>2, <2>1, <2>3
<1>12. CASE Supersede
  BY <1>2, <1>12, GoesOn DEF Supersede, QueuesReplay
<1>13. QED BY <1>3, <1>4, <1>5, <1>6, <1>7, <1>8, <1>9, <1>10, <1>11, <1>12

\* What a triage run does next, its job is in order.
LEMMA TriagesJob ==
    ASSUME TypeInv,
           Admit \/ Claim \/ CallModel \/ Correct \/ Consume \/ Rescue \/ Finish
    PROVE  job' \in Job /\ JobOK(job') /\ (\A c : PlanOK(c, job'))
<1>1. job \in Job /\ JobOK(job) /\ job.at \in Triages /\ job.at # "idle"
  BY DEF TypeInv, TriageTypeOK, Admit, Claim, CallModel, Correct, Consume, Rescue,
         Finish, Triages
<1>2. job.seen \in Obs /\ job.run # NoRun /\ job.run \in Runs /\ job.plan = "none"
      /\ job.seen = job.run.ctx
  BY <1>1 DEF JobOK
<1>3. /\ \A out \in Outs : ErrorOf(out) \in Results
      /\ \A out \in Outs : OutputOf(out) \in Results
  BY <1>1, <1>2, ResultTypes
<1>4. CASE End
  BY <1>4, EndFacts, IdleOK
<1>5. ASSUME NEW stage \in {"claim", "model", "finish"}, Go(stage)
      PROVE  job' \in Job /\ JobOK(job') /\ (\A c : PlanOK(c, job'))
  <2>1. job' \in Job /\ job'.at = stage /\ SameJob /\ job'.res = job.res
        /\ job'.why = job.why
    BY <1>1, <1>5, GoFacts DEF Stages
  <2>2. QED BY <1>1, <1>2, <1>5, <2>1
          DEF JobOK, PlanOK, SameJob, Triages, Writes, Queues, Scans
<1>6. ASSUME NEW res \in Results, NEW why \in {"denied", "consumed", "rescued"},
             Publish(res, why)
      PROVE  job' \in Job /\ JobOK(job') /\ (\A c : PlanOK(c, job'))
  <2>1. job' \in Job /\ job'.at = "persist" /\ SameJob /\ job'.res = res
        /\ job'.why = why
    BY <1>1, <1>6, PublishFacts
  <2>2. QED BY <1>1, <1>2, <1>6, <2>1
          DEF JobOK, PlanOK, SameJob, Triages, Writes, Queues, Scans
<1>7. ASSUME NEW res \in Results, NEW coded \in BOOLEAN,
             job' = [job EXCEPT !.at = "consume", !.coded = coded, !.res = res]
      PROVE  job' \in Job /\ JobOK(job') /\ (\A c : PlanOK(c, job'))
  <2>1. job' \in Job /\ job'.at = "consume" /\ SameJob /\ job'.res = res
        /\ job'.why = job.why
    BY <1>1, <1>7 DEF Job, SameJob, Stages
  <2>2. QED BY <1>1, <1>2, <1>7, <2>1
          DEF JobOK, PlanOK, SameJob, Triages, Writes, Queues, Scans
<1>8. {"valid", "advisory", "empty", "rejected", "stale", "duplicate", "unfinished"}
        \subseteq Outs
  BY DEF Outs, Errors
<1>9. CASE Admit
  BY <1>4, <1>5, <1>9 DEF Admit
<1>10. CASE Claim
  BY <1>3, <1>4, <1>5, <1>6, <1>8, <1>10 DEF Claim
<1>11. CASE CallModel
  <2>1. CASE job' = [job EXCEPT !.at = "correct", !.coded = TRUE]
    <3>1. job' \in Job /\ job'.at = "correct" /\ SameJob /\ job'.why = job.why
      BY <1>1, <2>1 DEF Job, SameJob, Stages
    <3>2. QED BY <1>1, <1>2, <3>1
            DEF JobOK, PlanOK, SameJob, Triages, Writes, Queues, Scans
  <2>2. \A first \in {"trusted", "nothing"} : Decided(first, FALSE) \subseteq Results
    BY <1>3, <1>8 DEF Decided
  <2>3. QED BY <1>7, <1>11, <2>1, <2>2 DEF CallModel
<1>12. CASE Correct
  <2>1. \A corrected \in BOOLEAN : Decided("invalid", corrected) \subseteq Results
    BY <1>3, <1>8 DEF Decided
  <2>2. PICK res \in Results : job' = [job EXCEPT !.at = "consume", !.res = res]
    BY <1>12, <2>1 DEF Correct
  <2>3. job' \in Job /\ job'.at = "consume" /\ SameJob /\ job'.res = res
        /\ job'.why = job.why
    BY <1>1, <2>2 DEF Job, SameJob, Stages
  <2>4. QED BY <1>1, <1>2, <2>2, <2>3
          DEF JobOK, PlanOK, SameJob, Triages, Writes, Queues, Scans
<1>13. CASE Consume
  <2>1. job.res \in Results
    BY <1>1, <1>13 DEF JobOK, Consume
  <2>2. QED BY <1>3, <1>6, <1>8, <1>13, <2>1 DEF Consume
<1>14. CASE Rescue
  BY <1>3, <1>5, <1>6, <1>8, <1>14 DEF Rescue
<1>15. CASE Finish
  BY <1>4, <1>15 DEF Finish
<1>16. QED BY <1>9, <1>10, <1>11, <1>12, <1>13, <1>14, <1>15

\* What a step of a job writes on the card is a card.
LEMMA StepCard ==
    ASSUME TypeInv, TriageStep
    PROVE  card' \in Card /\ CardOK(card')
<1>1. card \in Card /\ CardOK(card) /\ job \in Job /\ JobOK(job) /\ PlanOK(card, job)
  BY DEF TypeInv, TriageTypeOK
<1>2. CASE UNCHANGED card
  BY <1>1, <1>2
<1>3. CASE Project
  <2> DEFINE base == IF job.why = "consumed" THEN job.res.basis.base ELSE None
  <2>1. job.res \in Results
    BY <1>1, <1>3 DEF JobOK, Project, Writes
  <2>2. base \in Moves \cup {None}
    BY <2>1, ObsFields DEF Results
  <2>3. card' = card \/ card' = Projected(card, job.res, base)
    BY <1>3 DEF Project
  <2> HIDE DEF base
  <2>4. QED BY <1>1, <2>1, <2>2, <2>3, ProjectedType DEF CardOK
<1>4. CASE CreateCard
  <2>1. job.seen \in Obs
    BY <1>1, <1>4 DEF JobOK, CreateCard
  <2>2. ShouldHold(job.seen) \in BOOLEAN
    BY <2>1, ObsFields DEF ShouldHold
  <2>3. [NoCard EXCEPT !.place = "pending", !.obs = job.seen,
                       !.held = ShouldHold(job.seen)] \in Card
    BY <2>1, <2>2, NoCardType DEF Card
  <2>4. [NoCard EXCEPT !.place = "pending", !.obs = job.seen,
                       !.held = ShouldHold(job.seen)].obs = job.seen
    BY DEF NoCard
  <2>5. [NoCard EXCEPT !.place = "pending", !.obs = job.seen,
                       !.held = ShouldHold(job.seen)].place = "pending"
    BY DEF NoCard
  <2>6. QED BY <1>1, <1>4, <2>1, <2>3, <2>4, <2>5 DEF CreateCard, CardOK
<1>5. CASE Refresh
  <2>1. job.seen \in Obs
    BY <1>1, <1>5 DEF JobOK, Refresh
  <2>2. card' = card \/ (Pending /\ card' = Refreshed(card, job.seen))
    BY <1>5 DEF Refresh
  <2>3. ASSUME Pending, card' = Refreshed(card, job.seen)
        PROVE  card' \in Card /\ CardOK(card')
    <3>1. Refreshed(card, job.seen).obs = job.seen
          /\ Refreshed(card, job.seen).place = card.place
      BY <1>1 DEF Refreshed, NoCard, Card
    <3>2. QED BY <1>1, <2>1, <2>3, <3>1, RefreshedType DEF CardOK, Pending
  <2>4. QED BY <1>2, <2>2, <2>3
<1>6. CASE Defer \/ Clear
  <2>1. card' \in {card, Deferred(card), Cleared(card)}
    BY <1>6 DEF Defer, Clear
  <2>2. QED BY <1>1, <2>1, DeferredType DEF CardOK
<1>7. CASE Commit
  <2> DEFINE c == Prepared(card, job.plan, job.seen)
  <2>1. job.seen \in Obs /\ job.plan \in Plans
        /\ (job.plan = "reentry" => Attempts(card, job.seen.head) >= 1)
    BY <1>1, <1>7, JobFields DEF JobOK, PlanOK, Commit, Queues
  <2>2. c \in Card /\ c.obs = card.obs /\ c.place = card.place
    BY <1>1, <2>1, PreparedType
  <2>3. card' = card \/ card' = Queued(c, job.seen, job.plan)
    BY <1>7 DEF Commit
  <2> HIDE DEF c
  <2>4. QED BY <1>1, <2>1, <2>2, <2>3, QueuedType DEF CardOK
<1>8. UNCHANGED card \/ Project \/ CreateCard \/ Refresh \/ Defer \/ Clear \/ Commit
  BY DEF TriageStep, Persist, Settle, LeaveDecided, Recover, Gate, Reserve, Dispatch,
         Admit, Claim, CallModel, Correct, Consume, Rescue, Finish, Supersede
<1>9. QED BY <1>2, <1>3, <1>4, <1>5, <1>6, <1>7, <1>8

\* The plan of a scan or a replay fits the card, on its way to the queue.
LEMMA ScansPlan ==
    ASSUME TypeInv, TriageStep
    PROVE  PlanOK(card', job')
<1> USE DEF Queues
<1>1. job \in Job /\ JobOK(job) /\ PlanOK(card, job) /\ card \in Card
  BY DEF TypeInv, TriageTypeOK
<1>2. CASE End
  BY <1>2, EndFacts, IdleOK
<1>3. CASE Persist \/ Project \/ Settle
  BY <1>3, WritesJob
<1>4. CASE Admit \/ Claim \/ CallModel \/ Correct \/ Consume \/ Rescue \/ Finish
  BY <1>4, TriagesJob
<1>5. CASE CreateCard \/ LeaveDecided \/ Recover \/ Refresh
  <2>1. job.at \in {"recover", "refresh"} /\ job.plan = "none"
    BY <1>1, <1>5 DEF CreateCard, LeaveDecided, Recover, Refresh, JobOK
  <2>2. job'.plan = "none"
    <3>1. CASE \E stage : Go(stage)
      BY <1>1, <2>1, <3>1 DEF Go, Job
    <3>2. ASSUME NEW r, NEW stage,
                 job' = [job EXCEPT !.at = stage, !.res = r, !.why = "recovered"]
          PROVE  job'.plan = "none"
      BY <1>1, <2>1, <3>2 DEF Job
    <3>3. QED BY <1>5, <3>1, <3>2, EndFacts
            DEF CreateCard, LeaveDecided, Recover, Refresh
  <2>3. QED BY <2>2 DEF PlanOK
<1>6. CASE Gate \/ Reserve
  <2>1. /\ job.at \in Queues /\ card' = card
        /\ End \/ \E stage \in {"reserve", "commit", "defer"} : Go(stage)
    BY <1>6 DEF Gate, Reserve, Refused
  <2>2. ASSUME NEW stage \in {"reserve", "commit", "defer"}, Go(stage)
        PROVE  PlanOK(card', job')
    <3>1. SameJob /\ job'.at = stage
      BY <1>1, <2>2, GoFacts DEF Stages
    <3>2. QED BY <1>1, <2>1, <2>2, <3>1 DEF PlanOK, SameJob
  <2>3. QED BY <1>2, <2>1, <2>2
<1>7. CASE Defer \/ Clear
  BY <1>2, <1>7 DEF Defer, Clear
<1>8. CASE Commit \/ Dispatch
  <2>1. End \/ Go("dispatch") \/ \E res : Publish(res, "undispatched")
    BY <1>8 DEF Commit, Dispatch
  <2>2. CASE Go("dispatch")
    BY <1>1, <2>2, GoFacts DEF Stages, PlanOK
  <2>3. CASE \E res : Publish(res, "undispatched")
    BY <1>1, <2>3 DEF Publish, Job, PlanOK
  <2>4. QED BY <1>2, <2>1, <2>2, <2>3
<1>9. CASE Supersede
  <2>1. /\ job.at = "supersede" /\ card' = card
        /\ End \/ (Go("gate") /\ Replayable(job.plan))
    BY <1>9 DEF Supersede, QueuesReplay, ReplayBarred, ReplayStands
  <2>2. CASE Go("gate") /\ Replayable(job.plan)
    <3>1. SameJob /\ job'.at = "gate"
      BY <1>1, <2>2, GoFacts DEF Stages
    <3>2. job.seen = card.obs
      BY <1>1, <2>1 DEF PlanOK, JobOK
    <3>3. job.plan = "reentry" => Attempts(card, job.seen.head) >= 1
      <4>1. ASSUME job.plan = "reentry"
            PROVE  Attempts(card, card.obs.head) - 1 \in 0..(AttemptCap - 1)
        BY <2>2, <4>1 DEF Replayable, AttemptIsLeft
      <4>2. Attempts(card, card.obs.head) \in Nat
        BY <1>1, AttemptsType
      <4>3. QED BY <3>2, <4>1, <4>2
    <3>4. QED BY <2>1, <3>1, <3>2, <3>3 DEF PlanOK, SameJob
  <2>3. QED BY <1>2, <2>1, <2>2
<1>10. QED BY <1>3, <1>4, <1>5, <1>6, <1>7, <1>8, <1>9 DEF TriageStep

\* What a step of a job writes besides the card has its type.
LEMMA StepRecords ==
    ASSUME TypeInv, TriageStep
    PROVE  /\ ledger' \in [day: Days, used: Nat]
           /\ results' \in [kept: SUBSET Results, open: SUBSET Results]
           /\ claims' \in Claims
           /\ units' \in [Days -> Nat]
           /\ calls' \in [Moves -> Nat]
<1>1. /\ ledger \in [day: Days, used: Nat]
      /\ results \in [kept: SUBSET Results, open: SUBSET Results]
      /\ claims \in Claims /\ units \in [Days -> Nat] /\ calls \in [Moves -> Nat]
      /\ day \in Days /\ JobOK(job)
  BY DEF TypeInv, TriageTypeOK
<1>2. CASE UNCHANGED <<ledger, results, claims, triageHistory>>
  BY <1>1, <1>2 DEF triageHistory
<1>3. CASE Persist \/ Settle
  <2>1. job.res \in Results
    BY <1>1, <1>3 DEF JobOK, Writes, Persist, Settle
  <2>2. results' \in {results, WithResult(job.res),
                      [results EXCEPT !.open = results.open \ {job.res}]}
    BY <1>3 DEF Persist, Settle
  <2>3. results' \in [kept: SUBSET Results, open: SUBSET Results]
    BY <1>1, <2>1, <2>2 DEF WithResult
  <2>4. UNCHANGED <<ledger, claims, triageHistory>>
    BY <1>3 DEF Persist, Settle
  <2>5. QED BY <1>1, <2>3, <2>4 DEF triageHistory
<1>4. CASE Reserve
  <2>1. Used \in Nat
    BY <1>1 DEF Used
  <2>2. ledger' \in {ledger, [day |-> day, used |-> Used + 1]}
    BY <1>4 DEF Reserve
  <2>3. units' \in {units, [units EXCEPT ![day] = units[day] + 1]}
    BY <1>4 DEF Reserve
  <2>4. ledger' \in [day: Days, used: Nat] /\ units' \in [Days -> Nat]
    BY <1>1, <2>1, <2>2, <2>3
  <2>5. UNCHANGED <<results, claims, calls>>
    BY <1>4 DEF Reserve
  <2>6. QED BY <1>1, <2>4, <2>5
<1>5. CASE Claim \/ Correct \/ Finish
  <2>1. job.run \in Runs /\ UNCHANGED <<ledger, results, triageHistory>>
    BY <1>1, <1>5 DEF JobOK, Triages, Claim, Correct, Finish
  <2> DEFINE key == Key(job.run)
  <2>2. key \in Keys
    BY <2>1 DEF Key, Keys, Runs
  <2>3. \/ claims' = claims
        \/ claims' = [claims EXCEPT !.active = claims.active \cup {key}, !.plain = claims.plain \ {key},
                                    !.late = claims.late \cup {key}]
        \/ claims' = [claims EXCEPT !.turns = claims.turns \cup {key}]
        \/ claims' = [claims EXCEPT
                        !.plain = IF job.coded THEN claims.plain ELSE claims.plain \cup ({key} \cap claims.active),
                        !.late = claims.late \cup {key}]
    BY <1>5 DEF Claim, Correct, Finish
  <2> HIDE DEF key
  <2>4. claims' \in Claims
    <3>1. claims.plain \cup ({key} \cap claims.active) \in SUBSET Keys
      BY <1>1, <2>2 DEF Claims
    <3>2. claims.active \cup {key} \in SUBSET Keys /\ claims.plain \ {key} \in SUBSET Keys
          /\ claims.late \cup {key} \in SUBSET Keys /\ claims.turns \cup {key} \in SUBSET Keys
      BY <1>1, <2>2 DEF Claims
    <3>3. CASE claims' = [claims EXCEPT !.active = claims.active \cup {key},
                                        !.plain = claims.plain \ {key},
                                        !.late = claims.late \cup {key}]
      BY <1>1, <3>2, <3>3 DEF Claims
    <3>4. CASE claims' = [claims EXCEPT !.turns = claims.turns \cup {key}]
      BY <1>1, <3>2, <3>4 DEF Claims
    <3>5. CASE claims' = [claims EXCEPT
                            !.plain = IF job.coded THEN claims.plain
                                      ELSE claims.plain \cup ({key} \cap claims.active),
                            !.late = claims.late \cup {key}]
      <4>1. CASE job.coded
        BY <1>1, <3>2, <3>5, <4>1 DEF Claims
      <4>2. CASE ~job.coded
        BY <1>1, <3>1, <3>2, <3>5, <4>2 DEF Claims
      <4>3. QED BY <4>1, <4>2
    <3>6. QED BY <1>1, <2>3, <3>3, <3>4, <3>5
  <2>5. QED BY <1>1, <2>1, <2>4 DEF triageHistory
<1>6. CASE Commit
  <2>1. claims' \in {claims, [claims EXCEPT !.late = {}]}
        /\ UNCHANGED <<ledger, results, triageHistory>>
    BY <1>6 DEF Commit
  <2>2. claims' \in Claims
    BY <1>1, <2>1 DEF Claims
  <2>3. QED BY <1>1, <2>1, <2>2 DEF triageHistory
<1>7. CASE CallModel
  <2>1. job.seen.head \in Moves
    BY <1>1, <1>7, ObsFields DEF JobOK, CallModel
  <2>2. calls' = [calls EXCEPT ![job.seen.head] = calls[job.seen.head] + 1]
        /\ UNCHANGED <<ledger, results, claims, units>>
    BY <1>7 DEF CallModel
  <2>3. QED BY <1>1, <2>1, <2>2
<1>8. CASE Supersede
  <2> DEFINE key == [ctx |-> job.seen, rec |-> FALSE]
  <2>1. job.seen \in Obs /\ UNCHANGED <<ledger, results, triageHistory>>
    BY <1>1, <1>8 DEF JobOK, Supersede
  <2>2. key \in Keys
    BY <2>1 DEF Keys
  <2>3. \/ claims' = claims
        \/ claims' = [claims EXCEPT !.active = claims.active \ {key}, !.superseded = claims.superseded \cup {key},
                                    !.tainted = key \notin claims.plain]
    BY <1>8 DEF Supersede
  <2> HIDE DEF key
  <2>4. claims' \in Claims
    <3>1. claims.active \ {key} \in SUBSET Keys /\ claims.superseded \cup {key} \in SUBSET Keys
          /\ (key \notin claims.plain) \in BOOLEAN
      BY <1>1, <2>2 DEF Claims
    <3>2. CASE claims' = [claims EXCEPT !.active = claims.active \ {key},
                                        !.superseded = claims.superseded \cup {key},
                                        !.tainted = key \notin claims.plain]
      BY <1>1, <3>1, <3>2 DEF Claims
    <3>3. QED BY <1>1, <2>3, <3>2
  <2>5. QED BY <1>1, <2>1, <2>4 DEF triageHistory
<1>9. \/ UNCHANGED <<ledger, results, claims, triageHistory>>
      \/ Persist \/ Settle \/ Reserve \/ Claim \/ Correct \/ Finish \/ Commit
      \/ CallModel \/ Supersede
  BY DEF TriageStep, Project, CreateCard, LeaveDecided, Recover, Refresh, Gate, Defer,
         Dispatch, Clear, Admit, Consume, Rescue
<1>10. QED BY <1>2, <1>3, <1>4, <1>5, <1>6, <1>7, <1>8, <1>9

\* A dispatch adds one run to those that wait.
LEMMA StepRuns ==
    ASSUME TypeInv, TriageStep
    PROVE  /\ runs' \subseteq Runs /\ IsFiniteSet(runs')
           /\ UNCHANGED <<pr, day, ended>>
<1>1. UNCHANGED <<pr, day, ended>>
  BY DEF TriageStep, Persist, Project, Settle, CreateCard, LeaveDecided, Recover,
         Refresh, Gate, Reserve, Defer, Commit, Dispatch, Clear, Admit, Claim,
         CallModel, Correct, Consume, Rescue, Finish, Supersede
<1>2. runs \subseteq Runs /\ IsFiniteSet(runs) /\ IsFiniteSet(ended) /\ JobOK(job)
  BY DEF TypeInv, TriageTypeOK, RoomInv
<1>3. CASE Dispatch
  <2> DEFINE r == [n |-> Cardinality(runs) + Cardinality(ended),
                   ctx |-> job.seen, rec |-> job.plan = "backfill"]
  <2>1. r \in Runs
    BY <1>2, <1>3, FS_CardinalityType DEF JobOK, Dispatch, Runs
  <2>2. runs' \in {runs, runs \cup {r}}
    BY <1>3 DEF Dispatch
  <2> HIDE DEF r
  <2>3. IsFiniteSet(runs \cup {r})
    BY <1>2, FS_AddElement
  <2>4. QED BY <1>1, <1>2, <2>1, <2>2, <2>3
<1>4. CASE ~Dispatch
  <2>1. runs' = runs
    BY <1>4 DEF TriageStep, Persist, Project, Settle, CreateCard, LeaveDecided,
         Recover, Refresh, Gate, Reserve, Defer, Commit, Clear, Admit, Claim,
         CallModel, Correct, Consume, Rescue, Finish, Supersede
  <2>2. QED BY <1>1, <1>2, <2>1
<1>5. QED BY <1>3, <1>4

\* A step of a job keeps the types.
LEMMA JobsKeepTypes ==
    ASSUME TypeInv, TriageStep
    PROVE  TypeInv'
<1>1. job' \in Job /\ JobOK(job')
  BY WritesJob, ScansJob, TriagesJob DEF TriageStep
<1>2. RoomInv'
  <2>1. spent'.moves = spent.moves /\ spent'.days = spent.days
        /\ UNCHANGED <<pr, day, ended>> /\ IsFiniteSet(runs')
    BY StepSpends, StepRuns
  <2>2. QED BY <2>1 DEF TypeInv, RoomInv
<1>3. TriageTypeOK'
  <2>1. UNCHANGED <<pr, day, ended>> /\ runs' \subseteq Runs
    BY StepRuns
  <2>2. card' \in Card /\ spent' \in Left
    BY StepCard, StepSpends
  <2>3. pr \in [head: Moves, base: Moves, facts: Moves] /\ day \in Days
        /\ ended \subseteq Runs
    BY DEF TypeInv, TriageTypeOK
  <2>4. QED BY <1>1, <2>1, <2>2, <2>3, StepRecords DEF TriageTypeOK
<1>4. QED BY <1>1, <1>2, <1>3, StepCard, ScansPlan DEF TypeInv

\* What the target, the calendar and people do keeps the types.
LEMMA WorldKeepsTypes ==
    ASSUME TypeInv, TargetMoves \/ Midnight \/ TouchCard \/ RunAgain \/ LostRunner
    PROVE  TypeInv'
<1>1. /\ pr \in [head: Moves, base: Moves, facts: Moves] /\ day \in Days
      /\ card \in Card /\ job \in Job /\ spent \in Left
      /\ JobOK(job) /\ PlanOK(card, job) /\ CardOK(card)
      /\ runs \subseteq Runs /\ ended \subseteq Runs
  BY DEF TypeInv, TriageTypeOK
<1>2. MaxMoves \in Nat /\ MaxDays \in Nat
  BY TriageAssumption DEF TriageAssumption
<1>3. CASE TargetMoves
  <2>1. PICK part \in {"head", "base", "facts"} : pr' = [pr EXCEPT ![part] = pr[part] + 1]
    BY <1>3 DEF TargetMoves
  <2>2. spent' \in Left /\ spent'.moves = spent.moves - 1 /\ spent'.days = spent.days
        /\ spent.moves \in Nat /\ spent.moves > 0
    BY <1>1, <1>3, SpendType DEF TargetMoves, Budget
  <2>3. \A p \in {"head", "base", "facts"} :
            pr[p] \in Moves /\ pr[p] + spent.moves <= MaxMoves
    BY <1>1 DEF TypeInv, RoomInv
  <2>4. \A p \in {"head", "base", "facts"} :
            pr'[p] = IF p = part THEN pr[p] + 1 ELSE pr[p]
    BY <1>1, <2>1
  <2>5. \A p \in {"head", "base", "facts"} :
            pr'[p] \in Moves /\ pr'[p] + spent'.moves <= MaxMoves
    BY <1>2, <2>2, <2>3, <2>4 DEF Moves
  <2>6. pr' \in [head: Moves, base: Moves, facts: Moves]
    BY <1>1, <2>1, <2>5
  <2>7. UNCHANGED <<day, ledger, card, results, claims, runs, ended, job, units, calls>>
    BY <1>3 DEF TargetMoves, triageHistory
  <2>8. RoomInv'
    BY <2>2, <2>5, <2>7 DEF RoomInv, TypeInv
  <2>9. TriageTypeOK'
    BY <2>2, <2>6, <2>7 DEF TypeInv, TriageTypeOK
  <2>10. QED BY <1>1, <2>7, <2>8, <2>9 DEF TypeInv
<1>4. CASE Midnight
  <2>1. day' = day + 1
        /\ UNCHANGED <<pr, ledger, card, results, claims, runs, ended, job, units, calls>>
    BY <1>4 DEF Midnight, triageHistory
  <2>2. spent' \in Left /\ spent'.moves = spent.moves /\ spent'.days = spent.days - 1
        /\ spent.days \in Nat /\ spent.days > 0
    BY <1>1, <1>4, SpendType DEF Midnight, Budget
  <2>3. day' \in Days /\ day' + spent'.days <= MaxDays
    BY <1>1, <1>2, <2>1, <2>2 DEF Days, TypeInv, RoomInv
  <2>4. RoomInv'
    BY <2>1, <2>2, <2>3 DEF RoomInv, TypeInv
  <2>5. TriageTypeOK'
    BY <2>1, <2>2, <2>3 DEF TypeInv, TriageTypeOK
  <2>6. QED BY <1>1, <2>1, <2>4, <2>5 DEF TypeInv
<1>5. CASE TouchCard
  <2>1. PICK place \in {"pending", "decided"} : card' = [card EXCEPT !.place = place]
    BY <1>5 DEF TouchCard
  <2>2. job' = (IF job.at = "idle" THEN job ELSE [job EXCEPT !.moved = TRUE])
        /\ UNCHANGED <<pr, day, ledger, results, claims, runs, ended, units, calls>>
        /\ Pending
    BY <1>5 DEF TouchCard, triageHistory
  <2>3. spent' \in Left /\ spent'.moves = spent.moves /\ spent'.days = spent.days
    BY <1>1, <1>5, SpendType DEF TouchCard
  <2>4. card' \in Card /\ card'.place = place /\ card'.obs = card.obs
        /\ card'.triaged = card.triaged /\ card'.attempts = card.attempts
    BY <1>1, <2>1 DEF Card
  <2>5. job' \in Job /\ job'.at = job.at /\ job'.seen = job.seen /\ job'.run = job.run
        /\ job'.res = job.res /\ job'.why = job.why /\ job'.plan = job.plan
    BY <1>1, <2>2 DEF Job
  <2>6. JobOK(job')
    BY <1>1, <2>5 DEF JobOK
  <2>7. PlanOK(card', job')
    BY <1>1, <2>4, <2>5 DEF PlanOK, Attempts
  <2>8. CardOK(card')
    BY <1>1, <2>2, <2>4 DEF CardOK, Pending
  <2>9. RoomInv' /\ TriageTypeOK'
    BY <2>2, <2>3, <2>4, <2>5 DEF RoomInv, TypeInv, TriageTypeOK
  <2>10. QED BY <2>6, <2>7, <2>8, <2>9 DEF TypeInv
<1>6. CASE RunAgain
  <2>1. PICK r \in ended : runs' = runs \cup {r} /\ ended' = ended \ {r}
    BY <1>6 DEF RunAgain
  <2>2. UNCHANGED <<pr, day, ledger, card, results, claims, job, units, calls>>
    BY <1>6 DEF RunAgain, triageHistory
  <2>3. spent' \in Left /\ spent'.moves = spent.moves /\ spent'.days = spent.days
    BY <1>1, <1>6, SpendType DEF RunAgain
  <2>4. IsFiniteSet(runs') /\ IsFiniteSet(ended')
    BY <2>1, FS_AddElement, FS_RemoveElement DEF TypeInv, RoomInv
  <2>5. runs' \subseteq Runs /\ ended' \subseteq Runs
    BY <1>1, <2>1
  <2>6. RoomInv' /\ TriageTypeOK'
    BY <2>2, <2>3, <2>4, <2>5 DEF RoomInv, TypeInv, TriageTypeOK
  <2>7. QED BY <1>1, <2>2, <2>6 DEF TypeInv
<1>7. CASE LostRunner
  <2>1. UNCHANGED <<pr, day, ledger, card, results, claims, runs, ended, units, calls>>
    BY <1>7 DEF LostRunner, triageHistory
  <2>2. spent' \in Left /\ spent'.moves = spent.moves /\ spent'.days = spent.days
    BY <1>1, <1>7, SpendType DEF LostRunner
  <2>3. job' = Idle /\ job' \in Job
    BY <1>7, EndFacts DEF LostRunner
  <2>4. RoomInv' /\ TriageTypeOK'
    BY <2>1, <2>2, <2>3 DEF RoomInv, TypeInv, TriageTypeOK
  <2>5. QED BY <1>1, <2>1, <2>3, <2>4, IdleOK DEF TypeInv
<1>8. QED BY <1>3, <1>4, <1>5, <1>6, <1>7

\* A job that starts keeps the types.
LEMMA StartsKeepTypes ==
    ASSUME TypeInv, StartScan \/ StartTriage \/ StartReplay
    PROVE  TypeInv'
<1>1. /\ pr \in [head: Moves, base: Moves, facts: Moves]
      /\ card \in Card /\ spent \in Left /\ CardOK(card)
      /\ runs \subseteq Runs /\ ended \subseteq Runs
      /\ IsFiniteSet(runs) /\ IsFiniteSet(ended)
  BY DEF TypeInv, TriageTypeOK, RoomInv
<1>2. UNCHANGED <<pr, day, ledger, card, results, claims, units, calls>>
  BY DEF StartScan, StartTriage, StartReplay, triageHistory
<1>3. ASSUME spent' \in Left, spent'.moves = spent.moves, spent'.days = spent.days,
             runs' \subseteq Runs, ended' \subseteq Runs,
             IsFiniteSet(runs'), IsFiniteSet(ended'),
             job' \in Job, JobOK(job'), PlanOK(card, job')
      PROVE  TypeInv'
  <2>1. RoomInv' /\ TriageTypeOK'
    BY <1>2, <1>3 DEF RoomInv, TypeInv, TriageTypeOK
  <2>2. QED BY <1>1, <1>2, <1>3, <2>1 DEF TypeInv
<1>4. CASE StartScan
  <2>1. PICK whole \in BOOLEAN :
            job' = [Idle EXCEPT !.seen = [Live EXCEPT !.whole = whole], !.at = "recover"]
    BY <1>4 DEF StartScan
  <2>2. UNCHANGED spent \/ (Budget("faults") /\ Spend("faults"))
    BY <1>4 DEF StartScan
  <2>3. spent' \in Left /\ spent'.moves = spent.moves /\ spent'.days = spent.days
    BY <1>1, <2>2, SpendType
  <2>4. [Live EXCEPT !.whole = whole] \in Obs
    BY <1>1 DEF Live, Obs
  <2>5. job' \in Job /\ job'.at = "recover" /\ job'.seen \in Obs /\ job'.run = NoRun
        /\ job'.plan = "none" /\ job'.why = "none"
    BY <2>1, <2>4, IdleFacts DEF Job, Stages
  <2>6. JobOK(job') /\ PlanOK(card, job')
    BY <2>5 DEF JobOK, PlanOK, Triages, Writes, Queues, Scans
  <2>7. runs' = runs /\ ended' = ended
    BY <1>4 DEF StartScan
  <2>8. QED BY <1>1, <1>3, <2>3, <2>5, <2>6, <2>7
<1>5. CASE StartTriage
  <2>1. PICK r \in runs :
            /\ runs' = runs \ {r} /\ ended' = ended \cup {r}
            /\ job' = [Idle EXCEPT !.at = "admit", !.run = r, !.seen = r.ctx]
    BY <1>5 DEF StartTriage
  <2>2. r \in Runs /\ r.ctx \in Obs /\ r # NoRun
    <3>1. r \in Runs
      BY <1>1
    <3>2. r.ctx \in Obs /\ r.n \in Nat
      BY <3>1 DEF Runs
    <3>3. NoRun.n = -1
      BY DEF NoRun, None
    <3>4. QED BY <3>1, <3>2, <3>3
  <2>3. job' \in Job /\ job'.at = "admit" /\ job'.seen = r.ctx /\ job'.run = r
        /\ job'.plan = "none" /\ job'.why = "none"
    BY <2>1, <2>2, IdleFacts DEF Job, Stages
  <2>4. JobOK(job') /\ PlanOK(card, job')
    BY <2>2, <2>3 DEF JobOK, PlanOK, Triages, Writes, Queues, Scans
  <2>5. IsFiniteSet(runs') /\ IsFiniteSet(ended') /\ runs' \subseteq Runs
        /\ ended' \subseteq Runs
    BY <1>1, <2>1, <2>2, FS_AddElement, FS_RemoveElement
  <2>6. spent' = spent
    BY <1>5 DEF StartTriage
  <2>7. QED BY <1>1, <1>3, <2>3, <2>4, <2>5, <2>6
<1>6. CASE StartReplay
  <2>1. PICK plan \in Plans :
            /\ Replayable(plan)
            /\ job' = [Idle EXCEPT !.at = "supersede", !.seen = card.obs, !.plan = plan]
    BY <1>6 DEF StartReplay
  <2>2. card.obs \in Obs /\ plan # "none"
    BY <1>1, <2>1 DEF Replayable, ReplayInScope, Pending, CardOK
  <2>3. job' \in Job /\ job'.at = "supersede" /\ job'.seen = card.obs
        /\ job'.run = NoRun /\ job'.plan = plan /\ job'.why = "none"
    BY <2>1, <2>2, IdleFacts DEF Job, Stages
  <2>4. JobOK(job') /\ PlanOK(card, job')
    BY <2>2, <2>3 DEF JobOK, PlanOK, Triages, Writes, Queues, Scans
  <2>5. spent' \in Left /\ spent'.moves = spent.moves /\ spent'.days = spent.days
    <3>1. spent.replays > 0 /\ spent' = [spent EXCEPT !.replays = spent.replays - 1]
      BY <1>6 DEF StartReplay
    <3>2. MaxReplays \in Nat
      BY TriageAssumption DEF TriageAssumption
    <3>3. QED BY <1>1, <3>1, <3>2 DEF Left
  <2>6. runs' = runs /\ ended' = ended
    BY <1>6 DEF StartReplay
  <2>7. QED BY <1>1, <1>3, <2>3, <2>4, <2>5, <2>6
<1>7. QED BY <1>4, <1>5, <1>6

\* Every step keeps the types.
LEMMA TypesKept ==
    ASSUME TypeInv, [TriageNext]_triageVars
    PROVE  TypeInv'
<1>1. CASE TriageNext
  BY <1>1, WorldKeepsTypes, StartsKeepTypes, JobsKeepTypes DEF TriageNext
<1>2. CASE UNCHANGED triageVars
  BY <1>2 DEF triageVars, triageHistory, TypeInv, TriageTypeOK, RoomInv
<1>3. QED BY <1>1, <1>2

\* The first state has its types.
LEMMA TypesFirst == TriageInit => TypeInv
<1> SUFFICES ASSUME TriageInit PROVE TypeInv
  OBVIOUS
<1>1. /\ MaxMoves \in Nat /\ MaxDays \in Nat /\ MaxActs \in Nat /\ MaxFaults \in Nat
      /\ MaxAgain \in Nat /\ MaxReplays \in Nat /\ MaxTurns \in Nat
  BY TriageAssumption DEF TriageAssumption
<1>2. pr \in [head: Moves, base: Moves, facts: Moves] /\ day \in Days
      /\ ledger \in [day: Days, used: Nat]
  BY <1>1 DEF TriageInit, Moves, Days
<1>3. card \in Card /\ job \in Job
  BY NoCardType, IdleFacts DEF TriageInit
<1>4. /\ results \in [kept: SUBSET Results, open: SUBSET Results]
      /\ claims \in Claims /\ runs \subseteq Runs /\ ended \subseteq Runs
  BY DEF TriageInit, Claims
<1>5. units \in [Days -> Nat] /\ calls \in [Moves -> Nat] /\ spent \in Left
  BY <1>1 DEF TriageInit, Left, Days
<1>6. RoomInv
  BY <1>1, FS_EmptySet DEF TriageInit, RoomInv
<1>7. CardOK(card)
  BY DEF TriageInit, CardOK, NoCard
<1>8. JobOK(job) /\ PlanOK(card, job)
  BY IdleOK DEF TriageInit
<1>9. QED BY <1>2, <1>3, <1>4, <1>5, <1>6, <1>7, <1>8 DEF TypeInv, TriageTypeOK

\* Every reachable state of the triage queue is well typed, and no count of
\* attempts goes below none.
THEOREM TriageTypeCorrect == TriageSpec => []TriageTypeOK
<1>1. TypeInv => TriageTypeOK
  BY DEF TypeInv
<1>2. QED BY <1>1, TypesFirst, TypesKept, PTL DEF TriageSpec

-----------------------------------------------------------------------------
(* What is seen, and when: observations, stages and replays *)

\* One observation was made no later than another.
NoLater(a, b) == a.head <= b.head /\ a.base <= b.base /\ a.facts <= b.facts

\* An observation has numbers, those of the incomplete card too.
HasNumbers(o) == o.head \in Int /\ o.base \in Int /\ o.facts \in Int

\* Observations have numbers.
LEMMA ObsNumbers == \A o \in Obs \cup {NoObs} : HasNumbers(o)
<1>1. None \in Int
  BY DEF None
<1>2. ASSUME NEW o \in Obs PROVE HasNumbers(o)
  <2>1. o.head \in Moves /\ o.base \in Moves /\ o.facts \in Moves /\ Moves \subseteq Int
    BY ObsFields
  <2>2. QED BY <2>1 DEF HasNumbers
<1>3. HasNumbers(NoObs)
  BY <1>1, ObsFields DEF HasNumbers
<1>4. QED BY <1>2, <1>3

\* An observation is no later than itself, and the order is transitive.
LEMMA NoLaterOrder ==
    /\ \A a : HasNumbers(a) => NoLater(a, a)
    /\ \A a, b, c : /\ HasNumbers(a) /\ HasNumbers(b) /\ HasNumbers(c)
                   /\ NoLater(a, b) /\ NoLater(b, c)
                   => NoLater(a, c)
BY DEF HasNumbers, NoLater

\* The card, the claims and the jobs of scans and replays follow the target.
OrderInv ==
    /\ NoLater(card.obs, pr)
    /\ \A k \in claims.active : NoLater(k.ctx, card.obs)
    /\ job.at # "idle" /\ job.run = NoRun =>
          NoLater(card.obs, job.seen) /\ NoLater(job.seen, pr)
    /\ job.at \in {"claim", "model"} => job.seen = card.obs

\* The event key of the attempt that the card is queued for.
CardKey == [ctx |-> card.ctx, rec |-> card.backfill = card.ctx]

\* The event key of the attempt that a replay repeats.
OldKey(o) == [ctx |-> o, rec |-> FALSE]

\* What a job found in order, until it acts on it.
StagesInv ==
    /\ job.at = "claim" => card.status = "queued" /\ CardKey = Key(job.run)
    /\ job.plan # "none" /\ job.at \in Queues \cup {"supersede"} => job.seen.whole
    /\ job.plan \notin {"none", "backfill"} /\ job.at \in Queues =>
          OldKey(job.seen) \notin claims.active
    /\ job.plan = "backfill" /\ job.at \in Queues =>
          card.backfill = NoObs /\ ~card.replayed
    /\ job.plan = "reentry" /\ job.at \in Queues =>
          card.replayed /\ OldKey(card.ctx) \notin claims.late
    /\ job.at \in {"reserve", "commit"} =>
          \/ job.moved
          \/ ShouldTriage(Prepared(card, job.plan, job.seen), job.seen, job.plan)

\* A replayed card has no active claim of an attempt at what it shows, but one
\* made since the replay.
ReplayedInv ==
    LET key == OldKey([card.obs EXCEPT !.whole = TRUE])
    IN  card.replayed /\ key \in claims.active => key \in claims.late

\* The card is the same but for what was said on it and its place, and no
\* attempt was queued.
CardCalm ==
    /\ card'.obs = card.obs /\ card'.ctx = card.ctx /\ card'.backfill = card.backfill
    /\ card'.replayed = card.replayed /\ card'.attempts = card.attempts
    /\ card'.uses = card.uses
    /\ card'.status = "queued" => card.status = "queued"

\* No claim is made or taken back.
ClaimsCalm == claims'.active = claims.active /\ claims.late \subseteq claims'.late

\* The job waits, ends, or goes on to no stage where it has a claim or a unit.
JobCalm ==
    /\ job'.at # "idle" => job.at # "idle" /\ job'.seen = job.seen /\ job'.run = job.run
    /\ job'.at \notin {"claim", "model", "supersede", "commit", "reserve", "gate"}

\* The steps that neither queue, nor claim, nor show a new observation.
CalmStep ==
    \/ Persist \/ Project \/ Settle \/ LeaveDecided \/ Recover \/ Defer \/ Dispatch
    \/ Clear \/ Correct \/ Consume \/ Rescue \/ Finish \/ LostRunner

\* Such steps leave the card and the claims calm.
LEMMA CalmSteps ==
    ASSUME TypeInv, CalmStep
    PROVE  CardCalm /\ ClaimsCalm /\ UNCHANGED <<pr, day, ledger, units, calls>>
<1>1. card \in Card /\ claims \in Claims
  BY DEF TypeInv, TriageTypeOK
<1>2. UNCHANGED <<pr, day, ledger, units, calls>>
  BY DEF CalmStep, Persist, Project, Settle, LeaveDecided, Recover, Defer, Dispatch,
         Clear, Correct, Consume, Rescue, Finish, LostRunner, triageHistory
<1>3. CardCalm
  <2>1. CASE card' = card
    BY <2>1 DEF CardCalm
  <2>2. CASE card' \in {Deferred(card), Cleared(card)}
    <3>1. CASE card' = Deferred(card)
      BY <1>1, <3>1 DEF CardCalm, Deferred, Card
    <3>2. CASE card' = Cleared(card)
      BY <1>1, <3>2 DEF CardCalm, Cleared, Card
    <3>3. QED BY <2>2, <3>1, <3>2
  <2>3. ASSUME NEW base, card' = Projected(card, job.res, base)
        PROVE  CardCalm
    <3>1. card'.status \in {"error", "succeeded"}
      BY <1>1, <2>3 DEF Projected, Card
    <3>2. QED BY <1>1, <2>3, <3>1 DEF CardCalm, Projected, Card
  <2>4. QED BY <2>1, <2>2, <2>3
          DEF CalmStep, Persist, Project, Settle, LeaveDecided, Recover, Defer,
              Dispatch, Clear, Correct, Consume, Rescue, Finish, LostRunner
<1>4. ClaimsCalm
  <2>1. CASE claims' = claims
    BY <2>1 DEF ClaimsCalm
  <2>2. CASE Correct
    BY <1>1, <2>2 DEF Correct, ClaimsCalm, Claims
  <2>3. CASE Finish
    BY <1>1, <2>3 DEF Finish, ClaimsCalm, Claims
  <2>4. QED BY <2>1, <2>2, <2>3
          DEF CalmStep, Persist, Project, Settle, LeaveDecided, Recover, Defer,
              Dispatch, Clear, Consume, Rescue, LostRunner
<1>5. QED BY <1>2, <1>3, <1>4

\* A job that goes on to publish a result stays calm.
LEMMA PublishCalm ==
    ASSUME job \in Job, job.at # "idle", NEW res, NEW why, Publish(res, why)
    PROVE  JobCalm
BY DEF Publish, JobCalm, Job

\* Such steps leave the job calm.
LEMMA CalmJobs ==
    ASSUME TypeInv, CalmStep
    PROVE  JobCalm
<1>1. job \in Job /\ job.why \in {"none", "recovered", "undispatched", "denied",
                                  "consumed", "rescued"}
  BY JobFields DEF TypeInv, TriageTypeOK
<1>2. CASE End
  BY <1>2, EndFacts DEF JobCalm
<1>3. CASE Persist \/ Project \/ Settle
  <2>1. job.at # "idle"
    BY <1>3 DEF Persist, Project, Settle
  <2>2. ASSUME NEW stage \in {Applied(job.why), Skipped(job.why), Raised(job.why)},
               Return(stage)
        PROVE  JobCalm
    BY <1>1, <1>2, <2>1, <2>2, Callers, ReturnFacts DEF JobCalm, SameJob, Return
  <2>3. ASSUME NEW stage \in {"project", "settle"}, Go(stage)
        PROVE  JobCalm
    BY <1>1, <2>1, <2>3, GoFacts DEF JobCalm, SameJob, Stages
  <2>4. QED BY <1>3, <2>2, <2>3 DEF Persist, Project, Settle
<1>4. CASE Recover
  <2>1. CASE Go("refresh")
    BY <1>1, <1>4, <2>1 DEF Recover, Go, JobCalm, Job
  <2>2. ASSUME NEW r, NEW stage \in {"settle", "persist"},
               job' = [job EXCEPT !.at = stage, !.res = r, !.why = "recovered"]
        PROVE  JobCalm
    <3>1. /\ job'.at = stage /\ job'.seen = job.seen /\ job'.run = job.run
          /\ job.at # "idle"
      BY <1>1, <1>4, <2>2 DEF Recover, Job
    <3>2. QED BY <3>1 DEF JobCalm
  <2>3. QED BY <1>4, <2>1, <2>2 DEF Recover
<1>5. CASE Dispatch
  <2>1. job.at # "idle"
    BY <1>5 DEF Dispatch
  <2>2. End \/ \E res : Publish(res, "undispatched")
    BY <1>5 DEF Dispatch
  <2>3. QED BY <1>1, <1>2, <2>1, <2>2, PublishCalm
<1>6. CASE Correct \/ Consume
  <2>1. CASE Correct
    BY <1>1, <2>1 DEF Correct, Publish, JobCalm, Job
  <2>2. CASE Consume
    <3>1. job.at = "consume"
      BY <2>2 DEF Consume
    <3>2. PICK res : Publish(res, "consumed")
      BY <2>2 DEF Consume
    <3>3. QED BY <1>1, <3>1, <3>2, PublishCalm
  <2>3. QED BY <1>6, <2>1, <2>2
<1>7. CASE Rescue
  <2>1. job.at = "rescue"
    BY <1>7 DEF Rescue
  <2>2. CASE Go("finish")
    BY <1>1, <2>1, <2>2 DEF Go, JobCalm, Job
  <2>3. CASE Publish(ErrorOf("unfinished"), "rescued")
    BY <1>1, <2>1, <2>3, PublishCalm
  <2>4. QED BY <1>7, <2>2, <2>3 DEF Rescue
<1>8. CASE LeaveDecided \/ Defer \/ Clear \/ Finish \/ LostRunner
  BY <1>2, <1>8 DEF LeaveDecided, Defer, Clear, Finish, LostRunner
<1>9. QED BY <1>3, <1>4, <1>5, <1>6, <1>7, <1>8 DEF CalmStep

\* A step that is calm in every part keeps what is seen, and when.
LEMMA CalmKeepsOrder ==
    ASSUME OrderInv, StagesInv, ReplayedInv, CardCalm, ClaimsCalm, JobCalm,
           UNCHANGED pr
    PROVE  OrderInv' /\ StagesInv' /\ ReplayedInv'
<1>1. OrderInv'
  BY DEF OrderInv, CardCalm, ClaimsCalm, JobCalm
<1>2. StagesInv'
  BY DEF StagesInv, JobCalm, Queues
<1>3. ReplayedInv'
  BY DEF ReplayedInv, CardCalm, ClaimsCalm
<1>4. QED BY <1>1, <1>2, <1>3

\* The marks a replay leaves alone or sets (triage_replay's preparations).
LEMMA PreparedMarks ==
    ASSUME NEW c \in Card, NEW plan \in Plans, NEW o
    PROVE  /\ Prepared(c, plan, o).uses = c.uses
           /\ plan = "backfill" => Prepared(c, plan, o).backfill = o
           /\ plan # "backfill" => Prepared(c, plan, o).backfill = c.backfill
           /\ plan \notin {"none", "absent"} => Prepared(c, plan, o).triaged = None
<1>0. Attempts(c, o.head) \in Nat
  BY AttemptsType
<1>1. CASE plan = "none"
  BY <1>0, <1>1 DEF Prepared
<1>2. CASE plan = "backfill"
  BY <1>0, <1>2 DEF Prepared, Card
<1>3. CASE plan = "absent"
  BY <1>0, <1>3 DEF Prepared, Card
<1>4. CASE plan \notin {"none", "backfill", "absent"}
  <2> DEFINE back == Attempts(c, o.head) - (IF plan = "reentry" THEN 1 ELSE 0)
  <2>1. Prepared(c, plan, o)
          = [c EXCEPT !.triaged = None, !.status = "none", !.rebound = NoObs,
                      !.shown = NoResult, !.attempts = back, !.replayed = TRUE]
    BY <1>4 DEF Prepared
  <2> HIDE DEF back
  <2>2. QED BY <1>4, <2>1 DEF Card
<1>5. QED BY <1>1, <1>2, <1>3, <1>4

\* Every replay but a backfill leaves its marker (triage_replay's preparations).
LEMMA PreparedMarker ==
    ASSUME NEW c \in Card, NEW plan \in Plans, NEW o
    PROVE  /\ plan \in {"none", "backfill"} => Prepared(c, plan, o).replayed = c.replayed
           /\ plan \notin {"none", "backfill"} => Prepared(c, plan, o).replayed = TRUE
<1>0. Attempts(c, o.head) \in Nat
  BY AttemptsType
<1>1. CASE plan = "none"
  BY <1>0, <1>1 DEF Prepared
<1>2. CASE plan = "backfill"
  BY <1>0, <1>2 DEF Prepared, Card
<1>3. CASE plan = "absent"
  BY <1>0, <1>3 DEF Prepared, Card
<1>4. CASE plan \notin {"none", "backfill", "absent"}
  <2> DEFINE back == Attempts(c, o.head) - (IF plan = "reentry" THEN 1 ELSE 0)
  <2>1. Prepared(c, plan, o)
          = [c EXCEPT !.triaged = None, !.status = "none", !.rebound = NoObs,
                      !.shown = NoResult, !.attempts = back, !.replayed = TRUE]
    BY <1>4 DEF Prepared
  <2> HIDE DEF back
  <2>2. QED BY <1>4, <2>1 DEF Card
<1>5. QED BY <1>1, <1>2, <1>3, <1>4

\* A replay gives back the attempt of the run it replays and takes no other
\* (triage_replay.prepare_reentry).
LEMMA PreparedAttempts ==
    ASSUME NEW c \in Card, NEW plan \in Plans, NEW o
    PROVE  /\ Attempts(c, o.head) \in Nat
           /\ plan \in {"none", "backfill"} => Prepared(c, plan, o).attempts = c.attempts
           /\ plan = "reentry" => Prepared(c, plan, o).attempts = Attempts(c, o.head) - 1
           /\ plan \notin {"none", "backfill", "reentry"} =>
                 Prepared(c, plan, o).attempts = Attempts(c, o.head)
<1>0. Attempts(c, o.head) \in Nat
  BY AttemptsType
<1>1. CASE plan = "none"
  BY <1>0, <1>1 DEF Prepared
<1>2. CASE plan = "backfill"
  BY <1>0, <1>2 DEF Prepared, Card
<1>3. CASE plan = "absent"
  BY <1>0, <1>3 DEF Prepared, Card
<1>4. CASE plan \notin {"none", "backfill", "absent"}
  <2> DEFINE back == Attempts(c, o.head) - (IF plan = "reentry" THEN 1 ELSE 0)
  <2>1. Prepared(c, plan, o)
          = [c EXCEPT !.triaged = None, !.status = "none", !.rebound = NoObs,
                      !.shown = NoResult, !.attempts = back, !.replayed = TRUE]
    BY <1>4 DEF Prepared
  <2>2. /\ plan = "reentry" => back = Attempts(c, o.head) - 1
        /\ plan # "reentry" => back = Attempts(c, o.head)
    BY <1>0
  <2> HIDE DEF back
  <2>3. Prepared(c, plan, o).attempts = back
    BY <2>1 DEF Card
  <2>4. QED BY <1>0, <1>4, <2>2, <2>3
<1>5. QED BY <1>1, <1>2, <1>3, <1>4

\* What queueing does to the books of a card (body_with_triage_queued).
LEMMA QueuedFields ==
    ASSUME NEW c \in Card, NEW plan, NEW o
    PROVE  /\ Attempts(c, o.head) \in Nat
           /\ Queued(c, o, plan).status = "queued" /\ Queued(c, o, plan).ctx = o
           /\ Queued(c, o, plan).backfill = c.backfill
           /\ Queued(c, o, plan).replayed = c.replayed
           /\ Queued(c, o, plan).obs = c.obs
           /\ ContextMoved(c, o) /\ plan # "backfill" =>
                 Queued(c, o, plan).uses = c.uses \cup {o.base}
           /\ ~(ContextMoved(c, o) /\ plan # "backfill") =>
                 Queued(c, o, plan).uses = c.uses
           /\ ContextMoved(c, o) \/ plan = "backfill" =>
                 Queued(c, o, plan).attempts = c.attempts
           /\ ~(ContextMoved(c, o) \/ plan = "backfill") =>
                 Queued(c, o, plan).attempts = Attempts(c, o.head) + 1
<1> DEFINE uses == IF ContextMoved(c, o) /\ plan # "backfill"
                   THEN c.uses \cup {o.base} ELSE c.uses
           count == IF ContextMoved(c, o) \/ plan = "backfill" THEN c.attempts
                    ELSE Attempts(c, o.head) + 1
<1>1. Queued(c, o, plan)
        = [c EXCEPT !.triaged = o.head, !.tbase = o.base, !.status = "queued",
                    !.ctx = o, !.rebound = NoObs, !.shown = NoResult,
                    !.uses = uses, !.attempts = count]
  BY DEF Queued
<1> HIDE DEF uses, count
<1>2. /\ Queued(c, o, plan).status = "queued" /\ Queued(c, o, plan).ctx = o
      /\ Queued(c, o, plan).backfill = c.backfill
      /\ Queued(c, o, plan).replayed = c.replayed
      /\ Queued(c, o, plan).obs = c.obs
      /\ Queued(c, o, plan).uses = uses /\ Queued(c, o, plan).attempts = count
  BY <1>1 DEF Card
<1>3. Attempts(c, o.head) \in Nat
  BY AttemptsType
<1>4. QED BY <1>2, <1>3 DEF uses, count

\* What upsert_card does to the books of a card: they stay with the head.
LEMMA RefreshedFields ==
    ASSUME NEW c \in Card, NEW o
    PROVE  /\ Refreshed(c, o).obs = o
           /\ c.obs.head = o.head =>
                 /\ Refreshed(c, o).ctx = c.ctx /\ Refreshed(c, o).status = c.status
                 /\ Refreshed(c, o).backfill = c.backfill
                 /\ Refreshed(c, o).replayed = c.replayed
                 /\ Refreshed(c, o).attempts = c.attempts
                 /\ Refreshed(c, o).uses = c.uses
           /\ c.obs.head # o.head =>
                 /\ Refreshed(c, o).status = "none" /\ ~Refreshed(c, o).replayed
                 /\ Refreshed(c, o).backfill = NoObs
                 /\ Refreshed(c, o).attempts = 0 /\ Refreshed(c, o).uses = {}
<1>1. CASE c.obs.head = o.head
  BY <1>1 DEF Refreshed, Card
<1>2. CASE c.obs.head # o.head
  BY <1>2 DEF Refreshed, NoCard
<1>3. QED BY <1>1, <1>2

-----------------------------------------------------------------------------
\* A new observation: the card shows what the scan saw, no later than the target
\* is, and claims of an attempt at it are none, but for those it showed before.
LEMMA NewObservation ==
    ASSUME TypeInv, OrderInv, job.at \in {"recover", "refresh"},
           card' \in Card, card'.obs = job.seen,
           card'.replayed => card.replayed, UNCHANGED <<pr, claims>>,
           job'.at # "idle" => SameJob /\ job'.at = "gate"
    PROVE  /\ OrderInv' /\ (ReplayedInv => ReplayedInv')
<1>1. job.seen \in Obs /\ job.run = NoRun /\ job.at # "idle"
  BY DEF TypeInv, JobOK, Scans
<1>2. NoLater(card.obs, job.seen) /\ NoLater(job.seen, pr)
  BY <1>1 DEF OrderInv
<1>3. /\ card.obs.head \in Int /\ card.obs.base \in Int /\ card.obs.facts \in Int
      /\ job.seen.head \in Int /\ job.seen.base \in Int /\ job.seen.facts \in Int
      /\ \A k \in claims.active :
            k.ctx.head \in Int /\ k.ctx.base \in Int /\ k.ctx.facts \in Int
  <2>1. card.obs \in Obs \cup {NoObs} /\ claims.active \subseteq Keys
    BY DEF TypeInv, TriageTypeOK, Card, Claims
  <2>2. \A k \in claims.active : k.ctx \in Obs
    BY <2>1 DEF Keys
  <2>3. None \in Int
    BY DEF None
  <2>4. QED BY <1>1, <2>1, <2>2, <2>3, ObsFields
<1>4. OrderInv'
  <2>1. \A k \in claims.active : NoLater(k.ctx, job.seen)
    BY <1>2, <1>3 DEF OrderInv, NoLater
  <2>2. NoLater(job.seen, job.seen)
    BY <1>3 DEF NoLater
  <2>3. job'.at \notin {"claim", "model"} /\ (job'.at # "idle" => job'.seen = job.seen)
    BY DEF SameJob
  <2>4. QED BY <1>2, <2>1, <2>2, <2>3 DEF OrderInv
<1>5. ASSUME ReplayedInv PROVE ReplayedInv'
  <2> DEFINE key == OldKey([job.seen EXCEPT !.whole = TRUE])
  <2>1. SUFFICES ASSUME card'.replayed, key \in claims.active PROVE key \in claims.late
    BY DEF ReplayedInv
  <2>2. key.ctx.head = job.seen.head /\ key.ctx.base = job.seen.base
        /\ key.ctx.facts = job.seen.facts
    BY <1>1 DEF OldKey, Obs
  <2>3. NoLater(key.ctx, card.obs)
    BY <2>1 DEF OrderInv
  <2>4. card.obs.head = job.seen.head /\ card.obs.base = job.seen.base
        /\ card.obs.facts = job.seen.facts
    <3> HIDE DEF key
    <3>1. QED BY <1>2, <1>3, <2>2, <2>3 DEF NoLater
  <2>5. card.obs \in Obs
    <3>1. card.obs \in Obs \cup {NoObs}
      BY DEF TypeInv, TriageTypeOK, Card
    <3>2. job.seen.head \in Moves
      BY <1>1, ObsFields
    <3>3. QED BY <2>4, <3>1, <3>2, ObsFields
  <2>6. [card.obs EXCEPT !.whole = TRUE] = [job.seen EXCEPT !.whole = TRUE]
    BY <1>1, <2>4, <2>5 DEF Obs
  <2>7. QED BY <1>5, <2>1, <2>6 DEF ReplayedInv
<1>6. QED BY <1>4, <1>5

\* The scan creates or refreshes the card (render_card.upsert_card).
LEMMA ShowsKeepOrder ==
    ASSUME TypeInv, TypeInv', OrderInv, StagesInv, ReplayedInv, CreateCard \/ Refresh
    PROVE  OrderInv' /\ StagesInv' /\ ReplayedInv'
<1>1. card \in Card /\ job \in Job /\ card' \in Card /\ UNCHANGED <<pr, claims>>
  BY DEF TypeInv, TriageTypeOK, CreateCard, Refresh
<1>2. job.at \in {"recover", "refresh"} /\ job.plan = "none"
  BY DEF TypeInv, JobOK, CreateCard, Refresh
<1>3. job' = Idle \/ (SameJob /\ job'.at = "gate")
  BY <1>1, GoFacts, EndFacts DEF CreateCard, Refresh, Stages
<1>4. StagesInv'
  <2>1. job'.plan = "none" /\ job'.at \in {"idle", "gate"}
    BY <1>2, <1>3, IdleFacts DEF SameJob
  <2>2. QED BY <2>1 DEF StagesInv, Queues
<1>5. CASE card' = card
  <2>1. OrderInv'
    BY <1>1, <1>2, <1>3, <1>5, IdleFacts DEF OrderInv, SameJob
  <2>2. ReplayedInv'
    BY <1>1, <1>5 DEF ReplayedInv
  <2>3. QED BY <1>4, <2>1, <2>2
<1>6. CASE card' # card
  <2>1. card'.obs = job.seen /\ (card'.replayed => card.replayed)
    <3>1. CASE CreateCard
      BY <1>1, <1>6, <3>1 DEF CreateCard, NoCard
    <3>2. CASE Refresh
      <4>0. card \in Card
        BY <1>1
      <4>1. card' = Refreshed(card, job.seen)
        BY <1>6, <3>2 DEF Refresh
      <4>2. CASE card.obs.head = job.seen.head
        <5>1. card'.obs = job.seen /\ card'.replayed = card.replayed
          BY <4>0, <4>1, <4>2, RefreshedFields
        <5>2. QED BY <5>1
      <4>3. CASE card.obs.head # job.seen.head
        <5>1. card'.obs = job.seen /\ ~card'.replayed
          BY <4>0, <4>1, <4>3, RefreshedFields
        <5>2. QED BY <5>1
      <4>4. QED BY <4>2, <4>3
    <3>3. QED BY <3>1, <3>2
  <2>2. job'.at # "idle" => SameJob /\ job'.at = "gate"
    BY <1>3, IdleFacts
  <2>3. QED BY <1>1, <1>2, <1>4, <2>1, <2>2, NewObservation
<1>7. QED BY <1>5, <1>6

\* The gate and the reservation hand on what they found (maybe_queue_auto_triage,
\* reserve_triage_budget).
LEMMA GateKeepsOrder ==
    ASSUME TypeInv, OrderInv, StagesInv, ReplayedInv, Gate \/ Reserve
    PROVE  OrderInv' /\ StagesInv' /\ ReplayedInv'
<1>1. /\ job \in Job /\ UNCHANGED <<pr, card, claims>> /\ job.at \in {"gate", "reserve"}
  BY DEF TypeInv, TriageTypeOK, Gate, Reserve
<1>2. ReplayedInv'
  BY <1>1 DEF ReplayedInv
<1>3. CASE End
  BY <1>1, <1>2, <1>3, EndFacts DEF OrderInv, StagesInv, Queues
<1>4. CASE Go("defer")
  <2>1. job'.at = "defer" /\ SameJob
    BY <1>1, <1>4, GoFacts DEF Stages
  <2>2. QED BY <1>1, <1>2, <2>1 DEF OrderInv, StagesInv, Queues, SameJob
<1>5. ASSUME NEW stage \in {"reserve", "commit"}, Go(stage),
             \/ job.moved
             \/ ShouldTriage(Prepared(card, job.plan, job.seen), job.seen, job.plan)
      PROVE  OrderInv' /\ StagesInv' /\ ReplayedInv'
  <2>1. job'.at = stage /\ SameJob
    BY <1>1, <1>5, GoFacts DEF Stages
  <2>2. OrderInv'
    BY <1>1, <2>1 DEF OrderInv, SameJob
  <2>3. StagesInv'
    BY <1>1, <1>5, <2>1 DEF StagesInv, Queues, SameJob
  <2>4. QED BY <1>2, <2>2, <2>3
<1>6. \/ End \/ Go("defer")
      \/ \E stage \in {"reserve", "commit"} :
            /\ Go(stage)
            /\ \/ job.moved
               \/ ShouldTriage(Prepared(card, job.plan, job.seen), job.seen, job.plan)
  <2>1. CASE Gate
    BY <2>1 DEF Gate
  <2>2. CASE Reserve
    BY <2>2 DEF Reserve, Refused, StagesInv
  <2>3. QED BY <2>1, <2>2
<1>7. QED BY <1>3, <1>4, <1>5, <1>6

\* The queued write leaves what the card shows, and starts the claims of a
\* replayed card anew (render_card.body_with_triage_queued).
LEMMA CommitKeepsOrder ==
    ASSUME TypeInv, OrderInv, StagesInv, ReplayedInv, Commit
    PROVE  OrderInv' /\ StagesInv' /\ ReplayedInv'
<1>1. /\ job \in Job /\ card \in Card /\ claims \in Claims /\ JobOK(job)
      /\ PlanOK(card, job) /\ UNCHANGED pr /\ job.at = "commit"
  BY DEF TypeInv, TriageTypeOK, Commit
<1>2. job.seen \in Obs /\ job.plan \in Plans
      /\ (job.plan = "reentry" => Attempts(card, job.seen.head) >= 1)
  BY <1>1, JobFields DEF JobOK, PlanOK, Queues
<1>3. (job' = Idle) \/ (job'.at = "dispatch" /\ SameJob)
  BY <1>1, GoFacts DEF Commit, End, Stages
<1>4. JobCalm
  BY <1>1, <1>3, IdleFacts DEF JobCalm, SameJob
<1>5. CASE UNCHANGED <<card, claims>>
  BY <1>1, <1>4, <1>5, CalmKeepsOrder DEF CardCalm, ClaimsCalm
<1>6. CASE ~UNCHANGED <<card, claims>>
  <2> DEFINE c == Prepared(card, job.plan, job.seen)
  <2>1. /\ card' = Queued(c, job.seen, job.plan)
        /\ job.plan \in {"none", "backfill"} => claims' = claims
        /\ job.plan \notin {"none", "backfill"} => claims' = [claims EXCEPT !.late = {}]
    BY <1>6 DEF Commit
  <2>2. /\ c \in Card /\ c.obs = card.obs
        /\ job.plan \in {"none", "backfill"} => c.replayed = card.replayed
    <3>1. card \in Card /\ job.plan \in Plans
      BY <1>1, <1>2
    <3>2. job.plan \in {"none", "backfill"} => c.replayed = card.replayed
      BY <3>1, PreparedMarker
    <3>3. c \in Card /\ c.obs = card.obs
      BY <1>1, <1>2, PreparedType
    <3>4. QED BY <3>2, <3>3
  <2>3. card'.obs = card.obs /\ card'.replayed = c.replayed
    <3> HIDE DEF c
    <3>1. QED BY <1>1, <2>1, <2>2, QueuedFields
  <2>4. claims'.active = claims.active
    BY <1>1, <2>1 DEF Claims
  <2>5. OrderInv'
    BY <1>1, <1>4, <2>3, <2>4 DEF OrderInv, JobCalm
  <2>6. StagesInv'
    BY <1>4 DEF StagesInv, JobCalm, Queues
  <2>7. ReplayedInv'
    <3>1. CASE job.plan \in {"none", "backfill"}
      BY <2>1, <2>2, <2>3, <3>1 DEF ReplayedInv
    <3>2. CASE job.plan \notin {"none", "backfill"}
      <4>1. job.seen = card.obs /\ job.seen.whole
            /\ OldKey(job.seen) \notin claims.active
        BY <1>1, <3>2 DEF PlanOK, StagesInv, Queues
      <4>2. [card.obs EXCEPT !.whole = TRUE] = card.obs
        BY <1>2, <4>1 DEF Obs
      <4>3. QED BY <2>3, <2>4, <4>1, <4>2 DEF ReplayedInv
    <3>3. QED BY <3>1, <3>2
  <2>8. QED BY <2>5, <2>6, <2>7
<1>7. QED BY <1>5, <1>6

\* A triage run is admitted to the claim for what the card is queued for, and the
\* claim is of what it shows (agent_claim.claim).
LEMMA ClaimKeepsOrder ==
    ASSUME TypeInv, OrderInv, StagesInv, ReplayedInv, Admit \/ Claim \/ CallModel
    PROVE  OrderInv' /\ StagesInv' /\ ReplayedInv'
<1>1. /\ job \in Job /\ JobOK(job) /\ card \in Card /\ claims \in Claims
      /\ UNCHANGED <<pr, card>> /\ job.at \in {"admit", "claim", "model"}
  BY DEF TypeInv, TriageTypeOK, Admit, Claim, CallModel
<1>2. job.run # NoRun /\ job.run \in Runs /\ job.seen = job.run.ctx /\ job.plan = "none"
  BY <1>1 DEF JobOK, Triages
<1>3. CASE UNCHANGED claims /\ JobCalm
  BY <1>1, <1>3, CalmKeepsOrder DEF CardCalm, ClaimsCalm
<1>4. CASE Admit
  <2>1. UNCHANGED claims /\ (End \/ (Go("claim") /\ TokenHolds(job.run)))
    BY <1>4 DEF Admit
  <2>2. CASE End
    BY <1>3, <2>1, <2>2, EndFacts DEF JobCalm
  <2>3. CASE Go("claim") /\ TokenHolds(job.run)
    <3>1. job'.at = "claim" /\ SameJob
      BY <1>1, <2>3, GoFacts DEF Stages
    <3>2. card.obs = job.seen /\ card.status = "queued" /\ CardKey = Key(job.run)
      BY <1>2, <2>3 DEF TokenHolds, QueuedFor, CardKey, Key
    <3>3. OrderInv'
      BY <1>1, <1>2, <2>1, <3>1, <3>2 DEF OrderInv, SameJob
    <3>4. StagesInv'
      BY <1>1, <1>2, <3>1, <3>2 DEF StagesInv, Queues, SameJob, CardKey
    <3>5. ReplayedInv'
      BY <1>1, <2>1 DEF ReplayedInv
    <3>6. QED BY <3>3, <3>4, <3>5
  <2>4. QED BY <2>1, <2>2, <2>3
<1>5. CASE Claim
  <2> DEFINE key == Key(job.run)
  <2>1. \/ claims' = claims
        \/ claims' = [claims EXCEPT !.active = claims.active \cup {key}, !.plain = claims.plain \ {key},
                                    !.late = claims.late \cup {key}]
    BY <1>5 DEF Claim
  <2>2. (job' = Idle) \/ (SameJob /\ job'.at \in {"model", "persist"})
    <3>1. CASE End
      BY <3>1 DEF End
    <3>2. CASE Go("model")
      BY <1>1, <3>2, GoFacts DEF Stages
    <3>3. CASE Publish(ErrorOf("duplicate"), "denied")
      BY <1>1, <3>3 DEF Publish, SameJob, Job
    <3>4. QED BY <1>5, <3>1, <3>2, <3>3 DEF Claim
  <2>3. key.ctx = card.obs
    BY <1>2, <1>5 DEF OrderInv, Claim, Key
  <2>4. NoLater(card.obs, card.obs)
    <3>1. card.obs \in Obs
      BY <1>1, <1>2, <1>5, <2>3 DEF JobOK, Key, OrderInv, Claim
    <3>2. QED BY <3>1, ObsNumbers, NoLaterOrder
  <2> HIDE DEF key
  <2>5. /\ \A k \in claims'.active : k \in claims.active \/ k = key
        /\ \A k \in claims'.active : k \in claims.active \/ k \in claims'.late
        /\ claims.late \subseteq claims'.late
    <3>1. CASE claims' = claims
      BY <3>1
    <3>2. CASE claims' = [claims EXCEPT !.active = claims.active \cup {key},
                                        !.plain = claims.plain \ {key},
                                        !.late = claims.late \cup {key}]
      <4>1. claims'.active = claims.active \cup {key} /\ claims'.late = claims.late \cup {key}
        BY <1>1, <3>2 DEF Claims
      <4>2. QED BY <4>1
    <3>3. QED BY <2>1, <3>1, <3>2
  <2>6. OrderInv'
    <3>1. \A k \in claims'.active : NoLater(k.ctx, card.obs)
      BY <2>3, <2>4, <2>5 DEF OrderInv
    <3>2. job'.at \in {"claim", "model"} => job'.seen = card.obs
      BY <1>5, <2>2, IdleFacts DEF OrderInv, SameJob, Claim
    <3>3. job'.at # "idle" => job'.run # NoRun
      BY <1>2, <2>2, IdleFacts DEF SameJob
    <3>4. QED BY <1>1, <3>1, <3>2, <3>3 DEF OrderInv
  <2>7. StagesInv'
    <3>1. job'.at \notin {"claim", "supersede", "gate", "reserve", "commit"}
      BY <2>2, IdleFacts
    <3>2. QED BY <3>1 DEF StagesInv, Queues
  <2>8. ReplayedInv'
    BY <1>1, <2>5 DEF ReplayedInv
  <2>9. QED BY <2>6, <2>7, <2>8
<1>6. CASE CallModel
  <2>1. job'.at \in {"correct", "consume"} /\ SameJob /\ UNCHANGED claims
    BY <1>1, <1>6 DEF CallModel, SameJob, Job
  <2>2. QED BY <1>1, <1>3, <2>1 DEF JobCalm, SameJob
<1>7. QED BY <1>4, <1>5, <1>6

\* What a replay finds before it writes: the observation of its card, completely,
\* and for a re-entry an attempt whose claim is not active (triage_replay.run).
LEMMA ReplayFinds ==
    ASSUME TypeInv, StagesInv, ReplayedInv, Supersede, ~ReplayBarred(OldKey(job.seen))
    PROVE  /\ job.seen = card.obs /\ job.seen \in Obs /\ job.seen.whole
           /\ Replayable(job.plan) /\ job.plan # "none"
           /\ job.plan = "reentry" =>
                 /\ card.replayed /\ OldKey(card.ctx) \notin claims.late
                 /\ OldKey(job.seen) \notin claims.active
           /\ job.plan # "reentry" => card.status # "queued"
           /\ job.plan = "backfill" => card.backfill = NoObs /\ ~card.replayed
<1>1. job.at = "supersede" /\ JobOK(job) /\ PlanOK(card, job) /\ job \in Job
  BY DEF TypeInv, TriageTypeOK, Supersede
<1>2. job.seen = card.obs /\ job.seen \in Obs /\ job.plan # "none"
  BY <1>1 DEF JobOK, PlanOK
<1>3. job.seen.whole
  BY <1>1, <1>2 DEF StagesInv
<1>4. Replayable(job.plan)
  BY DEF ReplayBarred, ReplayStands
<1>5. CacheStands(job.plan) /\ job.plan \in Plans
  BY <1>1, <1>4, JobFields DEF Replayable
<1>6. ASSUME job.plan = "reentry"
      PROVE  /\ card.replayed /\ OldKey(card.ctx) \notin claims.late
             /\ OldKey(job.seen) \notin claims.active
  <2>1. DuplicateOnly
    BY <1>5, <1>6 DEF CacheStands
  <2>2. card.replayed
    BY <1>5, <1>6 DEF CacheStands
  <2>3. card.ctx = card.obs /\ OldKey(card.obs) \notin claims.late
    BY <2>1 DEF DuplicateOnly, OldKey
  <2>4. [card.obs EXCEPT !.whole = TRUE] = card.obs
    BY <1>2, <1>3 DEF Obs
  <2>5. OldKey(card.obs) \notin claims.active
    BY <2>2, <2>3, <2>4 DEF ReplayedInv
  <2>6. QED BY <1>2, <2>2, <2>3, <2>5
<1>7. ASSUME job.plan # "reentry" PROVE card.status # "queued"
  <2>1. CASE job.plan = "error"
    BY <1>5, <2>1 DEF CacheStands
  <2>2. CASE job.plan = "absent"
    BY <1>5, <2>2 DEF CacheStands
  <2>3. CASE job.plan = "advisory"
    BY <1>5, <2>3 DEF CacheStands, AdvisoryStands
  <2>4. CASE job.plan = "drift"
    BY <1>5, <2>4 DEF CacheStands, DriftStands
  <2>5. CASE job.plan = "backfill"
    BY <1>5, <2>5 DEF CacheStands, BackfillStands
  <2>6. QED BY <1>2, <1>5, <1>7, <2>1, <2>2, <2>3, <2>4, <2>5 DEF Plans
<1>8. ASSUME job.plan = "backfill" PROVE card.backfill = NoObs /\ ~card.replayed
  BY <1>5, <1>8 DEF CacheStands, BackfillStands
<1>9. QED BY <1>2, <1>3, <1>4, <1>6, <1>7, <1>8

\* What a replay does: it stops, or takes the old claim back and queues, or stops
\* with the claim taken back (triage_replay.supersede_triage_claim).
LEMMA SupersedeCases ==
    ASSUME TypeInv, Supersede
    PROVE  /\ UNCHANGED <<pr, day, ledger, card, units, calls>>
           /\ claims'.late = claims.late
           /\ \/ claims' = claims
              \/ /\ ~ReplayBarred(OldKey(job.seen))
                 /\ OldKey(job.seen) \in claims.active
                 /\ claims'.active = claims.active \ {OldKey(job.seen)}
           /\ \/ job' = Idle
              \/ /\ ~ReplayBarred(OldKey(job.seen))
                 /\ OldKey(job.seen) \notin claims'.active
                 /\ SameJob /\ job'.at = "gate"
<1> DEFINE key == OldKey(job.seen)
           drop == [claims EXCEPT !.active = claims.active \ {key}, !.superseded = claims.superseded \cup {key},
                                  !.tainted = key \notin claims.plain]
<1>1. claims \in Claims /\ job \in Job
  BY DEF TypeInv, TriageTypeOK
<1>2. drop.active = claims.active \ {key} /\ drop.late = claims.late
  <2> HIDE DEF key
  <2>1. QED BY <1>1 DEF Claims
<1>3. Go("gate") => SameJob /\ job'.at = "gate"
  BY <1>1, GoFacts DEF Stages
<1>4. UNCHANGED <<pr, day, ledger, card, units, calls>>
  BY DEF Supersede, triageHistory
<1>5. \/ End /\ claims' = claims
      \/ ~ReplayBarred(key) /\ key \notin claims.active /\ claims' = claims /\ Go("gate")
      \/ /\ ~ReplayBarred(key) /\ key \in claims.active
         /\ \E o \in Outcomes :
               /\ claims' = IF o = "failed" THEN claims ELSE drop
               /\ IF o = "done" THEN Go("gate") ELSE End
  BY DEF Supersede, QueuesReplay, TombstoneSeen, OldKey
<1> HIDE DEF key, drop
<1>6. CASE End /\ claims' = claims
  BY <1>4, <1>6 DEF End
<1>7. CASE ~ReplayBarred(key) /\ key \notin claims.active /\ claims' = claims /\ Go("gate")
  BY <1>3, <1>4, <1>7 DEF key
<1>8. CASE /\ ~ReplayBarred(key) /\ key \in claims.active
           /\ \E o \in Outcomes :
                 /\ claims' = IF o = "failed" THEN claims ELSE drop
                 /\ IF o = "done" THEN Go("gate") ELSE End
  <2>1. PICK o \in Outcomes :
            /\ claims' = IF o = "failed" THEN claims ELSE drop
            /\ IF o = "done" THEN Go("gate") ELSE End
    BY <1>8
  <2>2. CASE o = "done"
    <3>1. claims' = drop /\ Go("gate")
      BY <2>1, <2>2
    <3>2. QED BY <1>2, <1>3, <1>4, <1>8, <3>1 DEF key
  <2>3. CASE o # "done"
    <3>1. claims' \in {claims, drop} /\ job' = Idle
      BY <2>1, <2>3 DEF End
    <3>2. QED BY <1>2, <1>4, <1>8, <3>1 DEF key
  <2>4. QED BY <2>2, <2>3
<1>9. QED BY <1>5, <1>6, <1>7, <1>8

\* A replay takes the old claim back before the card is queued (triage_replay.run).
LEMMA SupersedeKeepsOrder ==
    ASSUME TypeInv, OrderInv, StagesInv, ReplayedInv, Supersede
    PROVE  OrderInv' /\ StagesInv' /\ ReplayedInv'
<1>1. /\ UNCHANGED <<pr, card>> /\ claims'.late = claims.late
      /\ claims'.active \subseteq claims.active
  BY SupersedeCases
<1>2. job.at = "supersede"
  BY DEF Supersede
<1>3. OrderInv'
  <2>1. (job' = Idle) \/ (SameJob /\ job'.at = "gate")
    BY SupersedeCases
  <2>2. QED BY <1>1, <1>2, <2>1, IdleFacts DEF OrderInv, SameJob
<1>4. ReplayedInv'
  BY <1>1 DEF ReplayedInv
<1>5. StagesInv'
  <2>1. CASE job' = Idle
    BY <2>1, IdleFacts DEF StagesInv, Queues
  <2>2. CASE job' # Idle
    <3>1. /\ ~ReplayBarred(OldKey(job.seen)) /\ OldKey(job.seen) \notin claims'.active
          /\ SameJob /\ job'.at = "gate"
      BY <2>2, SupersedeCases
    <3>2. /\ job.seen.whole
          /\ job.plan = "reentry" => card.replayed /\ OldKey(card.ctx) \notin claims.late
          /\ job.plan = "backfill" => card.backfill = NoObs /\ ~card.replayed
      BY <3>1, ReplayFinds
    <3>3. QED BY <1>1, <3>1, <3>2 DEF StagesInv, Queues, SameJob
  <2>3. QED BY <2>1, <2>2
<1>6. QED BY <1>3, <1>4, <1>5

\* A job that starts works with what the target, the run or the card says.
LEMMA StartsKeepOrder ==
    ASSUME TypeInv, OrderInv, StagesInv, ReplayedInv,
           StartScan \/ StartTriage \/ StartReplay
    PROVE  OrderInv' /\ StagesInv' /\ ReplayedInv'
<1>1. UNCHANGED <<pr, card, claims>>
  BY DEF StartScan, StartTriage, StartReplay
<1>2. /\ pr \in [head: Moves, base: Moves, facts: Moves] /\ card \in Card /\ CardOK(card)
      /\ runs \subseteq Runs
  BY DEF TypeInv, TriageTypeOK
<1>3. ReplayedInv'
  BY <1>1 DEF ReplayedInv
<1>4. CASE StartScan
  <2>1. PICK whole \in BOOLEAN :
            job' = [Idle EXCEPT !.seen = [Live EXCEPT !.whole = whole], !.at = "recover"]
    BY <1>4 DEF StartScan
  <2>2. job'.at = "recover" /\ job'.seen.head = pr.head /\ job'.seen.base = pr.base
        /\ job'.seen.facts = pr.facts
    BY <2>1 DEF Idle, Live
  <2>3. NoLater(card.obs, job'.seen) /\ NoLater(job'.seen, pr)
    <3>1. NoLater(card.obs, pr)
      BY DEF OrderInv
    <3>2. HasNumbers(pr)
      BY <1>2, ObsFields DEF HasNumbers
    <3>3. QED BY <2>2, <3>1, <3>2 DEF NoLater, HasNumbers
  <2>4. OrderInv' /\ StagesInv'
    BY <1>1, <2>2, <2>3 DEF OrderInv, StagesInv, Queues
  <2>5. QED BY <1>3, <2>4
<1>5. CASE StartTriage
  <2>1. PICK r \in runs : job' = [Idle EXCEPT !.at = "admit", !.run = r, !.seen = r.ctx]
    BY <1>5 DEF StartTriage
  <2>2. job'.at = "admit" /\ job'.run = r
    BY <2>1 DEF Idle
  <2>3. r # NoRun
    <3>1. r.n \in Nat
      BY <1>2 DEF Runs
    <3>2. NoRun.n = -1
      BY DEF NoRun, None
    <3>3. QED BY <3>1, <3>2
  <2>4. OrderInv' /\ StagesInv'
    BY <1>1, <2>2, <2>3 DEF OrderInv, StagesInv, Queues
  <2>5. QED BY <1>3, <2>4
<1>6. CASE StartReplay
  <2>1. PICK plan \in Plans :
            /\ Replayable(plan)
            /\ job' = [Idle EXCEPT !.at = "supersede", !.seen = card.obs, !.plan = plan]
    BY <1>6 DEF StartReplay
  <2>2. job'.at = "supersede" /\ job'.seen = card.obs
    BY <2>1 DEF Idle
  <2>3. card.obs \in Obs /\ card.obs.whole
    BY <1>2, <2>1 DEF Replayable, ReplayInScope, Pending, CardOK
  <2>4. NoLater(card.obs, card.obs)
    BY <2>3, ObsNumbers, NoLaterOrder
  <2>5. OrderInv' /\ StagesInv'
    BY <1>1, <2>2, <2>3, <2>4 DEF OrderInv, StagesInv, Queues
  <2>6. QED BY <1>3, <2>5
<1>7. QED BY <1>4, <1>5, <1>6

\* What the target does only makes observations old; people move the card between
\* its places, and a job that works on it knows.
LEMMA WorldKeepsOrder ==
    ASSUME TypeInv, OrderInv, StagesInv, ReplayedInv,
           TargetMoves \/ Midnight \/ TouchCard \/ RunAgain
    PROVE  OrderInv' /\ StagesInv' /\ ReplayedInv'
<1>1. /\ pr \in [head: Moves, base: Moves, facts: Moves] /\ card \in Card /\ job \in Job
      /\ JobOK(job)
  BY DEF TypeInv, TriageTypeOK
<1>2. CASE Midnight \/ RunAgain
  <2>1. UNCHANGED <<pr, card, claims, job>>
    BY <1>2 DEF Midnight, RunAgain
  <2>2. QED BY <2>1 DEF OrderInv, StagesInv, ReplayedInv, ShouldTriage, CardKey
<1>3. CASE TargetMoves
  <2>1. PICK part \in {"head", "base", "facts"} : pr' = [pr EXCEPT ![part] = pr[part] + 1]
    BY <1>3 DEF TargetMoves
  <2>2. UNCHANGED <<card, claims, job>>
    BY <1>3 DEF TargetMoves
  <2>3. /\ pr'.head >= pr.head /\ pr'.base >= pr.base /\ pr'.facts >= pr.facts
        /\ pr'.head \in Int /\ pr'.base \in Int /\ pr'.facts \in Int
        /\ pr.head \in Int /\ pr.base \in Int /\ pr.facts \in Int
    <3>1. pr.head \in Int /\ pr.base \in Int /\ pr.facts \in Int
      BY <1>1, ObsFields
    <3>2. CASE part = "head"
      <4>1. pr' = [pr EXCEPT !.head = pr.head + 1]
        BY <2>1, <3>2
      <4>2. QED BY <1>1, <3>1, <4>1
    <3>3. CASE part = "base"
      <4>1. pr' = [pr EXCEPT !.base = pr.base + 1]
        BY <2>1, <3>3
      <4>2. QED BY <1>1, <3>1, <4>1
    <3>4. CASE part = "facts"
      <4>1. pr' = [pr EXCEPT !.facts = pr.facts + 1]
        BY <2>1, <3>4
      <4>2. QED BY <1>1, <3>1, <4>1
    <3>5. QED BY <3>2, <3>3, <3>4
  <2>4. \A o \in Obs \cup {NoObs} : NoLater(o, pr) => NoLater(o, pr')
    BY <2>3, ObsNumbers DEF HasNumbers, NoLater
  <2>5. card.obs \in Obs \cup {NoObs} /\ job.seen \in Obs \cup {NoObs}
    BY <1>1, CardFields, JobFields
  <2>6. OrderInv'
    BY <2>2, <2>4, <2>5 DEF OrderInv
  <2>7. StagesInv' /\ ReplayedInv'
    BY <2>2 DEF StagesInv, ReplayedInv, ShouldTriage, CardKey
  <2>8. QED BY <2>6, <2>7
<1>4. CASE TouchCard
  <2>1. PICK place \in {"pending", "decided"} : card' = [card EXCEPT !.place = place]
    BY <1>4 DEF TouchCard
  <2>2. job' = (IF job.at = "idle" THEN job ELSE [job EXCEPT !.moved = TRUE])
        /\ UNCHANGED <<pr, claims>>
    BY <1>4 DEF TouchCard
  <2>3. CardCalm /\ card'.status = card.status
    BY <1>1, <2>1 DEF CardCalm, Card
  <2>4. job'.at = job.at /\ job'.seen = job.seen /\ job'.run = job.run
        /\ job'.plan = job.plan /\ (job.at # "idle" => job'.moved)
    BY <1>1, <2>2 DEF Job
  <2>5. OrderInv'
    BY <2>2, <2>3, <2>4 DEF OrderInv, CardCalm
  <2>6. StagesInv'
    <3>1. CardKey' = CardKey /\ Key(job'.run) = Key(job.run)
      BY <2>3, <2>4 DEF CardKey, CardCalm
    <3>2. job'.at \in {"reserve", "commit"} => job'.moved
      BY <2>4
    <3>3. QED BY <2>2, <2>3, <2>4, <3>1, <3>2 DEF StagesInv, CardCalm, Queues
  <2>7. ReplayedInv'
    BY <2>2, <2>3 DEF ReplayedInv, CardCalm
  <2>8. QED BY <2>5, <2>6, <2>7
<1>5. QED BY <1>2, <1>3, <1>4

SeenInv == OrderInv /\ StagesInv /\ ReplayedInv

\* Every step keeps what is seen, and when.
LEMMA SeenKept ==
    ASSUME TypeInv, TypeInv', SeenInv, [TriageNext]_triageVars
    PROVE  SeenInv'
<1> USE DEF SeenInv
<1>1. CASE CalmStep
  <2>1. CardCalm /\ ClaimsCalm /\ UNCHANGED pr /\ JobCalm
    BY <1>1, CalmSteps, CalmJobs
  <2>2. QED BY <2>1, CalmKeepsOrder
<1>2. CASE UNCHANGED triageVars
  BY <1>2 DEF triageVars, OrderInv, StagesInv, ReplayedInv, ShouldTriage, CardKey
<1>3. CASE TriageNext /\ ~CalmStep
  BY <1>3, ShowsKeepOrder, GateKeepsOrder, CommitKeepsOrder, ClaimKeepsOrder,
     SupersedeKeepsOrder, StartsKeepOrder, WorldKeepsOrder
     DEF TriageNext, TriageStep, CalmStep
<1>4. QED BY <1>1, <1>2, <1>3

\* The first state has seen nothing.
LEMMA SeenFirst == TriageInit => SeenInv
<1> SUFFICES ASSUME TriageInit PROVE SeenInv
  OBVIOUS
<1>1. card = NoCard /\ job = Idle /\ claims.active = {} /\ claims.late = {}
      /\ pr.head = 0 /\ pr.base = 0 /\ pr.facts = 0
  BY DEF TriageInit
<1>2. card.obs = NoObs /\ ~card.replayed
  BY <1>1 DEF NoCard
<1>3. NoLater(card.obs, pr)
  BY <1>1, <1>2 DEF NoLater, NoObs, None
<1>4. QED BY <1>1, <1>2, <1>3, IdleFacts
        DEF SeenInv, OrderInv, StagesInv, ReplayedInv, Queues

-----------------------------------------------------------------------------
(* The budget: every call is paid *)

One(b) == IF b THEN 1 ELSE 0

\* Of the units granted on a day the ledger knows, of those of a day to come
\* there are none.
BudgetInv ==
    /\ ledger.used <= Ceiling
    /\ ledger.day <= day
    /\ units[ledger.day] <= ledger.used
    /\ \A d \in Days : units[d] <= Ceiling /\ (d > ledger.day => units[d] = 0)

\* The card is queued for an attempt that has no claim yet.
Promised == card.status = "queued" /\ CardKey \notin claims.active

\* A unit that is granted is a call that was made, one about to be made, one that
\* the queued card may still bring, one about to be queued, or is lost.
PaidInv ==
    /\ IsFiniteSet(Each(calls)) /\ IsFiniteSet(Each(units))
    /\ Cardinality(Each(calls)) + One(Promised)
         + One(job.at = "commit") + One(job.at = "model")
       <= Cardinality(Each(units))

\* One more of a kind is one more in all.
LEMMA OneMore ==
    ASSUME NEW S, NEW f \in [S -> Nat], NEW x \in S, IsFiniteSet(Each(f))
    PROVE  LET g == [f EXCEPT ![x] = f[x] + 1]
           IN  /\ IsFiniteSet(Each(g))
               /\ Cardinality(Each(g)) = Cardinality(Each(f)) + 1
<1> DEFINE g == [f EXCEPT ![x] = f[x] + 1]
           new == <<x, f[x] + 1>>
<1>1. f[x] \in Nat
  OBVIOUS
<1>2. Each(g) = Each(f) \cup {new}
  <2>1. \A y \in S : g[y] = IF y = x THEN f[x] + 1 ELSE f[y]
    OBVIOUS
  <2>2. 1..(f[x] + 1) = (1..f[x]) \cup {f[x] + 1}
    BY <1>1
  <2>3. ASSUME NEW y \in S
        PROVE  {y} \X (1..g[y])
                 = IF y = x THEN ({x} \X (1..f[x])) \cup {new} ELSE {y} \X (1..f[y])
    <3>1. CASE y = x
      <4>1. {x} \X ((1..f[x]) \cup {f[x] + 1}) = ({x} \X (1..f[x])) \cup {new}
        OBVIOUS
      <4>2. g[x] = f[x] + 1
        BY <2>1
      <4> HIDE DEF g
      <4>3. QED BY <2>2, <3>1, <4>1, <4>2
    <3>2. CASE y # x
      BY <2>1, <3>2
    <3>3. QED BY <3>1, <3>2
  <2>4. DOMAIN g = S /\ DOMAIN f = S
    OBVIOUS
  <2> HIDE DEF g, new
  <2>5. QED BY <2>3, <2>4 DEF Each
<1>3. new \notin Each(f)
  <2>1. ASSUME NEW y \in S, new \in {y} \X (1..f[y]) PROVE FALSE
    <3>1. y = x /\ f[x] + 1 \in 1..f[x]
      BY <2>1
    <3>2. QED BY <1>1, <3>1
  <2>2. DOMAIN f = S
    OBVIOUS
  <2> HIDE DEF new
  <2>3. QED BY <2>1, <2>2 DEF Each
<1> HIDE DEF g, new
<1>4. IsFiniteSet(Each(g)) /\ Cardinality(Each(g)) = Cardinality(Each(f)) + 1
  BY <1>2, <1>3, FS_AddElement
<1>5. QED BY <1>4 DEF g

\* The ledger never lags behind what it granted (render_card.reserve_triage_budget).
LEMMA BudgetKept ==
    ASSUME TypeInv, BudgetInv, TriageNext
    PROVE  BudgetInv'
<1>1. /\ ledger \in [day: Days, used: Nat] /\ units \in [Days -> Nat] /\ day \in Days
      /\ Days \subseteq Int /\ Ceiling \in Nat
  BY TriageAssumption DEF TypeInv, TriageTypeOK, TriageAssumption, Days
<1>2. CASE UNCHANGED <<day, ledger, units>>
  BY <1>2 DEF BudgetInv
<1>3. CASE Midnight
  <2>1. day' = day + 1 /\ UNCHANGED <<ledger, units>>
    BY <1>3 DEF Midnight, triageHistory
  <2>2. ledger.day \in Int
    BY <1>1
  <2>3. QED BY <1>1, <2>1, <2>2 DEF BudgetInv
<1>4. CASE Reserve
  <2>1. ledger.day \in Days /\ ledger.used \in Nat /\ Used \in Nat
    BY <1>1 DEF Used
  <2>2. CASE UNCHANGED <<day, ledger, units>>
    BY <1>2, <2>2
  <2>3. ASSUME Used < Ceiling, ledger' = [day |-> day, used |-> Used + 1], day' = day,
               units' \in {units, [units EXCEPT ![day] = units[day] + 1]}
        PROVE  BudgetInv'
    <3>1. units[day] \in Nat /\ units[day] <= Used
      <4>1. units[day] \in Nat
        BY <1>1
      <4>2. CASE ledger.day = day
        BY <4>1, <4>2 DEF BudgetInv, Used
      <4>3. CASE ledger.day # day
        <5>1. /\ ledger.day <= day /\ ledger.day \in Int /\ day \in Int
              /\ \A d \in Days : d > ledger.day => units[d] = 0
          BY <1>1, <2>1 DEF BudgetInv
        <5>2. units[day] = 0
          BY <1>1, <4>3, <5>1
        <5>3. Used \in Nat
          BY <2>1
        <5>4. QED BY <4>1, <5>2, <5>3
      <4>4. QED BY <4>2, <4>3, <4>1
    <3>2. \A d \in Days : units'[d] \in Nat /\ units[d] \in Nat
                          /\ units'[d] <= (IF d = day THEN units[d] + 1 ELSE units[d])
      BY <1>1, <2>3
    <3>3. ledger'.day = day /\ ledger'.used = Used + 1
      BY <2>3
    <3>4. units'[day] <= Used + 1 /\ Used + 1 <= Ceiling
      BY <1>1, <2>1, <2>3, <3>1, <3>2
    <3>5. ASSUME NEW d \in Days
          PROVE  units'[d] <= Ceiling /\ (d > day => units'[d] = 0)
      <4>1. CASE d = day
        BY <1>1, <2>1, <3>1, <3>2, <3>4, <4>1
      <4>2. CASE d # day
        <5>1. units'[d] <= units[d] /\ units[d] <= Ceiling
              /\ (d > ledger.day => units[d] = 0)
          BY <3>2, <4>2 DEF BudgetInv
        <5>2. ledger.day <= day
          BY DEF BudgetInv
        <5>3. units'[d] \in Nat /\ units[d] \in Nat /\ d \in Int /\ day \in Int
              /\ ledger.day \in Int
          BY <1>1, <2>1, <3>2
        <5>4. QED BY <1>1, <5>1, <5>2, <5>3
      <4>3. QED BY <4>1, <4>2
    <3>6. QED BY <1>1, <2>3, <3>3, <3>4, <3>5 DEF BudgetInv
  <2>4. QED BY <1>4, <2>2, <2>3 DEF Reserve
<1>5. UNCHANGED <<day, ledger, units>> \/ Midnight \/ Reserve
  BY CalmSteps, SupersedeCases
     DEF TriageNext, TriageStep, CalmStep, TargetMoves, TouchCard, StartScan,
         StartTriage, StartReplay, RunAgain, CreateCard, Refresh, Gate, Commit, Admit,
         Claim, CallModel, triageHistory
<1>6. QED BY <1>2, <1>3, <1>4, <1>5

\* A step that neither queues, nor claims, nor calls, nor is granted a unit owes
\* no more than before.
LEMMA PaidStays ==
    ASSUME PaidInv, Promised' => Promised, UNCHANGED <<units, calls>>,
           job'.at = "commit" => job.at = "commit", job'.at = "model" => job.at = "model"
    PROVE  PaidInv'
<1>1. Cardinality(Each(calls)) \in Nat /\ Cardinality(Each(units)) \in Nat
  BY FS_CardinalityType DEF PaidInv
<1>2. /\ One(Promised') <= One(Promised) /\ One(job'.at = "commit") <= One(job.at = "commit")
      /\ One(job'.at = "model") <= One(job.at = "model")
      /\ One(Promised') \in Nat /\ One(Promised) \in Nat
      /\ One(job'.at = "commit") \in Nat /\ One(job.at = "commit") \in Nat
      /\ One(job'.at = "model") \in Nat /\ One(job.at = "model") \in Nat
  BY DEF One
<1>3. Each(calls)' = Each(calls) /\ Each(units)' = Each(units)
  BY DEF Each
<1>4. QED BY <1>1, <1>2, <1>3 DEF PaidInv

\* What is promised depends on the card and the claims.
LEMMA PromiseStays ==
    ASSUME card'.status = "queued" => card.status = "queued",
           card'.ctx = card.ctx, card'.backfill = card.backfill,
           claims.active \subseteq claims'.active
    PROVE  Promised' => Promised
BY DEF Promised, CardKey

\* The types of the histories and of what the actions read.
LEMMA PaidTypes ==
    ASSUME TypeInv
    PROVE  /\ job \in Job /\ card \in Card /\ claims \in Claims /\ JobOK(job)
           /\ PlanOK(card, job) /\ CardOK(card)
           /\ units \in [Days -> Nat] /\ calls \in [Moves -> Nat] /\ day \in Days
BY DEF TypeInv, TriageTypeOK

\* A claim is refused, or made for the run (agent_claim.claim).
LEMMA ClaimCases ==
    ASSUME TypeInv, Claim
    PROVE  \/ claims' = claims /\ job'.at \in {"idle", "persist"}
           \/ /\ Key(job.run) \notin claims.active
              /\ claims'.active = claims.active \cup {Key(job.run)}
              /\ claims'.late = claims.late \cup {Key(job.run)}
              /\ job'.at \in {"idle", "model"}
<1> DEFINE key  == Key(job.run)
           made == [claims EXCEPT !.active = claims.active \cup {key}, !.plain = claims.plain \ {key},
                                  !.late = claims.late \cup {key}]
<1>1. job \in Job /\ claims \in Claims
  BY PaidTypes
<1>2. \/ /\ End \/ Publish(ErrorOf("duplicate"), "denied")
         /\ claims' = claims
      \/ /\ key \notin claims.active
         /\ \/ claims' = claims /\ End
            \/ claims' = made /\ (End \/ Go("model"))
  BY DEF Claim, Listed
<1>3. made.active = claims.active \cup {key} /\ made.late = claims.late \cup {key}
  <2> HIDE DEF key
  <2>1. QED BY <1>1 DEF Claims
<1>4. End => job'.at = "idle"
  BY EndFacts
<1>5. Go("model") => job'.at = "model"
  BY <1>1 DEF Go, Job
<1>6. Publish(ErrorOf("duplicate"), "denied") => job'.at = "persist"
  BY <1>1 DEF Publish, Job
<1> HIDE DEF made
<1>7. QED BY <1>2, <1>3, <1>4, <1>5, <1>6

\* A claim that is made is one that the card was queued for, so a promise is
\* redeemed by the call that follows (agent_claim.claim).
LEMMA ClaimPays ==
    ASSUME TypeInv, SeenInv, PaidInv, Claim
    PROVE  PaidInv'
<1>1. /\ card.status = "queued" /\ Key(job.run) = CardKey /\ job.at = "claim"
      /\ UNCHANGED <<card, units, calls>>
  BY DEF SeenInv, StagesInv, Claim, triageHistory
<1>2. CASE claims' = claims /\ job'.at \in {"idle", "persist"}
  BY <1>1, <1>2, PromiseStays, PaidStays
<1>3. CASE /\ CardKey \notin claims.active
           /\ claims'.active = claims.active \cup {CardKey}
           /\ job'.at \in {"idle", "model"}
  <2>1. CardKey' = CardKey
    BY <1>1 DEF CardKey
  <2>2. Promised /\ ~Promised'
    BY <1>1, <1>3, <2>1 DEF Promised
  <2>3. Each(calls)' = Each(calls) /\ Each(units)' = Each(units)
    BY <1>1 DEF Each
  <2>4. Cardinality(Each(calls)) \in Nat /\ Cardinality(Each(units)) \in Nat
    BY FS_CardinalityType DEF PaidInv
  <2>5. /\ One(Promised) = 1 /\ One(Promised') = 0
        /\ One(job'.at = "commit") = 0 /\ One(job'.at = "model") \in {0, 1}
        /\ One(job.at = "commit") = 0 /\ One(job.at = "model") = 0
    BY <1>1, <1>3, <2>2 DEF One
  <2>6. QED BY <2>3, <2>4, <2>5 DEF PaidInv
<1>4. QED BY <1>1, <1>2, <1>3, ClaimCases

\* The first call redeems the claim: it is made once (triage.yml).
LEMMA CallPays ==
    ASSUME TypeInv, PaidInv, CallModel
    PROVE  PaidInv'
<1>1. /\ job.at = "model" /\ UNCHANGED <<card, claims, units>>
      /\ calls' = [calls EXCEPT ![job.seen.head] = calls[job.seen.head] + 1]
  BY DEF CallModel
<1>2. job'.at \in {"correct", "consume"}
  BY PaidTypes DEF CallModel, Job
<1>3. job.seen.head \in Moves
  BY <1>1, PaidTypes, ObsFields DEF JobOK
<1>4. IsFiniteSet(Each(calls'))
      /\ Cardinality(Each(calls')) = Cardinality(Each(calls)) + 1
  <2>1. calls \in [Moves -> Nat] /\ IsFiniteSet(Each(calls))
    BY PaidTypes DEF PaidInv
  <2>2. QED BY <1>1, <1>3, <2>1, OneMore
<1>5. Each(units)' = Each(units) /\ Promised' = Promised
  BY <1>1 DEF Each, Promised, CardKey
<1>6. Cardinality(Each(calls)) \in Nat /\ Cardinality(Each(units)) \in Nat
  BY FS_CardinalityType DEF PaidInv
<1>7. /\ One(job'.at = "commit") = 0 /\ One(job'.at = "model") = 0
      /\ One(job.at = "commit") = 0 /\ One(job.at = "model") = 1
      /\ One(Promised') = One(Promised) /\ One(Promised) \in Nat
  BY <1>1, <1>2, <1>5 DEF One
<1>8. Each(calls)' = Each(calls')
  BY DEF Each
<1>9. QED BY <1>4, <1>5, <1>6, <1>7, <1>8 DEF PaidInv

\* A granted unit is there to commit (render_card.reserve_triage_budget).
LEMMA ReservePays ==
    ASSUME TypeInv, PaidInv, Reserve
    PROVE  PaidInv'
<1>1. /\ job.at = "reserve" /\ UNCHANGED <<card, claims, calls>>
      /\ job \in Job /\ units \in [Days -> Nat] /\ day \in Days
  BY PaidTypes DEF Reserve
<1>2. Promised' = Promised
  BY <1>1 DEF Promised, CardKey
<1>3. \/ units' = units /\ job'.at \in {"idle", "defer"}
      \/ units' = [units EXCEPT ![day] = units[day] + 1] /\ job'.at = "commit"
  BY <1>1, EndFacts DEF Reserve, Refused, Go, Job
<1>4. CASE units' = units /\ job'.at \in {"idle", "defer"}
  BY <1>1, <1>2, <1>4, PaidStays
<1>5. CASE units' = [units EXCEPT ![day] = units[day] + 1] /\ job'.at = "commit"
  <2>1. IsFiniteSet(Each(units'))
        /\ Cardinality(Each(units')) = Cardinality(Each(units)) + 1
    <3>1. IsFiniteSet(Each(units))
      BY DEF PaidInv
    <3>2. QED BY <1>1, <1>5, <3>1, OneMore
  <2>2. Each(calls)' = Each(calls) /\ Each(units)' = Each(units')
    BY <1>1 DEF Each
  <2>3. Cardinality(Each(calls)) \in Nat /\ Cardinality(Each(units)) \in Nat
    BY FS_CardinalityType DEF PaidInv
  <2>4. /\ One(job'.at = "commit") = 1 /\ One(job'.at = "model") = 0
        /\ One(job.at = "commit") = 0 /\ One(job.at = "model") = 0
        /\ One(Promised') = One(Promised) /\ One(Promised) \in Nat
    BY <1>1, <1>2, <1>5 DEF One
  <2>5. QED BY <2>1, <2>2, <2>3, <2>4 DEF PaidInv
<1>6. QED BY <1>3, <1>4, <1>5

\* A queued write is a promise, for the unit that was granted (Commit).
LEMMA CommitPays ==
    ASSUME TypeInv, PaidInv, Commit
    PROVE  PaidInv'
<1>1. job.at = "commit" /\ UNCHANGED <<units, calls>> /\ job \in Job
  BY PaidTypes DEF Commit, triageHistory
<1>2. job'.at \in {"idle", "dispatch"}
  BY <1>1, EndFacts DEF Commit, Go, Job
<1>3. Each(calls)' = Each(calls) /\ Each(units)' = Each(units)
  BY <1>1 DEF Each
<1>4. Cardinality(Each(calls)) \in Nat /\ Cardinality(Each(units)) \in Nat
  BY FS_CardinalityType DEF PaidInv
<1>5. /\ One(job'.at = "commit") = 0 /\ One(job'.at = "model") = 0
      /\ One(job.at = "commit") = 1 /\ One(job.at = "model") = 0
      /\ One(Promised') \in {0, 1} /\ One(Promised) \in {0, 1}
  BY <1>1, <1>2 DEF One
<1>6. QED BY <1>3, <1>4, <1>5 DEF PaidInv

\* Every step keeps the calls paid.
LEMMA PaidKept ==
    ASSUME TypeInv, SeenInv, PaidInv, TriageNext
    PROVE  PaidInv'
<1>1. card \in Card /\ claims \in Claims /\ job \in Job
  BY PaidTypes
<1>2. CASE CalmStep
  <2>1. CardCalm /\ ClaimsCalm /\ JobCalm /\ UNCHANGED <<units, calls>>
    BY <1>2, CalmSteps, CalmJobs
  <2>2. Promised' => Promised
    BY <2>1, PromiseStays DEF CardCalm, ClaimsCalm
  <2>3. QED BY <2>1, <2>2, PaidStays DEF JobCalm
<1>3. CASE StartScan \/ StartTriage \/ StartReplay
  <2>1. UNCHANGED <<card, claims, units, calls>>
    BY <1>3 DEF StartScan, StartTriage, StartReplay, triageHistory
  <2>2. job'.at \in {"recover", "admit", "supersede"}
    BY <1>3 DEF StartScan, StartTriage, StartReplay, Idle
  <2>3. Promised' => Promised
    BY <2>1 DEF Promised, CardKey
  <2>4. QED BY <2>1, <2>2, <2>3, PaidStays
<1>4. CASE TargetMoves \/ Midnight \/ RunAgain
  <2>1. UNCHANGED <<card, claims, units, calls, job>>
    BY <1>4 DEF TargetMoves, Midnight, RunAgain, triageHistory
  <2>2. Promised' => Promised
    BY <2>1 DEF Promised, CardKey
  <2>3. QED BY <2>1, <2>2, PaidStays
<1>5. CASE TouchCard
  <2>1. UNCHANGED <<claims, units, calls>> /\ job'.at = job.at
    BY <1>1, <1>5 DEF TouchCard, triageHistory, Job
  <2>2. card'.status = card.status /\ card'.ctx = card.ctx
        /\ card'.backfill = card.backfill
    BY <1>1, <1>5 DEF TouchCard, Card
  <2>3. QED BY <2>1, <2>2, PromiseStays, PaidStays
<1>6. CASE CreateCard \/ Refresh
  <2>1. UNCHANGED <<claims, units, calls>> /\ job'.at \in {"idle", "gate"}
    BY <1>1, <1>6, EndFacts DEF CreateCard, Refresh, triageHistory, Go, Job
  <2>2. CASE card' = card
    BY <2>1, <2>2, PromiseStays, PaidStays
  <2>3. CASE card'.status = "none"
    BY <2>1, <2>3, PaidStays DEF Promised
  <2>4. CASE card' = Refreshed(card, job.seen) /\ card.obs.head = job.seen.head
    <3>1. card'.status = card.status /\ card'.ctx = card.ctx
          /\ card'.backfill = card.backfill
      BY <1>1, <2>4, RefreshedFields
    <3>2. QED BY <2>1, <3>1, PromiseStays, PaidStays
  <2>5. CASE card' = Refreshed(card, job.seen) /\ card.obs.head # job.seen.head
    BY <1>1, <2>3, <2>5, RefreshedFields
  <2>6. CASE CreateCard
    BY <2>2, <2>3, <2>6 DEF CreateCard, NoCard
  <2>7. QED BY <1>6, <2>2, <2>4, <2>5, <2>6 DEF Refresh
<1>7. CASE Gate \/ Admit
  <2>1. UNCHANGED <<card, claims, units, calls>>
        /\ job'.at \in {"idle", "reserve", "claim"}
    BY <1>1, <1>7, EndFacts DEF Gate, Admit, triageHistory, Go, Job
  <2>2. QED BY <2>1, PromiseStays, PaidStays
<1>8. CASE Supersede
  <2>1. UNCHANGED <<card, units, calls>> /\ job'.at \in {"idle", "gate"}
    BY <1>8, SupersedeCases, IdleFacts
  <2>2. CASE claims' = claims
    BY <2>1, <2>2, PromiseStays, PaidStays
  <2>3. CASE claims' # claims
    <3>1. ~ReplayBarred(OldKey(job.seen)) /\ OldKey(job.seen) \in claims.active
      BY <1>8, <2>3, SupersedeCases
    <3>2. card.status # "queued"
      BY <1>8, <3>1, ReplayFinds DEF SeenInv
    <3>3. QED BY <2>1, <3>2, PaidStays DEF Promised
  <2>4. QED BY <2>2, <2>3
<1>9. QED BY <1>2, <1>3, <1>4, <1>5, <1>6, <1>7, <1>8, ClaimPays, CallPays,
             ReservePays, CommitPays DEF TriageNext, TriageStep, CalmStep

\* The first state owes nothing.
LEMMA PaidFirst == TriageInit => BudgetInv /\ PaidInv
<1> SUFFICES ASSUME TriageInit PROVE BudgetInv /\ PaidInv
  OBVIOUS
<1>1. Ceiling \in Nat /\ Days \subseteq Int /\ 0 \in Days
  BY TriageAssumption DEF TriageAssumption, Days
<1>2. BudgetInv
  BY <1>1 DEF TriageInit, BudgetInv
<1>3. Each(calls) = {} /\ Each(units) = {}
  BY DEF TriageInit, Each
<1>4. card.status = "none" /\ job.at = "idle"
  BY IdleFacts DEF TriageInit, NoCard
<1>5. IsFiniteSet({}) /\ Cardinality({}) = 0
  BY FS_EmptySet
<1>6. One(Promised) = 0 /\ One(job.at = "commit") = 0 /\ One(job.at = "model") = 0
  BY <1>4 DEF One, Promised
<1>7. PaidInv
  BY <1>3, <1>5, <1>6 DEF PaidInv
<1>8. QED BY <1>2, <1>7

\* The inductive invariant of the budget.
TriagePaid == TypeInv /\ SeenInv /\ BudgetInv /\ PaidInv

\* No day grants more units than the ceiling, and no call of the model is made
\* without a unit of its own, whatever is started again, lost or replayed
\* (render_card.reserve_triage_budget, agent_claim.claim).
THEOREM EveryCallHasItsUnit == TriageSpec => []EveryCallIsPaid
<1>1. TriageInit => TriagePaid
  BY TypesFirst, SeenFirst, PaidFirst DEF TriagePaid
<1>2. TriagePaid /\ [TriageNext]_triageVars => TriagePaid'
  <2>1. SUFFICES ASSUME TriagePaid, [TriageNext]_triageVars PROVE TriagePaid'
    OBVIOUS
  <2>2. TypeInv' /\ SeenInv'
    BY <2>1, TypesKept, SeenKept DEF TriagePaid
  <2>3. CASE TriageNext
    BY <2>1, <2>2, <2>3, BudgetKept, PaidKept DEF TriagePaid
  <2>4. CASE UNCHANGED triageVars
    <3>1. BudgetInv' /\ PaidInv'
      BY <2>1, <2>4 DEF TriagePaid, triageVars, triageHistory, BudgetInv, PaidInv, Each,
         Promised, CardKey
    <3>2. QED BY <2>2, <3>1 DEF TriagePaid
  <2>5. QED BY <2>1, <2>3, <2>4
<1>3. TriagePaid => EveryCallIsPaid
  <2>1. SUFFICES ASSUME TriagePaid PROVE EveryCallIsPaid
    OBVIOUS
  <2>2. Cardinality(Each(calls)) \in Nat /\ Cardinality(Each(units)) \in Nat
    BY <2>1, FS_CardinalityType DEF TriagePaid, PaidInv
  <2>3. One(Promised) \in Nat /\ One(job.at = "commit") \in Nat
        /\ One(job.at = "model") \in Nat
    BY DEF One
  <2>4. QED BY <2>1, <2>2, <2>3 DEF TriagePaid, BudgetInv, PaidInv, EveryCallIsPaid
<1>4. QED BY <1>1, <1>2, <1>3, PTL DEF TriageSpec

-----------------------------------------------------------------------------
(* The books of a head *)

\* An attempt on the books may still be made or given back: no claim was made
\* since it was queued, or since the card was replayed.
Unused ==
    \/ card.replayed /\ OldKey(card.ctx) \notin claims.late
    \/ /\ card.status = "queued" /\ card.backfill # card.ctx
       /\ OldKey(card.ctx) \notin claims.active

\* The backfill of the card was claimed.
Refilled ==
    card.backfill # NoObs /\ [ctx |-> card.backfill, rec |-> TRUE] \in claims.active

\* The books of the card's head cover the calls made for it, one that is about to
\* be made and one that may be; no head to come was ever reviewed.
HeadInv ==
    /\ card.attempts <= AttemptCap
    /\ Cardinality(card.uses) <= ContextAllowance
    /\ \A h \in Moves : h > card.obs.head => calls[h] = 0
    /\ card.obs # NoObs =>
         calls[card.obs.head] + One(job.at = "model") + One(Unused)
            <= card.attempts + Cardinality(card.uses) + One(Refilled)

\* The numbers of the books.
LEMMA HeadTypes ==
    ASSUME TypeInv
    PROVE  /\ card.attempts \in Nat /\ card.uses \in SUBSET Moves
           /\ IsFiniteSet(card.uses) /\ Cardinality(card.uses) \in Nat
           /\ card.obs # NoObs => card.obs \in Obs /\ calls[card.obs.head] \in Nat
           /\ AttemptCap \in Nat /\ AttemptCap >= 1 /\ ContextAllowance \in Nat
           /\ One(Unused) \in {0, 1} /\ One(Refilled) \in {0, 1}
           /\ One(job.at = "model") \in {0, 1}
<1>1. card.attempts \in Nat /\ card.uses \in SUBSET Moves
      /\ card.obs \in Obs \cup {NoObs}
  BY PaidTypes, CardFields
<1>2. IsFiniteSet(Moves)
  BY FS_Interval, ObsFields DEF Moves
<1>3. IsFiniteSet(card.uses) /\ Cardinality(card.uses) \in Nat
  BY <1>1, <1>2, FS_Subset, FS_CardinalityType
<1>4. card.obs # NoObs => card.obs \in Obs /\ calls[card.obs.head] \in Nat
  BY <1>1, PaidTypes, ObsFields
<1>5. AttemptCap \in Nat /\ AttemptCap >= 1 /\ ContextAllowance \in Nat
  BY TriageAssumption DEF TriageAssumption
<1>6. QED BY <1>1, <1>3, <1>4, <1>5 DEF One

\* A step that neither queues, nor claims, nor calls, nor changes the head has
\* books that hold as before.
LEMMA HeadStays ==
    ASSUME TypeInv, TypeInv', HeadInv,
           card'.obs.head = card.obs.head, card'.obs # NoObs => card.obs # NoObs,
           card'.attempts = card.attempts, card'.uses = card.uses, calls' = calls,
           Unused' => Unused, Refilled => Refilled',
           job'.at = "model" => job.at = "model"
    PROVE  HeadInv'
<1>1. /\ One(Unused') <= One(Unused) /\ One(Refilled) <= One(Refilled')
      /\ One(job'.at = "model") <= One(job.at = "model")
      /\ One(Unused') \in Nat /\ One(Unused) \in Nat
      /\ One(Refilled') \in Nat /\ One(Refilled) \in Nat
      /\ One(job'.at = "model") \in Nat /\ One(job.at = "model") \in Nat
  BY DEF One
<1>2. card.attempts \in Nat /\ Cardinality(card.uses) \in Nat
      /\ (card.obs # NoObs => calls[card.obs.head] \in Nat)
  BY HeadTypes
<1>3. QED BY <1>1, <1>2 DEF HeadInv

\* What may be given back depends on the card and the claims.
LEMMA UnusedStays ==
    ASSUME card'.ctx = card.ctx, card'.backfill = card.backfill,
           card'.replayed = card.replayed,
           card'.status = "queued" => card.status = "queued",
           claims.active \subseteq claims'.active, claims.late \subseteq claims'.late
    PROVE  (Unused' => Unused) /\ (Refilled => Refilled')
BY DEF Unused, Refilled, OldKey

\* A new head has new books, and was not reviewed before (render_card.upsert_card).
LEMMA NewBooks ==
    ASSUME TypeInv, TypeInv', HeadInv, card'.obs \in Obs, card'.obs.head > card.obs.head,
           card'.status = "none", ~card'.replayed, card'.backfill = NoObs,
           card'.attempts = 0, card'.uses = {}, calls' = calls, job'.at # "model"
    PROVE  HeadInv'
<1>1. card'.obs.head \in Moves /\ card'.obs.head \in Int /\ card.obs.head \in Int
      /\ Moves \subseteq Int
  <2>1. card.obs \in Obs \cup {NoObs}
    BY PaidTypes, CardFields
  <2>2. HasNumbers(card.obs)
    BY <2>1, ObsNumbers
  <2>3. QED BY <2>2, ObsFields DEF HasNumbers
<1>2. calls[card'.obs.head] = 0
  BY <1>1 DEF HeadInv
<1>3. One(Unused') = 0 /\ One(Refilled') = 0 /\ One(job'.at = "model") = 0
  BY DEF One, Unused, Refilled
<1>4. Cardinality(card'.uses) = 0
  BY FS_EmptySet
<1>5. \A h \in Moves : h > card'.obs.head => calls'[h] = 0
  <2>1. \A h \in Moves : h > card.obs.head => calls[h] = 0
    BY DEF HeadInv
  <2>2. QED BY <1>1, <2>1
<1>6. AttemptCap \in Nat /\ ContextAllowance \in Nat
  BY HeadTypes
<1>7. QED BY <1>2, <1>3, <1>4, <1>5, <1>6 DEF HeadInv

\* The scan shows a new observation: the books stay with the head.
LEMMA ShowsKeepBooks ==
    ASSUME TypeInv, TypeInv', SeenInv, HeadInv, CreateCard \/ Refresh
    PROVE  HeadInv'
<1>1. card \in Card /\ job \in Job /\ JobOK(job) /\ CardOK(card)
  BY PaidTypes
<1>2. UNCHANGED <<claims, calls>> /\ job'.at \in {"idle", "gate"}
      /\ job.at \in {"recover", "refresh"}
  BY <1>1, EndFacts DEF CreateCard, Refresh, triageHistory, Go, Job
<1>3. job.seen \in Obs /\ NoLater(card.obs, job.seen)
  BY <1>1, <1>2 DEF JobOK, Scans, SeenInv, OrderInv
<1>4. CASE card' = card
  BY <1>2, <1>4, UnusedStays, HeadStays
<1>5. CASE CreateCard /\ card' # card
  <2>1. /\ card'.obs = job.seen /\ card'.status = "none" /\ ~card'.replayed
        /\ card'.backfill = NoObs /\ card'.attempts = 0 /\ card'.uses = {}
    BY <1>5 DEF CreateCard, NoCard
  <2>2. card.obs = NoObs
    BY <1>1, <1>5 DEF CreateCard, CardOK
  <2>3. card'.obs.head > card.obs.head
    BY <1>3, <2>1, <2>2, ObsFields DEF Moves, None
  <2>4. QED BY <1>2, <1>3, <2>1, <2>3, NewBooks
<1>6. CASE Refresh /\ card' # card
  <2>1. card' = Refreshed(card, job.seen) /\ Pending
    BY <1>6 DEF Refresh
  <2>2. card.obs \in Obs
    BY <1>1, <2>1 DEF CardOK, Pending
  <2>3. CASE card.obs.head = job.seen.head
    <3>1. /\ card'.obs = job.seen /\ card'.ctx = card.ctx /\ card'.status = card.status
          /\ card'.backfill = card.backfill /\ card'.replayed = card.replayed
          /\ card'.attempts = card.attempts /\ card'.uses = card.uses
      BY <1>1, <2>1, <2>3, RefreshedFields
    <3>2. card.obs # NoObs
      BY <2>2, ObsFields
    <3>3. QED BY <1>2, <2>3, <3>1, <3>2, UnusedStays, HeadStays
  <2>4. CASE card.obs.head # job.seen.head
    <3>1. /\ card'.obs = job.seen /\ card'.status = "none" /\ ~card'.replayed
          /\ card'.backfill = NoObs /\ card'.attempts = 0 /\ card'.uses = {}
      BY <1>1, <2>1, <2>4, RefreshedFields
    <3>2. card'.obs.head > card.obs.head
      <4>1. HasNumbers(card.obs) /\ HasNumbers(job.seen)
        BY <1>1, <1>3, <2>2, ObsNumbers
      <4>2. QED BY <1>3, <2>2, <2>4, <3>1, <4>1 DEF NoLater, HasNumbers
    <3>3. QED BY <1>2, <1>3, <3>1, <3>2, NewBooks
  <2>5. QED BY <2>3, <2>4
<1>7. QED BY <1>4, <1>5, <1>6

\* A claim uses up what the books had left for it: the attempt of a queued card,
\* or the backfill (agent_claim.claim).
LEMMA ClaimOnBooks ==
    ASSUME TypeInv, TypeInv', SeenInv, HeadInv, Claim
    PROVE  HeadInv'
<1> DEFINE key == Key(job.run)
<1>1. /\ card.status = "queued" /\ key = CardKey /\ job.at = "claim"
      /\ UNCHANGED <<card, calls>> /\ job.seen = card.obs
      /\ key.ctx = job.seen /\ job.seen \in Obs
  BY PaidTypes
     DEF SeenInv, StagesInv, OrderInv, Claim, triageHistory, JobOK, Triages, Key
<1>2. key.ctx = card.ctx /\ key.rec = (card.backfill = card.ctx)
  BY <1>1 DEF CardKey
<1>3. card.ctx # NoObs /\ card.obs # NoObs
  BY <1>1, <1>2, ObsFields
<1>4. CASE claims' = claims /\ job'.at \in {"idle", "persist"}
  BY <1>1, <1>4, UnusedStays, HeadStays
<1>5. CASE /\ key \notin claims.active
           /\ claims'.active = claims.active \cup {key}
           /\ claims'.late = claims.late \cup {key}
           /\ job'.at \in {"idle", "model"}
  <2>1. One(job.at = "model") = 0 /\ One(job'.at = "model") \in {0, 1}
    BY <1>1 DEF One
  <2>2. CASE card.backfill = card.ctx
    <3>1. key = [ctx |-> card.backfill, rec |-> TRUE]
      BY <1>1, <2>2 DEF CardKey
    <3>2. ~Refilled /\ Refilled'
      BY <1>1, <1>3, <1>5, <2>2, <3>1 DEF Refilled
    <3>3. Unused' => Unused
      BY <1>1, <1>5, UnusedStays
    <3>4. One(Refilled) = 0 /\ One(Refilled') = 1 /\ One(Unused') <= One(Unused)
          /\ One(Unused') \in {0, 1}
      BY <3>2, <3>3 DEF One
    <3>5. QED BY <1>1, <1>3, <2>1, <3>4, HeadTypes DEF HeadInv
  <2>3. CASE card.backfill # card.ctx
    <3>1. key = OldKey(card.ctx)
      BY <1>1, <2>3 DEF CardKey, OldKey
    <3>2. Unused /\ ~Unused'
      BY <1>1, <1>5, <2>3, <3>1 DEF Unused
    <3>3. Refilled => Refilled'
      BY <1>1, <1>5 DEF Refilled
    <3>4. One(Unused) = 1 /\ One(Unused') = 0 /\ One(Refilled) <= One(Refilled')
          /\ One(Refilled') \in {0, 1}
      BY <3>2, <3>3 DEF One
    <3>5. QED BY <1>1, <1>3, <2>1, <3>4, HeadTypes DEF HeadInv
  <2>4. QED BY <2>2, <2>3
<1>6. QED BY <1>4, <1>5, ClaimCases

\* The call goes on the books of the card's head (triage.yml).
LEMMA CallOnBooks ==
    ASSUME TypeInv, TypeInv', SeenInv, HeadInv, CallModel
    PROVE  HeadInv'
<1>1. /\ job.at = "model" /\ UNCHANGED <<card, claims>>
      /\ calls' = [calls EXCEPT ![card.obs.head] = calls[card.obs.head] + 1]
  BY DEF CallModel, SeenInv, OrderInv
<1>2. job'.at \in {"correct", "consume"}
  BY PaidTypes DEF CallModel, Job
<1>3. card.obs \in Obs
  BY <1>1, PaidTypes DEF JobOK, SeenInv, OrderInv
<1>4. card.obs.head \in Moves /\ card.obs.head \in Int /\ calls \in [Moves -> Nat]
      /\ Moves \subseteq Int
  BY <1>3, PaidTypes, ObsFields
<1>5. calls'[card.obs.head] = calls[card.obs.head] + 1
  BY <1>1, <1>4
<1>6. ASSUME NEW h \in Moves, h > card.obs.head PROVE calls'[h] = 0
  <2>1. h # card.obs.head /\ calls[h] = 0
    BY <1>4, <1>6 DEF HeadInv
  <2>2. QED BY <1>1, <1>4, <2>1
<1>7. One(Unused') = One(Unused) /\ One(Refilled') = One(Refilled)
      /\ One(job'.at = "model") = 0 /\ One(job.at = "model") = 1
  BY <1>1, <1>2 DEF One, Unused, Refilled
<1>8. card.obs # NoObs
  BY <1>3, ObsFields
<1>9. QED BY <1>1, <1>5, <1>6, <1>7, <1>8, HeadTypes DEF HeadInv

\* What is queued goes on the books first: an attempt, the refresh of one base, or
\* the backfill; a re-entry gets back an attempt that was not used
\* (render_card.body_with_triage_queued).
LEMMA BooksGrow ==
    ASSUME TypeInv, SeenInv, HeadInv, job.at = "commit", ~job.moved
    PROVE  LET new  == Queued(Prepared(card, job.plan, job.seen), job.seen, job.plan)
               paid == IF job.plan \in {"reentry", "backfill"} THEN 0 ELSE 1
           IN  /\ new.attempts <= AttemptCap
               /\ Cardinality(new.uses) <= ContextAllowance
               /\ new.attempts + Cardinality(new.uses)
                    >= card.attempts + Cardinality(card.uses) + paid
<1> DEFINE c   == Prepared(card, job.plan, job.seen)
           new == Queued(c, job.seen, job.plan)
           h   == job.seen.head
<1>1. /\ job \in Job /\ card \in Card /\ job.plan \in Plans /\ job.seen \in Obs
      /\ (job.plan = "reentry" => Attempts(card, h) >= 1)
  BY PaidTypes, JobFields DEF JobOK, PlanOK, Queues
<1>2. ShouldTriage(c, job.seen, job.plan)
  BY DEF SeenInv, StagesInv
<1>3. c \in Card
  BY <1>1, PreparedType
<1>4. /\ c.uses = card.uses
      /\ job.plan \in {"none", "backfill"} => c.attempts = card.attempts
      /\ job.plan = "reentry" => c.attempts = Attempts(card, h) - 1
      /\ job.plan \notin {"none", "backfill", "reentry"} => c.attempts = Attempts(card, h)
      /\ job.plan \notin {"none", "absent"} => c.triaged = None
  <2>1. card \in Card /\ job.plan \in Plans
    BY <1>1
  <2>2. /\ c.uses = card.uses
        /\ job.plan \in {"none", "backfill"} => c.attempts = card.attempts
        /\ job.plan \notin {"none", "absent"} => c.triaged = None
    BY <2>1, PreparedMarks, PreparedAttempts
  <2>3. job.plan = "reentry" => c.attempts = Attempts(card, h) - 1
    BY <2>1, PreparedAttempts
  <2>4. job.plan \notin {"none", "backfill", "reentry"} => c.attempts = Attempts(card, h)
    BY <2>1, PreparedAttempts
  <2>5. QED BY <2>2, <2>3, <2>4
<1>5. /\ ContextMoved(c, job.seen) /\ job.plan # "backfill" =>
            new.uses = c.uses \cup {job.seen.base}
      /\ ~(ContextMoved(c, job.seen) /\ job.plan # "backfill") => new.uses = c.uses
      /\ ContextMoved(c, job.seen) \/ job.plan = "backfill" => new.attempts = c.attempts
      /\ ~(ContextMoved(c, job.seen) \/ job.plan = "backfill") =>
            new.attempts = Attempts(c, h) + 1
  <2> HIDE DEF c
  <2>1. QED BY <1>3, QueuedFields
<1> HIDE DEF c, new
<1>6. /\ card.attempts \in Nat /\ Cardinality(card.uses) \in Nat /\ IsFiniteSet(card.uses)
      /\ AttemptCap \in Nat /\ AttemptCap >= 1 /\ ContextAllowance \in Nat
      /\ card.attempts <= AttemptCap /\ Cardinality(card.uses) <= ContextAllowance
  BY HeadTypes DEF HeadInv
<1>7. /\ Attempts(card, h) \in Nat /\ Attempts(card, h) >= card.attempts
      /\ Attempts(card, h) <= AttemptCap
  BY <1>1, <1>6, AttemptsType DEF Attempts
<1>8. Attempts(c, h) \in Nat /\ Attempts(c, h) >= c.attempts /\ c.attempts \in Nat
  BY <1>3, AttemptsType, CardFields
<1>9. CASE job.plan = "backfill"
  <2>1. new.uses = card.uses /\ new.attempts = card.attempts
    BY <1>4, <1>5, <1>9
  <2>2. QED BY <1>6, <1>9, <2>1 DEF new, c
<1>10. CASE job.plan # "backfill" /\ ContextMoved(c, job.seen)
  <2>1. c.triaged = h /\ h # None
    BY <1>1, <1>10, ObsFields DEF ContextMoved
  <2>2. job.plan \in {"none", "absent"}
    BY <1>4, <2>1
  <2>3. job.seen.base \notin card.uses /\ Cardinality(card.uses) < ContextAllowance
    BY <1>2, <1>4, <1>10 DEF ShouldTriage, ContextAdmits
  <2>4. new.uses = card.uses \cup {job.seen.base} /\ new.attempts = c.attempts
    BY <1>4, <1>5, <1>10
  <2>5. Cardinality(new.uses) = Cardinality(card.uses) + 1
    <3>1. Cardinality(card.uses \cup {job.seen.base}) = Cardinality(card.uses) + 1
      BY <1>6, <2>3, FS_AddElement
    <3>2. QED BY <2>4, <3>1
  <2>6. card.attempts <= c.attempts /\ c.attempts <= AttemptCap
    BY <1>4, <1>6, <1>7, <2>2
  <2>7. QED BY <1>6, <1>8, <2>2, <2>3, <2>4, <2>5, <2>6 DEF new, c
<1>11. CASE job.plan # "backfill" /\ ~ContextMoved(c, job.seen)
  <2>1. Attempts(c, h) < AttemptCap
    BY <1>2, <1>11 DEF ShouldTriage
  <2>2. new.uses = card.uses /\ new.attempts = Attempts(c, h) + 1
    BY <1>4, <1>5, <1>11
  <2>3. new.attempts <= AttemptCap
    BY <1>6, <1>8, <2>1, <2>2
  <2>4. job.plan = "reentry" => new.attempts >= card.attempts
    BY <1>4, <1>6, <1>7, <1>8, <2>2
  <2>5. job.plan # "reentry" => new.attempts >= card.attempts + 1
    BY <1>4, <1>6, <1>7, <1>8, <1>11, <2>2
  <2>6. QED BY <1>6, <1>8, <1>11, <2>2, <2>3, <2>4, <2>5 DEF new, c
<1>12. QED BY <1>9, <1>10, <1>11

\* The queued write: the new attempt may be used, or the one a re-entry gives back
\* (reconcile.maybe_queue_auto_triage).
LEMMA CommitOnBooks ==
    ASSUME TypeInv, TypeInv', SeenInv, HeadInv, Commit
    PROVE  HeadInv'
<1> DEFINE c   == Prepared(card, job.plan, job.seen)
           new == Queued(c, job.seen, job.plan)
<1>1. /\ job \in Job /\ card \in Card /\ claims \in Claims /\ job.plan \in Plans
      /\ job.seen \in Obs /\ job.at = "commit" /\ calls' = calls
      /\ (job.plan = "reentry" => Attempts(card, job.seen.head) >= 1)
  BY PaidTypes, JobFields DEF JobOK, PlanOK, Queues, Commit, triageHistory
<1>2. job'.at # "model"
  BY <1>1, EndFacts DEF Commit, Go, Job
<1>3. CASE UNCHANGED <<card, claims>>
  BY <1>1, <1>2, <1>3, UnusedStays, HeadStays
<1>4. CASE ~UNCHANGED <<card, claims>>
  <2>1. /\ card' = new /\ ~job.moved
        /\ job.plan \in {"none", "backfill"} => claims' = claims
        /\ job.plan \notin {"none", "backfill"} => claims' = [claims EXCEPT !.late = {}]
    BY <1>4 DEF Commit, SnapshotMatches
  <2>2. claims'.active = claims.active
    BY <1>1, <2>1 DEF Claims
  <2>3. /\ c \in Card /\ c.obs = card.obs
        /\ job.plan = "backfill" => c.backfill = job.seen
        /\ job.plan # "backfill" => c.backfill = card.backfill
        /\ job.plan \in {"none", "backfill"} => c.replayed = card.replayed
        /\ job.plan \notin {"none", "backfill"} => c.replayed = TRUE
    <3>1. card \in Card /\ job.plan \in Plans
      BY <1>1
    <3>2. /\ job.plan = "backfill" => c.backfill = job.seen
          /\ job.plan # "backfill" => c.backfill = card.backfill
      BY <3>1, PreparedMarks
    <3>3. /\ job.plan \in {"none", "backfill"} => c.replayed = card.replayed
          /\ job.plan \notin {"none", "backfill"} => c.replayed = TRUE
      BY <3>1, PreparedMarker
    <3>4. c \in Card /\ c.obs = card.obs
      BY <1>1, PreparedType
    <3>5. QED BY <3>2, <3>3, <3>4
  <2>4. /\ card'.obs = card.obs /\ card'.ctx = job.seen
        /\ job.plan = "backfill" => card'.backfill = job.seen
        /\ job.plan # "backfill" => card'.backfill = card.backfill
        /\ job.plan \in {"none", "backfill"} => card'.replayed = card.replayed
        /\ job.plan \notin {"none", "backfill"} => card'.replayed = TRUE
    <3> HIDE DEF c
    <3>1. QED BY <2>1, <2>3, QueuedFields
  <2>5. LET paid == IF job.plan \in {"reentry", "backfill"} THEN 0 ELSE 1
        IN  /\ card'.attempts <= AttemptCap
            /\ Cardinality(card'.uses) <= ContextAllowance
            /\ card'.attempts + Cardinality(card'.uses)
                 >= card.attempts + Cardinality(card.uses) + paid
    BY <1>1, <2>1, BooksGrow
  <2> HIDE DEF c, new
  <2>6. One(job'.at = "model") = 0 /\ One(job.at = "model") = 0
    BY <1>1, <1>2 DEF One
  <2>7. /\ One(Unused') \in {0, 1} /\ One(Unused) \in {0, 1}
        /\ One(Refilled) \in {0, 1} /\ One(Refilled') \in {0, 1}
    BY DEF One
  <2>8. One(Refilled) <= One(Refilled')
    <3>1. CASE job.plan = "backfill"
      <4>1. card.backfill = NoObs
        BY <1>1, <3>1 DEF SeenInv, StagesInv, Queues
      <4>2. QED BY <4>1, <2>7 DEF Refilled, One
    <3>2. CASE job.plan # "backfill"
      <4>1. Refilled' = Refilled
        BY <2>2, <2>4, <3>2 DEF Refilled
      <4>2. QED BY <2>7, <4>1
    <3>3. QED BY <3>1, <3>2
  <2>9. job.plan = "backfill" => One(Unused') = 0
    <3>1. ASSUME job.plan = "backfill" PROVE ~Unused'
      <4>1. ~card.replayed
        BY <1>1, <3>1 DEF SeenInv, StagesInv, Queues
      <4>2. QED BY <2>4, <3>1, <4>1 DEF Unused
    <3>2. QED BY <3>1 DEF One
  <2>10. job.plan = "reentry" => One(Unused) = 1
    <3>1. ASSUME job.plan = "reentry" PROVE Unused
      BY <1>1, <3>1 DEF SeenInv, StagesInv, Queues, Unused
    <3>2. QED BY <3>1 DEF One
  <2>11. \A h \in Moves : h > card'.obs.head => calls'[h] = 0
    BY <1>1, <2>4 DEF HeadInv
  <2>12. ASSUME card'.obs # NoObs
         PROVE  calls'[card'.obs.head] + One(job'.at = "model") + One(Unused')
                  <= card'.attempts + Cardinality(card'.uses) + One(Refilled')
    <3>1. calls[card.obs.head] + One(Unused)
            <= card.attempts + Cardinality(card.uses) + One(Refilled)
      BY <2>4, <2>6, <2>12, HeadTypes DEF HeadInv
    <3>2. /\ card.attempts \in Nat /\ Cardinality(card.uses) \in Nat
          /\ calls[card.obs.head] \in Nat
      BY <2>4, <2>12, HeadTypes
    <3>3. card'.attempts \in Nat /\ Cardinality(card'.uses) \in Nat
      <4>1. card'.attempts \in Nat /\ card'.uses \in SUBSET Moves
        BY CardFields DEF TypeInv, TriageTypeOK
      <4>2. IsFiniteSet(Moves)
        BY FS_Interval, ObsFields DEF Moves
      <4>3. QED BY <4>1, <4>2, FS_Subset, FS_CardinalityType
    <3>4. CASE job.plan = "backfill"
      BY <1>1, <2>4, <2>5, <2>6, <2>7, <2>8, <2>9, <3>1, <3>2, <3>3, <3>4
    <3>5. CASE job.plan = "reentry"
      BY <1>1, <2>4, <2>5, <2>6, <2>7, <2>8, <2>10, <3>1, <3>2, <3>3, <3>5
    <3>6. CASE job.plan \notin {"reentry", "backfill"}
      BY <1>1, <2>4, <2>5, <2>6, <2>7, <2>8, <3>1, <3>2, <3>3, <3>6
    <3>7. QED BY <3>4, <3>5, <3>6
  <2>13. QED BY <2>5, <2>11, <2>12 DEF HeadInv
<1>5. QED BY <1>3, <1>4

\* A claim that is taken back was used up: nothing is left that it stood for
\* (triage_replay.supersede_triage_claim).
LEMMA SupersedeOnBooks ==
    ASSUME TypeInv, TypeInv', SeenInv, HeadInv, Supersede
    PROVE  HeadInv'
<1>1. UNCHANGED <<card, calls>> /\ claims'.late = claims.late
      /\ job'.at \in {"idle", "gate"}
  BY SupersedeCases, IdleFacts
<1>2. CASE claims' = claims
  BY <1>1, <1>2, UnusedStays, HeadStays
<1>3. CASE claims' # claims
  <2>1. /\ ~ReplayBarred(OldKey(job.seen)) /\ OldKey(job.seen) \in claims.active
        /\ claims'.active = claims.active \ {OldKey(job.seen)}
    BY <1>3, SupersedeCases
  <2>2. card.status # "queued"
    BY <2>1, ReplayFinds DEF SeenInv
  <2>3. Unused' => Unused
    BY <1>1, <2>2 DEF Unused
  <2>4. Refilled => Refilled'
    <3>1. [ctx |-> card.backfill, rec |-> TRUE] # OldKey(job.seen)
      BY DEF OldKey
    <3>2. QED BY <1>1, <2>1, <3>1 DEF Refilled
  <2>5. QED BY <1>1, <2>3, <2>4, HeadStays
<1>4. QED BY <1>2, <1>3

\* Every step keeps the books.
LEMMA BooksKept ==
    ASSUME TypeInv, TypeInv', SeenInv, HeadInv, TriageNext
    PROVE  HeadInv'
<1>1. card \in Card /\ claims \in Claims /\ job \in Job
  BY PaidTypes
<1>2. CASE CalmStep
  <2>1. CardCalm /\ ClaimsCalm /\ JobCalm /\ UNCHANGED calls
    BY <1>2, CalmSteps, CalmJobs
  <2>2. (Unused' => Unused) /\ (Refilled => Refilled')
    BY <2>1, UnusedStays DEF CardCalm, ClaimsCalm
  <2>3. QED BY <2>1, <2>2, HeadStays DEF JobCalm, CardCalm
<1>3. CASE StartScan \/ StartTriage \/ StartReplay
  <2>1. UNCHANGED <<card, claims, calls>>
    BY <1>3 DEF StartScan, StartTriage, StartReplay, triageHistory
  <2>2. job'.at \in {"recover", "admit", "supersede"}
    BY <1>3 DEF StartScan, StartTriage, StartReplay, Idle
  <2>3. QED BY <2>1, <2>2, UnusedStays, HeadStays
<1>4. CASE TargetMoves \/ Midnight \/ RunAgain
  <2>1. UNCHANGED <<card, claims, calls, job>>
    BY <1>4 DEF TargetMoves, Midnight, RunAgain, triageHistory
  <2>2. QED BY <2>1, UnusedStays, HeadStays
<1>5. CASE TouchCard
  <2>1. UNCHANGED <<claims, calls>> /\ job'.at = job.at
    BY <1>1, <1>5 DEF TouchCard, triageHistory, Job
  <2>2. CardCalm
    BY <1>1, <1>5 DEF TouchCard, Card, CardCalm
  <2>3. QED BY <2>1, <2>2, UnusedStays, HeadStays DEF CardCalm
<1>6. CASE Gate \/ Reserve \/ Admit
  <2>1. UNCHANGED <<card, claims, calls>>
        /\ job'.at \in {"idle", "reserve", "commit", "defer", "claim"}
    BY <1>1, <1>6, EndFacts DEF Gate, Reserve, Refused, Admit, triageHistory, Go, Job
  <2>2. QED BY <2>1, UnusedStays, HeadStays
<1>7. QED BY <1>2, <1>3, <1>4, <1>5, <1>6, ShowsKeepBooks, ClaimOnBooks, CallOnBooks,
             CommitOnBooks, SupersedeOnBooks DEF TriageNext, TriageStep, CalmStep

\* The books start empty.
LEMMA BooksFirst == TriageInit => HeadInv
<1> SUFFICES ASSUME TriageInit PROVE HeadInv
  OBVIOUS
<1>1. card.obs = NoObs /\ card.attempts = 0 /\ card.uses = {}
  BY DEF TriageInit, NoCard
<1>2. \A h \in Moves : calls[h] = 0
  BY DEF TriageInit
<1>3. AttemptCap \in Nat /\ ContextAllowance \in Nat
  BY TriageAssumption DEF TriageAssumption
<1>4. Cardinality(card.uses) = 0
  BY <1>1, FS_EmptySet
<1>5. QED BY <1>1, <1>2, <1>3, <1>4 DEF HeadInv

\* The inductive invariant of the books.
TriageBooks == TypeInv /\ SeenInv /\ HeadInv

\* No head is reviewed more often than its attempts, its context refreshes and the
\* one backfill allow, whatever the card went through (render_card.
\* triage_attempt_count, agent_claim.duplicate_only_evidence).
THEOREM HeadIsNotOverspent == TriageSpec => []HeadSpendIsBounded
<1>1. TriageInit => TriageBooks
  BY TypesFirst, SeenFirst, BooksFirst DEF TriageBooks
<1>2. TriageBooks /\ [TriageNext]_triageVars => TriageBooks'
  <2>1. SUFFICES ASSUME TriageBooks, [TriageNext]_triageVars PROVE TriageBooks'
    OBVIOUS
  <2>2. TypeInv' /\ SeenInv'
    BY <2>1, TypesKept, SeenKept DEF TriageBooks
  <2>3. CASE TriageNext
    BY <2>1, <2>2, <2>3, BooksKept DEF TriageBooks
  <2>4. CASE UNCHANGED triageVars
    <3>1. HeadInv'
      BY <2>1, <2>4 DEF TriageBooks, triageVars, triageHistory, HeadInv, Unused, Refilled
    <3>2. QED BY <2>2, <3>1 DEF TriageBooks
  <2>5. QED BY <2>1, <2>3, <2>4
<1>3. TriageBooks => HeadSpendIsBounded
  <2>1. SUFFICES ASSUME TriageBooks, Pending
                 PROVE  /\ card.attempts <= AttemptCap
                        /\ Cardinality(card.uses) <= ContextAllowance
                        /\ calls[card.obs.head]
                             <= card.attempts + Cardinality(card.uses)
                                  + (IF card.backfill = NoObs THEN 0 ELSE 1)
    BY DEF HeadSpendIsBounded
  <2>2. TypeInv /\ HeadInv
    BY <2>1 DEF TriageBooks
  <2>3. card.obs # NoObs
    <3>1. card.obs \in Obs
      BY <2>1, <2>2, PaidTypes DEF CardOK, Pending
    <3>2. QED BY <3>1, ObsFields
  <2>4. One(Refilled) <= (IF card.backfill = NoObs THEN 0 ELSE 1)
    BY DEF One, Refilled
  <2>5. calls[card.obs.head] + One(job.at = "model") + One(Unused)
          <= card.attempts + Cardinality(card.uses) + One(Refilled)
    BY <2>2, <2>3 DEF HeadInv
  <2>6. /\ calls[card.obs.head] \in Nat /\ One(job.at = "model") \in {0, 1}
        /\ One(Unused) \in {0, 1} /\ One(Refilled) \in {0, 1}
        /\ card.attempts \in Nat /\ Cardinality(card.uses) \in Nat
    BY <2>2, <2>3, HeadTypes
  <2>7. calls[card.obs.head]
          <= card.attempts + Cardinality(card.uses)
               + (IF card.backfill = NoObs THEN 0 ELSE 1)
    BY <2>4, <2>5, <2>6
  <2>8. QED BY <2>2, <2>7 DEF HeadInv
<1>4. QED BY <1>1, <1>2, <1>3, PTL DEF TriageSpec
=============================================================================
