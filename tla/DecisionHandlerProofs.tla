------------------------- MODULE DecisionHandlerProofs -------------------------
(***************************************************************************)
(* What the decision handler guarantees on one card, for any decisions,     *)
(* acts of people, pushes, scans, reruns and failures.                      *)
(***************************************************************************)
EXTENDS DecisionHandler, TLAPS

USE DecisionsAssumption DEF DecisionsAssumption

\* The types with what keeps them: revisions are counted by trouble, and a run
\* and the recovery claims are of decisions that were made.
TypeInv ==
    /\ TypeOK
    /\ target.rev <= trouble
    /\ job.stage \in HandlerStages => job.ev \in 1..made
    /\ \A m \in card.marks : m.ev \in 1..made
    /\ \A e \in Events : e > made => events[e].tail = "more"

-----------------------------------------------------------------------------
(* How a step of the handler moves the run *)

Keeps == /\ job' \in Job /\ job'.ev = job.ev
         /\ job'.read = job.read /\ job'.recovered = job.recovered
         /\ UNCHANGED ended

Over == job' = NoJob /\ ended' = ended \cup {job.ev}

\* A run that goes on keeps its event, what it read and its recovery (GoTo).
LEMMA Goes ==
    ASSUME job \in Job, NEW s \in Stages, GoTo(s)
    PROVE  Keeps /\ job'.stage = s /\ job'.terminal = job.terminal
                 /\ job'.posted = job.posted
BY DEF GoTo, Job, Keeps

\* The same for an execution that ends (Ends).
LEMMA EndsGoes ==
    ASSUME job \in Job, NEW t \in Terminals, Ends(t)
    PROVE  Keeps /\ job'.stage = "reply" /\ job'.terminal = t
                 /\ job'.posted = job.posted
<1> job' = [job EXCEPT !.stage = "reply", !.terminal = t] /\ UNCHANGED ended
  BY DEF Ends
<1> QED BY DEF Job, Keeps, Stages

\* No run is well typed (EndRun).
LEMMA NoJobType == NoJob \in Job /\ NoJob.stage = "idle" /\ ~NoJob.recovered
BY DEF NoJob, Job, Stages, Terminals

\* After the recovery the run goes on, or ends by the policy (AfterRecovery).
LEMMA RecoveryGoes ==
    ASSUME job \in Job, NEW rec \in BOOLEAN, AfterRecovery(rec)
    PROVE  \/ /\ job' \in Job /\ job'.ev = job.ev /\ job'.read = job.read
              /\ job'.stage = "current" /\ job'.recovered = rec
              /\ UNCHANGED ended
           \/ Over
<1>1. CASE job.admitted
  <2>1. job' = [job EXCEPT !.stage = "current", !.recovered = rec] /\ UNCHANGED ended
    BY <1>1 DEF AfterRecovery
  <2>2. QED BY <2>1 DEF Job, Stages
<1>2. CASE ~job.admitted
  BY <1>2 DEF AfterRecovery, EndRun, Over
<1>3. QED BY <1>1, <1>2

\* A step of the handler leaves people, scans and the queue alone.
LEMMA HandlerFrame ==
    ASSUME TypeOK, HandlerStep \/ RunnerLost
    PROVE  /\ UNCHANGED <<events, made, queue, planned, listed, putting,
                          withdrawn, overtaken, acts>>
           /\ trouble' \in 0..MaxTrouble /\ trouble <= trouble'
<1>1. Others
  BY DEF HandlerStep, RunnerLost, SourcePolicy, Admit, Claim, Verify, CurrentCard,
         Lock, Revalidate, Revision, MergeGates, MergePut, Note, PolicyAgain, Shut,
         Reply, Clear, Resolve, Block, Drop, Close
<1>2. Works \/ Fault
  BY Zenon DEF HandlerStep, RunnerLost, SourcePolicy, Admit, Claim, Verify, CurrentCard,
         Lock, Revalidate, Revision, MergeGates, MergePut, Note, PolicyAgain, Shut,
         Reply, Clear, Resolve, Block, Drop, Close, CardWrite, Finishing, Raises
<1>3. trouble' \in 0..MaxTrouble /\ trouble <= trouble'
  BY <1>2 DEF TypeOK, Works, Fault, Trouble
<1>4. QED BY <1>1, <1>3 DEF Others, scan, labelHistory

\* What a step of the handler does to the run: it goes on or is over.
LEMMA JobStep ==
    ASSUME TypeOK, HandlerStep \/ RunnerLost
    PROVE  /\ job.stage \in HandlerStages
           /\ job' \in Job
           /\ \/ job'.ev = job.ev /\ job'.stage \in HandlerStages /\ UNCHANGED ended
              \/ Over
<1> USE DEF TypeOK, At, HandlerStages, ScanStages, Stages, Terminals
<1>0. NoJob \in Job BY NoJobType
<1>1. CASE SourcePolicy
  BY <1>1 DEF SourcePolicy, Job
<1>2. CASE Admit
  <2>1. job.stage = "admit" /\ card.boxes \in SUBSET Boxes
    BY <1>2 DEF Admit, Card
  <2>2. CASE job' = [job EXCEPT !.stage = "claim", !.read = card.boxes] /\ UNCHANGED ended
    BY <2>1, <2>2 DEF Job
  <2>3. CASE AfterRecovery(FALSE)
    BY <2>1, <2>3, <1>0, RecoveryGoes DEF Over
  <2>4. CASE EndRun
    BY <2>1, <2>4, <1>0 DEF EndRun, Over
  <2>5. QED BY <1>2, <2>2, <2>3, <2>4 DEF Admit
<1>3. CASE Claim
  BY <1>3, <1>0, Goes DEF Claim, EndRun, Over, Keeps
<1>4. CASE Verify
  <2>1. (AdmissionAsRead({}) /\ Mark(job.read) \in card.marks) \in BOOLEAN
    OBVIOUS
  <2>2. QED BY <1>4, <2>1, <1>0, RecoveryGoes DEF Verify, EndRun, Over
<1>5. CASE CurrentCard
  BY <1>5, <1>0, Goes DEF CurrentCard, EndRun, Over, Keeps
<1>6. CASE Lock
  BY <1>6, <1>0, Goes DEF Lock, Unlocks, Keeps
<1>7. CASE Revalidate
  BY <1>7, <1>0, Goes DEF Revalidate, Unlocks, Keeps
<1>8. CASE Revision
  BY <1>8, <1>0, Goes, EndsGoes DEF Revision, Keeps, FirstStep
<1>9. CASE MergeGates
  BY <1>9, <1>0, Goes, EndsGoes DEF MergeGates, Raises, Keeps, MergeHeld
<1>10. CASE MergePut
  BY <1>10, <1>0, EndsGoes DEF MergePut, Keeps
<1>11. CASE Note
  <2>1. \/ job' = [job EXCEPT !.stage = "reply", !.terminal = "none",
                             !.posted = TRUE] /\ UNCHANGED ended
        \/ job' = [job EXCEPT !.stage = "policyAgain", !.posted = TRUE]
           /\ UNCHANGED ended
        \/ Ends("error") \/ GoTo("clear")
    BY <1>11, Zenon DEF Note, Raises
  <2>2. job.stage = "note"
    BY <1>11 DEF Note
  <2>3. CASE job' = [job EXCEPT !.stage = "reply", !.terminal = "none",
                              !.posted = TRUE] /\ UNCHANGED ended
    BY <2>2, <2>3 DEF Job
  <2>6. CASE job' = [job EXCEPT !.stage = "policyAgain", !.posted = TRUE]
             /\ UNCHANGED ended
    BY <2>2, <2>6 DEF Job
  <2>4. CASE Ends("error") \/ GoTo("clear")
    BY <2>2, <2>4, Goes, EndsGoes DEF Keeps
  <2>5. QED BY <2>1, <2>3, <2>4, <2>6
<1>12. CASE PolicyAgain
  BY <1>12, <1>0, Goes, EndsGoes DEF PolicyAgain, Keeps
<1>13. CASE Shut
  BY <1>13, <1>0, EndsGoes DEF Shut, Keeps
<1>14. CASE Reply
  BY <1>14, <1>0, Goes DEF Reply, Keeps
<1>15. CASE Clear
  BY <1>15, <1>0, Goes DEF Clear, AfterClear, EndRun, Over, Keeps
<1>16. CASE Resolve \/ Block
  BY <1>16, <1>0, Goes DEF Resolve, Block, Keeps
<1>17. CASE Drop \/ Close
  BY <1>17, <1>0, Goes DEF Drop, Close, EndRun, Over, Keeps
<1>18. CASE RunnerLost
  BY <1>18, <1>0 DEF RunnerLost, EndRun, Over
<1>19. QED
  BY <1>1, <1>2, <1>3, <1>4, <1>5, <1>6, <1>7, <1>8, <1>9, <1>10, <1>11, <1>12, <1>13,
     <1>14, <1>15, <1>16, <1>17, <1>18 DEF HandlerStep

\* A write to the card by a step of the handler: what it does to each part of the
\* card, where it may have failed and landed all the same (CardWrite).
LEMMA Writes ==
    ASSUME NEW c \in Card, card \in Card, CardWrite(c)
    PROVE  \/ /\ Fault /\ broken' = TRUE /\ card' = card
           \/ /\ (Fault /\ broken' = TRUE) \/ (Works /\ UNCHANGED broken)
              /\ card' = Touched(c)
BY DEF CardWrite, Finishing

\* A write to the card drops what a scan holds of it and nothing else (Touched).
LEMMA TouchedCard ==
    ASSUME NEW c \in Card
    PROVE  /\ Touched(c) \in Card
           /\ Touched(c).open = c.open /\ Touched(c).states = c.states
           /\ Touched(c).labels = c.labels /\ Touched(c).boxes = c.boxes
           /\ Touched(c).rev = c.rev /\ Touched(c).comments = c.comments
           /\ Touched(c).marks = c.marks /\ ~Touched(c).erased
BY DEF Touched, Card

\* What a step of the handler does to the card.
CardSame == UNCHANGED card
CardStates(ss) ==
    /\ card' \in Card /\ card'.states = ss /\ ~card'.erased
    /\ card'.open = card.open /\ card'.boxes = card.boxes
    /\ card'.labels = card.labels /\ card'.rev = card.rev
    /\ card'.comments = card.comments /\ card'.marks = card.marks
CardComments(ms) ==
    /\ card' \in Card /\ card'.comments = card.comments + 1
    /\ card'.marks = ms /\ ~card'.erased
    /\ card'.open = card.open /\ card'.boxes = card.boxes
    /\ card'.labels = card.labels /\ card'.rev = card.rev
    /\ card'.states = card.states

\* The finishing steps set the outcome labels of the card and leave the rest of it.
LEMMA SetStates ==
    ASSUME card \in Card, NEW ss \in SUBSET States,
           card' = Touched([card EXCEPT !.states = ss])
    PROVE  CardStates(ss)
<1> DEFINE c == [card EXCEPT !.states = ss]
<1>1. /\ c \in Card /\ c.states = ss /\ c.open = card.open /\ c.boxes = card.boxes
      /\ c.labels = card.labels /\ c.rev = card.rev
      /\ c.comments = card.comments /\ c.marks = card.marks
  BY DEF Card
<1>2. card' = Touched(c)
  OBVIOUS
<1> HIDE DEF c
<1>3. /\ Touched(c) \in Card /\ ~Touched(c).erased
      /\ Touched(c).open = c.open /\ Touched(c).states = c.states
      /\ Touched(c).labels = c.labels /\ Touched(c).boxes = c.boxes
      /\ Touched(c).rev = c.rev /\ Touched(c).comments = c.comments
      /\ Touched(c).marks = c.marks
  BY <1>1, TouchedCard
<1>4. QED BY <1>1, <1>2, <1>3 DEF CardStates

\* The same for a comment, which may be a claim.
LEMMA Commented ==
    ASSUME NEW ms \in SUBSET [ev: Events, boxes: SUBSET Boxes], card \in Card,
           \/ card' = Touched([card EXCEPT !.comments = @ + 1, !.marks = ms])
           \/ card' = Touched([card EXCEPT !.comments = @ + 1]) /\ ms = card.marks
    PROVE  CardComments(ms)
<1>1. ASSUME NEW c \in Card, card' = Touched(c), c.comments = card.comments + 1,
             c.marks = ms, c.states = card.states, c.open = card.open,
             c.boxes = card.boxes, c.labels = card.labels, c.rev = card.rev
      PROVE  CardComments(ms)
  <2>1. /\ Touched(c) \in Card /\ ~Touched(c).erased
        /\ Touched(c).open = c.open /\ Touched(c).states = c.states
        /\ Touched(c).labels = c.labels /\ Touched(c).boxes = c.boxes
        /\ Touched(c).rev = c.rev /\ Touched(c).comments = c.comments
        /\ Touched(c).marks = c.marks
    BY TouchedCard
  <2>2. QED BY <1>1, <2>1 DEF CardComments
<1>2. card.comments + 1 \in Nat
  BY DEF Card
<1>3. CASE card' = Touched([card EXCEPT !.comments = @ + 1, !.marks = ms])
  <2>1. card' = Touched([card EXCEPT !.comments = card.comments + 1, !.marks = ms])
    BY <1>3
  <2>2. /\ [card EXCEPT !.comments = card.comments + 1, !.marks = ms] \in Card
    BY <1>2 DEF Card
  <2>3. QED BY <1>1, <2>1, <2>2 DEF Card
<1>4. CASE card' = Touched([card EXCEPT !.comments = @ + 1]) /\ ms = card.marks
  <2>1. [card EXCEPT !.comments = card.comments + 1] \in Card
    BY <1>2 DEF Card
  <2>2. QED BY <1>1, <1>4, <2>1 DEF Card
<1>5. QED BY <1>3, <1>4

\* A write of the labels or the reply by a finishing step (CardWrite).
LEMMA StatesWritten ==
    ASSUME NEW ss \in SUBSET States, card \in Card,
           CardWrite([card EXCEPT !.states = ss])
    PROVE  \/ card' = card /\ broken' = TRUE
           \/ CardStates(ss) /\ broken' \in {broken, TRUE}
<1>1. [card EXCEPT !.states = ss] \in Card
  BY DEF Card
<1>2. QED BY <1>1, Writes, SetStates

\* A reply that a finishing step posts is one comment more, and no claim.
LEMMA ReplyWritten ==
    ASSUME card \in Card, CardWrite([card EXCEPT !.comments = @ + 1])
    PROVE  \/ card' = card /\ broken' = TRUE
           \/ CardComments(card.marks) /\ broken' \in {broken, TRUE}
<1>1. [card EXCEPT !.comments = @ + 1] \in Card
  BY DEF Card
<1>2. card.marks \in SUBSET [ev: Events, boxes: SUBSET Boxes]
  BY DEF Card
<1>3. QED BY <1>1, <1>2, Writes, Commented

CardCloses ==
    /\ card' \in Card /\ ~card'.open /\ ~card'.erased
    /\ card'.states = card.states /\ card'.boxes = card.boxes
    /\ card'.labels = card.labels /\ card'.rev = card.rev
    /\ card'.comments = card.comments /\ card'.marks = card.marks

\* The close of the card that a finishing step asks for leaves its labels and comments.
LEMMA CloseWritten ==
    ASSUME card \in Card, CardWrite([card EXCEPT !.open = FALSE])
    PROVE  \/ card' = card /\ broken' = TRUE
           \/ CardCloses /\ broken' \in {broken, TRUE}
<1> DEFINE c == [card EXCEPT !.open = FALSE]
<1>1. /\ c \in Card /\ c.states = card.states /\ ~c.open /\ c.boxes = card.boxes
      /\ c.labels = card.labels /\ c.rev = card.rev
      /\ c.comments = card.comments /\ c.marks = card.marks
  BY DEF Card
<1>2. CardWrite(c)
  OBVIOUS
<1> HIDE DEF c
<1>3. /\ Touched(c) \in Card /\ ~Touched(c).erased
      /\ Touched(c).open = c.open /\ Touched(c).states = c.states
      /\ Touched(c).labels = c.labels /\ Touched(c).boxes = c.boxes
      /\ Touched(c).rev = c.rev /\ Touched(c).comments = c.comments
      /\ Touched(c).marks = c.marks
  BY <1>1, TouchedCard
<1>4. QED BY <1>1, <1>2, <1>3, Writes DEF CardCloses

\* What a step of the handler does to the card: a claim or a reply adds a comment,
\* the other writes set its states or close it.
LEMMA CardStep ==
    ASSUME TypeInv, HandlerStep \/ RunnerLost
    PROVE  \/ card' = card
           \/ Claim /\ CardComments(card.marks \cup {Mark(job.read)})
           \/ Reply /\ CardComments(card.marks)
           \/ Lock /\ CardStates(card.states \cup {"processing"})
           \/ Clear /\ CardStates(card.states \ {"processing"})
           \/ Resolve /\ CardStates(card.states \cup {"resolved"})
           \/ Block /\ CardStates(card.states \cup {"blocked"})
           \/ Drop /\ CardStates(card.states \ {"needs-decision"})
           \/ Close /\ CardCloses
<1> USE DEF TypeInv, TypeOK
<1>1. card.states \in SUBSET States
  BY DEF Card
<1>2. CASE Claim
  <2>1. job.ev \in Events /\ job.read \in SUBSET Boxes
    BY <1>2 DEF Claim, At, HandlerStages, ScanStages, Stages, Job, Events
  <2>2. (card.marks \cup {Mark(job.read)}) \in SUBSET [ev: Events, boxes: SUBSET Boxes]
    BY <2>1 DEF Mark, Card
  <2>3. \/ card' = card
        \/ card' = Touched([card EXCEPT !.comments = @ + 1,
                                        !.marks = card.marks \cup {Mark(job.read)}])
    BY <1>2 DEF Claim
  <2>4. QED BY <1>2, <2>2, <2>3, Commented
<1>3. CASE Reply
  BY <1>3, ReplyWritten DEF Reply
<1>4. CASE Lock
  <2>1. (card.states \cup {"processing"}) \in SUBSET States
    BY <1>1 DEF States
  <2>2. \/ card' = card
        \/ card' = Touched([card EXCEPT !.states = card.states \cup {"processing"}])
    BY <1>4 DEF Lock
  <2>3. QED BY <1>4, <2>1, <2>2, SetStates
<1>5. CASE Clear
  BY <1>1, <1>5, StatesWritten DEF Clear
<1>6. CASE Resolve
  BY <1>1, <1>6, StatesWritten DEF Resolve, States
<1>7. CASE Block
  BY <1>1, <1>7, StatesWritten DEF Block, States
<1>8. CASE Drop
  BY <1>1, <1>8, StatesWritten DEF Drop
<1>9. CASE Close
  BY <1>9, CloseWritten DEF Close
<1>10. QED
  BY <1>2, <1>3, <1>4, <1>5, <1>6, <1>7, <1>8, <1>9
     DEF HandlerStep, RunnerLost, SourcePolicy, Admit, Verify, CurrentCard, Revalidate,
         Revision, MergeGates, MergePut, Note, PolicyAgain, Shut, Looks

\* What a step of the handler does to the pull request and to the histories.
LEMMA EffectStep ==
    ASSUME TypeInv, HandlerStep \/ RunnerLost
    PROVE  /\ \/ UNCHANGED <<target, posts, ends>>
              \/ /\ Note /\ UNCHANGED <<target, ends>>
                 /\ posts' = [posts EXCEPT ![job.ev] = @ + 1]
              \/ /\ Shut /\ UNCHANGED posts
                 /\ target' = [target EXCEPT !.open = FALSE]
                 /\ ends' = [ends EXCEPT ![job.ev] = @ + (IF target.open THEN 1 ELSE 0)]
              \/ /\ MergePut /\ UNCHANGED posts /\ MergeAccepted
                 /\ target' = Merged
                 /\ ends' = [ends EXCEPT ![job.ev] = @ + 1]
           /\ \/ settled' = settled
              \/ Reply /\ settled' = settled \cup (1..made) /\ CardComments(card.marks)
           /\ \/ (~Clear \/ card' = card) /\ silent' = silent
              \/ /\ Clear
                 /\ silent' = IF job.ev \notin settled THEN silent \cup {job.ev} ELSE silent
           /\ broken' \in {broken, TRUE}
<1> USE DEF TypeInv, TypeOK, effects
<1>1. CASE Note
  BY <1>1 DEF Note, Clear, At
<1>2. CASE Shut
  BY <1>2 DEF Shut, Clear, At
<1>3. CASE MergePut
  BY <1>3 DEF MergePut, Clear, At
<1>4. CASE Reply
  <2>1. /\ UNCHANGED <<target, posts, ends, silent>> /\ job.stage = "reply"
        /\ settled' = IF card' # card THEN settled \cup (1..made) ELSE settled
    BY <1>4 DEF Reply, At
  <2>2. \/ card' = card /\ broken' = TRUE
        \/ CardComments(card.marks) /\ broken' \in {broken, TRUE}
    BY <1>4, ReplyWritten DEF Reply
  <2>3. QED BY <1>4, <2>1, <2>2 DEF Clear, At
<1>5. CASE Clear
  <2>1. card.states \in SUBSET States
    BY DEF Card
  <2>2. CardWrite([card EXCEPT !.states = card.states \ {"processing"}])
    BY <1>5 DEF Clear
  <2>3. card.states \ {"processing"} \in SUBSET States
    BY <2>1
  <2>4. broken' \in {broken, TRUE}
    BY <2>2, <2>3, StatesWritten
  <2>5. QED BY <1>5, <2>4 DEF Clear
<1>6. CASE Resolve \/ Block \/ Drop \/ Close
  <2>1. /\ UNCHANGED <<target, posts, ends, settled, silent>>
        /\ job.stage \in {"resolve", "block", "drop", "close"}
    BY <1>6 DEF Resolve, Block, Drop, Close, At
  <2>2. broken' \in {broken, TRUE}
    BY <1>6 DEF Resolve, Block, Drop, Close, CardWrite, Finishing
  <2>3. QED BY <2>1, <2>2 DEF Clear, At
<1>7. CASE \/ SourcePolicy \/ Admit \/ Claim \/ Verify \/ CurrentCard \/ Lock
           \/ Revalidate \/ Revision \/ MergeGates \/ PolicyAgain \/ RunnerLost
  <2>1. UNCHANGED <<target, posts, ends, settled, silent>> /\ broken' \in {broken, TRUE}
    BY <1>7 DEF SourcePolicy, Admit, Claim, Verify, CurrentCard, Lock, Revalidate,
                Revision, MergeGates, PolicyAgain, RunnerLost, Looks
  <2>2. ~Clear \/ card' = card
    BY <1>7 DEF SourcePolicy, Admit, Claim, Verify, CurrentCard, Lock, Revalidate,
                Revision, MergeGates, PolicyAgain, RunnerLost, Clear, At
  <2>3. QED BY <2>1, <2>2
<1>8. QED
  BY <1>1, <1>2, <1>3, <1>4, <1>5, <1>6, <1>7 DEF HandlerStep

-----------------------------------------------------------------------------
(* Types *)

\* A step of the handler keeps the types.
LEMMA HandlerType ==
    ASSUME TypeInv, HandlerStep \/ RunnerLost
    PROVE  TypeInv'
<1> USE DEF TypeInv
<1>0. job.ev \in 1..made /\ job.ev \in Events
  BY JobStep DEF TypeOK, Events
<1>1. job' \in Job /\ ended' \subseteq 1..made
      /\ (job'.stage \in HandlerStages => job'.ev \in 1..made)
  <2>1. NoJob.stage \notin HandlerStages /\ NoJob \in Job
    BY NoJobType DEF HandlerStages, ScanStages
  <2>2. QED BY <1>0, <2>1, JobStep DEF TypeOK, Over
<1>2. card' \in Card /\ \A m \in card'.marks : m.ev \in 1..made
  BY <1>0, CardStep DEF TypeOK, CardComments, CardStates, CardCloses, Mark
<1>3. target' \in Target /\ target'.rev = target.rev
  BY EffectStep DEF TypeOK, Target, Merged
<1>4. posts' \in [Events -> Nat] /\ ends' \in [Events -> Nat]
  <2>1. posts[job.ev] + 1 \in Nat /\ ends[job.ev] + 1 \in Nat /\ ends[job.ev] + 0 \in Nat
    BY <1>0 DEF TypeOK
  <2>2. \/ UNCHANGED <<posts, ends>>
        \/ posts' = [posts EXCEPT ![job.ev] = posts[job.ev] + 1] /\ UNCHANGED ends
        \/ \E i \in {0, 1} : /\ ends' = [ends EXCEPT ![job.ev] = ends[job.ev] + i]
                            /\ UNCHANGED posts
    BY EffectStep
  <2>3. posts \in [Events -> Nat] /\ ends \in [Events -> Nat]
    BY DEF TypeOK
  <2>4. QED BY <2>1, <2>2, <2>3
<1>5. settled' \subseteq 1..made /\ silent' \subseteq 1..made /\ broken' \in BOOLEAN
  BY <1>0, EffectStep DEF TypeOK
<1>6. /\ UNCHANGED <<events, made, queue, planned, listed, putting,
                     withdrawn, overtaken, acts>>
      /\ trouble' \in 0..MaxTrouble /\ trouble <= trouble'
  BY HandlerFrame
<1>7. target'.rev <= trouble'
  BY <1>3, <1>6 DEF TypeOK, Target, Revs
<1>8. QED BY <1>1, <1>2, <1>3, <1>4, <1>5, <1>6, <1>7 DEF TypeOK, Events

\* The tail of an event is rewritten by a label row or a projection; all else that
\* an event says stays as it was made.
SameButTail(f) ==
    /\ f \in [Events -> Event]
    /\ \A e \in Events : /\ f[e].by = events[e].by /\ f[e].what = events[e].what
                         /\ f[e].rev = events[e].rev /\ f[e].states = events[e].states
                         /\ f[e].labels = events[e].labels
                         /\ f[e].comments = events[e].comments
                         /\ events[e].tail = "more" => f[e].tail = "more"

\* A rewrite of the tails alone changes nothing else of an event.
LEMMA TailChanges ==
    ASSUME events \in [Events -> Event],
           NEW tails \in [Events -> {"labeled", "erased", "more"}],
           \A e \in Events : events[e].tail = "more" => tails[e] = "more"
    PROVE  SameButTail([e \in Events |-> [events[e] EXCEPT !.tail = tails[e]]])
<1> DEFINE f == [e \in Events |-> [events[e] EXCEPT !.tail = tails[e]]]
<1>1. \A e \in Events : f[e] = [events[e] EXCEPT !.tail = tails[e]]
  OBVIOUS
<1>2. f = [e \in Events |-> f[e]]
  OBVIOUS
<1> HIDE DEF f
<1>3. ASSUME NEW e \in Events
      PROVE  /\ f[e] \in Event /\ f[e].by = events[e].by /\ f[e].what = events[e].what
             /\ f[e].rev = events[e].rev /\ f[e].states = events[e].states
             /\ f[e].labels = events[e].labels /\ f[e].comments = events[e].comments
             /\ f[e].tail = tails[e]
  <2>1. events[e] \in Event /\ tails[e] \in {"labeled", "erased", "more"}
    OBVIOUS
  <2>2. LET v == [events[e] EXCEPT !.tail = tails[e]]
        IN  /\ v \in Event /\ v.by = events[e].by /\ v.what = events[e].what
            /\ v.rev = events[e].rev /\ v.states = events[e].states
            /\ v.labels = events[e].labels /\ v.comments = events[e].comments
            /\ v.tail = tails[e]
    BY <2>1 DEF Event
  <2>3. QED BY <1>1, <2>2
<1>4. SameButTail(f)
  BY <1>2, <1>3 DEF SameButTail
<1>5. QED BY <1>4 DEF f

\* A label row is one more for every event (OwnerLabels, OwnerUnlabels).
LEMMA RowAddedType ==
    ASSUME events \in [Events -> Event]
    PROVE  /\ SameButTail(RowAdded) /\ SameButTail(events)
           /\ \A e \in Events : RowAdded[e].tail = "more"
<1>1. RowAdded = [e \in Events |-> [events[e] EXCEPT !.tail = "more"]]
  BY DEF RowAdded
<1>2. ASSUME NEW e \in Events
      PROVE  LET v == [events[e] EXCEPT !.tail = "more"]
             IN  /\ v \in Event /\ v.by = events[e].by /\ v.what = events[e].what
                 /\ v.rev = events[e].rev /\ v.states = events[e].states
                 /\ v.labels = events[e].labels /\ v.comments = events[e].comments
                 /\ v.tail = "more"
  BY DEF Event
<1>3. QED BY <1>1, <1>2 DEF SameButTail

\* What a decision of the owner does (Decide): a new event of the card c, from
\* which a run is queued, and no other event changes but in its tail.
Decided(by, d, c) ==
    /\ made < MaxEvents /\ made' = made + 1 /\ made + 1 \in Events
    /\ card' = Touched(c)
    /\ events' \in [Events -> Event]
    /\ events'[made + 1] = Made(by, d, c)
    /\ \A e \in 1..made : /\ events'[e].by = events[e].by
                          /\ events'[e].what = events[e].what
                          /\ events'[e].rev = events[e].rev
                          /\ events'[e].states = events[e].states
                          /\ events'[e].labels = events[e].labels
                          /\ events'[e].comments = events[e].comments
    /\ \A e \in Events : e > made + 1 => events'[e].tail = "more"
    /\ queue' = queue \cup {made + 1}
    /\ acts' \in 0..MaxActs
    /\ UNCHANGED <<target, ended, job, posts, ends, settled, silent, broken,
                   planned, putting, trouble>>
    /\ listed' = FALSE

\* A decision is queued as a new event; it touches no run and no outcome (Decide).
LEMMA DecideStep ==
    ASSUME TypeInv, NEW by \in {"box", "label", "slash"}, NEW d \in Decisions,
           NEW c \in Card, NEW rest, SameButTail(rest), Decide(by, d, c, rest)
    PROVE  Decided(by, d, c)
<1> USE DEF TypeInv, TypeOK
<1>1. /\ made < MaxEvents /\ made' = made + 1 /\ made + 1 \in Events
      /\ \A e \in 1..made : e \in Events /\ e # made + 1
      /\ \A e \in Events : e > made + 1 => e > made /\ e # made + 1
  BY DEF Decide, Events
<1>2. Made(by, d, c) \in Event
  BY DEF Made, Event, Card
<1>3. events' = [rest EXCEPT ![made + 1] = Made(by, d, c)]
  BY DEF Decide
<1>4. /\ events' \in [Events -> Event]
      /\ events'[made + 1] = Made(by, d, c)
      /\ \A e \in 1..made : events'[e] = rest[e]
      /\ \A e \in Events : e > made + 1 => events'[e].tail = "more"
  BY <1>1, <1>2, <1>3 DEF SameButTail
<1>5. acts' \in 0..MaxActs /\ UNCHANGED trouble
  BY DEF Decide, Act
<1>6. QED BY <1>1, <1>4, <1>5 DEF Decided, Decide, SameButTail, effects

\* The card after somebody else wrote to it: its states and claims stay.
Rewritten(c) ==
    /\ c \in Card /\ c.states = card.states /\ c.marks = card.marks
    /\ c.comments >= card.comments /\ c.rev = card.rev

\* A tick, a label and a slash-command are decisions.
LEMMA Decisive ==
    ASSUME TypeInv, NEW d \in Decisions,
           OwnerTicks(d) \/ OwnerLabels(d) \/ OwnerCommands(d)
    PROVE  /\ \E by \in {"box", "label", "slash"}, c \in Card :
                 Rewritten(c) /\ Decided(by, d, c)
           /\ withdrawn' \subseteq 1..made /\ overtaken' \subseteq 1..made
<1> USE DEF TypeInv, TypeOK
<1>1. SameButTail(RowAdded) /\ SameButTail(events)
  BY RowAddedType
<1>2. Erased \subseteq 1..made
  BY DEF Erased, Unsettled, Events
<1>3. CASE OwnerTicks(d)
  <2> DEFINE c == [card EXCEPT !.boxes = @ \cup {d}]
  <2>1. Rewritten(c)
    BY <1>3 DEF OwnerTicks, Card, Rewritten
  <2>2. Decide("box", d, c, events)
    BY <1>3 DEF OwnerTicks
  <2>3. withdrawn' \subseteq 1..made /\ overtaken' \subseteq 1..made
    BY <1>2, <1>3 DEF OwnerTicks
  <2>4. QED BY <1>1, <2>1, <2>2, <2>3, DecideStep DEF Rewritten
<1>4. CASE OwnerLabels(d)
  <2> DEFINE c == [card EXCEPT !.labels = @ \cup {d}]
  <2>1. Rewritten(c)
    BY <1>4 DEF OwnerLabels, Card, Rewritten
  <2>2. Decide("label", d, c, RowAdded)
    BY <1>4 DEF OwnerLabels
  <2>3. withdrawn' \subseteq 1..made /\ overtaken' \subseteq 1..made
    BY <1>2, <1>4 DEF OwnerLabels
  <2>4. QED BY <1>1, <2>1, <2>2, <2>3, DecideStep DEF Rewritten
<1>5. CASE OwnerCommands(d)
  <2> DEFINE c == [card EXCEPT !.comments = @ + 1]
  <2>0. card.comments \in Nat /\ card.comments + 1 \in Nat
    BY DEF Card
  <2>1. Rewritten(c)
    BY <2>0 DEF Card, Rewritten
  <2>2. Decide("slash", d, c, events)
    BY <1>5 DEF OwnerCommands
  <2>3. withdrawn' \subseteq 1..made /\ overtaken' \subseteq 1..made
    BY <1>5 DEF OwnerCommands, labelHistory
  <2>4. QED BY <1>1, <2>1, <2>2, <2>3, DecideStep DEF Rewritten
<1>6. QED BY <1>3, <1>4, <1>5

\* Everybody else's steps: no decision is made, and the handler's effects and the
\* run under way stay.
Aside ==
    /\ card' \in Card /\ card'.states = card.states /\ card'.marks = card.marks
    /\ card'.comments >= card.comments
    /\ target' \in Target /\ target'.merged = target.merged
    /\ target'.rev <= trouble' /\ target'.open \in {target.open, FALSE}
    /\ SameButTail(events') /\ made' = made
    /\ queue' \subseteq 1..made /\ UNCHANGED ended
    /\ UNCHANGED <<posts, ends, settled, silent, broken>>
    /\ withdrawn' \subseteq 1..made /\ overtaken' \subseteq 1..made
    /\ planned' \in Revs /\ listed' \in BOOLEAN /\ putting' \subseteq Labels
    /\ acts' \in 0..MaxActs /\ trouble' \in 0..MaxTrouble

\* What people do besides deciding: they withdraw, comment, close and push.
LEMMA PeopleAside ==
    ASSUME TypeInv,
           \/ \E d \in Decisions : OwnerUnticks(d) \/ OwnerUnlabels(d)
           \/ SomebodyComments \/ OwnerClosesCard \/ Pushes \/ TargetClosesByHand
    PROVE  Aside /\ UNCHANGED job
<1> USE DEF TypeInv, TypeOK, history, queues, scan, effects, labelHistory
<1>0. SameButTail(RowAdded) /\ SameButTail(events)
  BY RowAddedType
<1>1. Erased \subseteq 1..made
  BY DEF Erased, Unsettled, Events
<1>2. ASSUME NEW c \in Card, Rewritten(c), card' = Touched(c)
      PROVE  /\ card' \in Card /\ card'.states = card.states
             /\ card'.marks = card.marks /\ card'.comments >= card.comments
  BY <1>2, TouchedCard DEF Rewritten
<1>3. Act => acts' \in 0..MaxActs /\ UNCHANGED trouble
  BY DEF Act
<1>4. CASE \E d \in Decisions : OwnerUnticks(d)
  <2>1. PICK d \in Decisions : OwnerUnticks(d)
    BY <1>4
  <2>2. Rewritten([card EXCEPT !.boxes = @ \ {d}])
    BY DEF Card, Rewritten
  <2>3. card' = Touched([card EXCEPT !.boxes = @ \ {d}])
    BY <2>1 DEF OwnerUnticks
  <2>4. /\ card' \in Card /\ card'.states = card.states
        /\ card'.marks = card.marks /\ card'.comments >= card.comments
    BY <1>2, <2>2, <2>3 DEF Rewritten
  <2>5. overtaken' \subseteq 1..made
    BY <1>1, <2>1 DEF OwnerUnticks
  <2>6. QED BY <1>0, <1>3, <2>1, <2>4, <2>5 DEF OwnerUnticks, Aside
<1>5. CASE \E d \in Decisions : OwnerUnlabels(d)
  <2>1. PICK d \in Decisions : OwnerUnlabels(d)
    BY <1>5
  <2>2. Rewritten([card EXCEPT !.labels = @ \ {d}])
    BY DEF Card, Rewritten
  <2>3. card' = Touched([card EXCEPT !.labels = @ \ {d}])
    BY <2>1 DEF OwnerUnlabels
  <2>4. /\ card' \in Card /\ card'.states = card.states
        /\ card'.marks = card.marks /\ card'.comments >= card.comments
    BY <1>2, <2>2, <2>3 DEF Rewritten
  <2>5. overtaken' \subseteq 1..made /\ withdrawn' \subseteq 1..made
    BY <1>1, <2>1 DEF OwnerUnlabels
  <2>6. QED BY <1>0, <1>3, <2>1, <2>4, <2>5 DEF OwnerUnlabels, Aside
<1>6. CASE SomebodyComments
  <2>0. card.comments \in Nat /\ card.comments + 1 \in Nat
    BY DEF Card
  <2>1. Rewritten([card EXCEPT !.comments = @ + 1])
    BY <2>0 DEF Card, Rewritten
  <2>2. card' = Touched([card EXCEPT !.comments = @ + 1])
    BY <1>6 DEF SomebodyComments
  <2>3. /\ card' \in Card /\ card'.states = card.states
        /\ card'.marks = card.marks /\ card'.comments >= card.comments
    BY <1>2, <2>1, <2>2 DEF Rewritten
  <2>4. QED BY <1>0, <1>3, <1>6, <2>3 DEF SomebodyComments, Aside
<1>7. CASE OwnerClosesCard
  <2>0. card.comments >= card.comments
    BY DEF Card
  <2>1. Rewritten([card EXCEPT !.open = FALSE])
    BY <2>0 DEF Card, Rewritten
  <2>2. card' = Touched([card EXCEPT !.open = FALSE])
    BY <1>7 DEF OwnerClosesCard
  <2>3. /\ card' \in Card /\ card'.states = card.states
        /\ card'.marks = card.marks /\ card'.comments >= card.comments
    BY <1>2, <2>1, <2>2 DEF Rewritten
  <2>4. QED BY <1>0, <1>3, <1>7, <2>3 DEF OwnerClosesCard, Aside
<1>8. CASE Pushes
  <2>1. /\ target.rev + 1 \in Revs /\ target.rev + 1 <= trouble'
        /\ trouble' \in 0..MaxTrouble
    BY <1>8 DEF Pushes, Trouble, Target, Revs
  <2>2. target' = [target EXCEPT !.rev = target.rev + 1]
    BY <1>8 DEF Pushes
  <2>3. /\ target' \in Target /\ target'.merged = target.merged
        /\ target'.rev = target.rev + 1 /\ target'.open = target.open
    BY <2>1, <2>2 DEF Target
  <2>4. card.comments >= card.comments
    BY DEF Card
  <2>5. QED BY <1>0, <1>8, <2>1, <2>3, <2>4 DEF Pushes, Aside
<1>9. CASE TargetClosesByHand
  <2>1. /\ target' \in Target /\ target'.merged = target.merged
        /\ target'.rev = target.rev /\ target'.open = FALSE
    BY <1>9 DEF TargetClosesByHand, Target
  <2>2. card.comments >= card.comments
    BY DEF Card
  <2>3. QED BY <1>0, <1>3, <1>9, <2>1, <2>2 DEF TargetClosesByHand, Aside
<1>10. QED BY <1>4, <1>5, <1>6, <1>7, <1>8, <1>9

\* A scan rewrites the card but neither its states nor its claims.
LEMMA ScanAside ==
    ASSUME TypeInv, ScanLists \/ ScanReads \/ ScanPatches
    PROVE  /\ Aside /\ job' \in Job /\ job.stage \notin HandlerStages
           /\ job'.stage \notin HandlerStages
           /\ job'.recovered => job.recovered
<1> USE DEF TypeInv, TypeOK, history, scan, effects, labelHistory, ScanOnly, At
<1>0. SameButTail(events)
  BY RowAddedType
<1>1. card.comments >= card.comments /\ target.open \in {target.open, FALSE}
  BY DEF Card
<1>2. CASE ScanLists
  <2>1. /\ job' = [job EXCEPT !.stage = "scanRead"] /\ job.stage = "idle"
        /\ trouble' \in 0..MaxTrouble /\ target.rev <= trouble'
        /\ planned' \in Revs /\ listed' \in BOOLEAN
    BY <1>2 DEF ScanLists, Trouble, Target, Revs
  <2>2. /\ job' \in Job /\ job'.stage = "scanRead" /\ job'.recovered = job.recovered
    BY <2>1 DEF Job, Stages
  <2>3. QED
    BY <1>0, <1>1, <1>2, <2>1, <2>2 DEF ScanLists, Aside, HandlerStages, ScanStages
<1>3. CASE ScanReads
  <2>1. /\ job' \in Job /\ job'.stage \in {"idle", "scanPatch"}
        /\ job'.recovered => job.recovered
    <3>1. CASE job' = [job EXCEPT !.stage = "scanPatch"]
      BY <3>1 DEF Job, Stages
    <3>2. CASE job' = NoJob
      BY <3>2, NoJobType
    <3>3. QED BY <1>3, <3>1, <3>2 DEF ScanReads
  <2>2. putting' \subseteq Labels /\ listed' \in BOOLEAN
    BY <1>3 DEF ScanReads, Card
  <2>3. QED
    BY <1>0, <1>1, <1>3, <2>1, <2>2 DEF ScanReads, Aside, HandlerStages, ScanStages
<1>4. CASE ScanPatches
  <2>1. SameButTail(events')
    <3>1. \A e \in Events : /\ PatchedTail(e) \in {"labeled", "erased", "more"}
                            /\ events[e].tail = "more" => PatchedTail(e) = "more"
      BY DEF PatchedTail, Event
    <3> DEFINE tails == [e \in Events |-> PatchedTail(e)]
    <3>2. /\ tails \in [Events -> {"labeled", "erased", "more"}]
          /\ \A e \in Events : events[e].tail = "more" => tails[e] = "more"
      BY <3>1
    <3>3. events' = [e \in Events |-> [events[e] EXCEPT !.tail = tails[e]]]
      BY <1>4 DEF ScanPatches
    <3> HIDE DEF tails
    <3>4. SameButTail([e \in Events |-> [events[e] EXCEPT !.tail = tails[e]]])
      BY <3>2, TailChanges
    <3>5. QED BY <3>3, <3>4
  <2>2. /\ card' \in Card /\ card'.states = card.states
        /\ card'.marks = card.marks /\ card'.comments = card.comments
    <3>1. card' = [card EXCEPT !.rev = planned, !.boxes = {}, !.labels = putting,
                               !.erased = (card.labels \ putting # {})]
      BY <1>4 DEF ScanPatches
    <3>2. (card.labels \ putting # {}) \in BOOLEAN
      OBVIOUS
    <3>3. QED BY <3>1, <3>2 DEF Card
  <2>3. /\ job' = NoJob /\ job.stage = "scanPatch"
        /\ planned' \in Revs /\ putting' \subseteq Labels
    BY <1>4 DEF ScanPatches, Revs
  <2>4. QED
    BY <1>1, <1>4, <2>1, <2>2, <2>3, NoJobType
       DEF ScanPatches, Aside, HandlerStages, ScanStages
<1>5. QED BY <1>2, <1>3, <1>4

\* A run starts, or an ended one is queued again.
LEMMA RunsAside ==
    ASSUME TypeInv, NEW e \in Events, Start(e) \/ Rerun(e)
    PROVE  /\ Aside /\ UNCHANGED card
           /\ \/ UNCHANGED job
              \/ /\ job.stage = "idle" /\ job' \in Job /\ job'.stage = "policy"
                 /\ job'.ev \in 1..made /\ job'.recovered = job.recovered
<1> USE DEF TypeInv, TypeOK, history, scan, effects, labelHistory, bounds, At
<1>0. SameButTail(events)
  BY RowAddedType
<1>1. card.comments >= card.comments /\ target.open \in {target.open, FALSE}
  BY DEF Card
<1>2. CASE Start(e)
  <2>1. /\ job' = [job EXCEPT !.stage = "policy", !.ev = e] /\ job.stage = "idle"
        /\ e \in 1..made
    BY <1>2 DEF Start
  <2>2. /\ job' \in Job /\ job'.stage = "policy" /\ job'.ev = e
        /\ job'.recovered = job.recovered
    BY <2>1 DEF Job, Stages
  <2>3. /\ UNCHANGED <<card, target, events, made, ended, posts, ends, settled, silent,
                       withdrawn, overtaken, broken, planned, listed, putting,
                       acts, trouble>>
        /\ queue' = queue \ {e}
    BY <1>2, Zenon DEF Start
  <2>4. Aside
    BY <1>0, <1>1, <2>3 DEF Aside
  <2>5. QED BY <2>1, <2>2, <2>3, <2>4
<1>3. CASE Rerun(e)
  <2>1. trouble' \in 0..MaxTrouble /\ target.rev <= trouble' /\ e \in 1..made
    <3>1. trouble < MaxTrouble /\ trouble' = trouble + 1 /\ e \in ended
      BY <1>3, Zenon DEF Rerun, Trouble
    <3>2. target.rev \in Nat
      BY DEF Target, Revs
    <3>3. /\ target.rev <= trouble /\ trouble \in Nat /\ MaxTrouble \in Nat
          /\ ended \subseteq 1..made
      OBVIOUS
    <3> HIDE DEF TypeInv, TypeOK
    <3>4. e \in 1..made
      BY <3>1, <3>3
    <3>5. trouble' \in 0..MaxTrouble /\ target.rev <= trouble'
      BY <3>1, <3>2, <3>3
    <3>6. QED BY <3>4, <3>5
  <2>2. /\ UNCHANGED <<card, target, events, made, ended, job, posts, ends, settled,
                       silent, withdrawn, overtaken, broken, planned, listed, putting,
                       acts>>
        /\ queue' = queue \cup {e}
    BY <1>3, Zenon DEF Rerun
  <2>3. Aside
    BY <1>0, <1>1, <2>1, <2>2 DEF Aside
  <2>4. QED BY <2>2, <2>3
<1>4. QED BY <1>2, <1>3

\* Every step is one of four kinds.
LEMMA Kinds ==
    ASSUME TypeInv, [Next]_vars
    PROVE  \/ HandlerStep \/ RunnerLost
           \/ \E d \in Decisions : OwnerTicks(d) \/ OwnerLabels(d) \/ OwnerCommands(d)
           \/ /\ Aside
              /\ \/ UNCHANGED job
                 \/ /\ job' \in Job /\ job.stage \notin HandlerStages
                    /\ job'.recovered => job.recovered
                    /\ \/ job'.stage \notin HandlerStages
                       \/ job'.stage = "policy" /\ job'.ev \in 1..made
<1>1. CASE UNCHANGED vars
  <2>1. SameButTail(events) /\ card.comments >= card.comments
    BY RowAddedType DEF TypeInv, TypeOK, Card
  <2>2. QED
    BY <1>1, <2>1 DEF vars, queues, scan, effects, history, labelHistory, bounds,
                      TypeInv, TypeOK, Aside
<1>2. CASE People
  BY <1>2, PeopleAside DEF People
<1>3. CASE ScanLists \/ ScanReads \/ ScanPatches
  BY <1>3, ScanAside
<1>4. CASE \E e \in Events : Start(e) \/ Rerun(e)
  BY <1>4, RunsAside DEF HandlerStages, ScanStages
<1>5. QED BY <1>1, <1>2, <1>3, <1>4 DEF Next

\* A step beside the handler keeps the types when the run it leaves is well typed.
LEMMA AsideType ==
    ASSUME TypeInv, Aside, job' \in Job,
           job'.stage \in HandlerStages => job'.ev \in 1..made
    PROVE  TypeInv'
BY DEF TypeInv, TypeOK, Aside, SameButTail

\* A decision keeps the types.
LEMMA DecidedType ==
    ASSUME TypeInv, NEW by \in {"box", "label", "slash"}, NEW d \in Decisions,
           NEW c \in Card, Rewritten(c), Decided(by, d, c),
           withdrawn' \subseteq 1..made, overtaken' \subseteq 1..made
    PROVE  TypeInv'
<1> USE DEF TypeInv, TypeOK
<1>1. card' \in Card /\ card'.marks = card.marks
  BY TouchedCard DEF Decided, Rewritten
<1>2. made' \in 0..MaxEvents /\ made' = made + 1 /\ 1..made \subseteq 1..made'
      /\ made + 1 \in 1..made'
  BY DEF Decided
<1>3. QED BY <1>1, <1>2 DEF Decided

\* Type correctness: every state that a behaviour reaches is well typed.
THEOREM TypeInvariant == Spec => []TypeInv
<1>1. Init => TypeInv
  <2> SUFFICES ASSUME Init PROVE TypeInv
    OBVIOUS
  <2>1. card \in Card /\ card.marks = {}
    BY DEF Init, Card, States, Revs
  <2>2. target \in Target /\ target.rev = 0
    BY DEF Init, Target, Revs
  <2>3. EmptyEvent \in Event /\ EmptyEvent.tail = "more"
    BY DEF EmptyEvent, Event, Revs, Decisions
  <2>4. job \in Job /\ job.stage = "idle"
    BY NoJobType, Zenon DEF Init
  <2>5. events \in [Events -> Event] /\ \A e \in Events : events[e].tail = "more"
    BY <2>3 DEF Init
  <2>6. posts \in [Events -> Nat] /\ ends \in [Events -> Nat]
    BY DEF Init
  <2>7. /\ made = 0 /\ queue = {} /\ ended = {} /\ planned = 0 /\ listed = FALSE
        /\ putting = {} /\ settled = {} /\ silent = {} /\ withdrawn = {}
        /\ overtaken = {} /\ broken = FALSE /\ acts = 0 /\ trouble = 0
    BY Zenon DEF Init
  <2>8. TypeOK
    <3>1. MaxEvents \in Nat /\ MaxActs \in Nat /\ MaxTrouble \in Nat
      OBVIOUS
    <3>2. /\ made \in 0..MaxEvents /\ planned \in Revs /\ acts \in 0..MaxActs
          /\ trouble \in 0..MaxTrouble
      BY <2>7, <3>1 DEF Revs
    <3>3. /\ queue \subseteq 1..made /\ ended \subseteq 1..made
          /\ listed \in BOOLEAN /\ putting \subseteq Labels
          /\ settled \subseteq 1..made /\ silent \subseteq 1..made
          /\ withdrawn \subseteq 1..made /\ overtaken \subseteq 1..made
          /\ broken \in BOOLEAN
      BY <2>7
    <3>4. QED BY <2>1, <2>2, <2>4, <2>5, <2>6, <3>2, <3>3, Zenon DEF TypeOK
  <2>9. QED
    BY <2>1, <2>2, <2>4, <2>5, <2>7, <2>8 DEF TypeInv, HandlerStages, ScanStages
<1>2. TypeInv /\ [Next]_vars => TypeInv'
  <2> SUFFICES ASSUME TypeInv, [Next]_vars PROVE TypeInv'
    OBVIOUS
  <2>1. CASE HandlerStep \/ RunnerLost
    BY <2>1, HandlerType
  <2>2. CASE \E d \in Decisions : OwnerTicks(d) \/ OwnerLabels(d) \/ OwnerCommands(d)
    BY <2>2, Decisive, DecidedType
  <2>3. CASE /\ Aside
             /\ job' \in Job
             /\ job'.stage \in HandlerStages => job'.ev \in 1..made
    BY <2>3, AsideType
  <2>4. job \in Job /\ (job.stage \in HandlerStages => job.ev \in 1..made)
    BY DEF TypeInv, TypeOK
  <2>5. QED BY <2>1, <2>2, <2>3, <2>4, Kinds
<1>3. QED BY <1>1, <1>2, PTL DEF Spec

-----------------------------------------------------------------------------
(* Who acts, and how often *)

\* Stages of a run that has locked the card, or is about to.
Locked == PastChecks \cup {"lock", "revalidate"}

\* Stages from which a run may still act on the pull request.
Acting == {"lock", "revalidate", "revision", "merge", "put", "note", "policyAgain",
           "shut"}

\* A recovered run has its claim; who merges decided to merge; a run that may
\* still act has no reply behind it, posts for the first time unless it was
\* unlocked without an answer, and has locked the card.
RunInv ==
    /\ job.stage \notin HandlerStages => ~job.recovered
    /\ job.recovered => \E m \in card.marks : m.ev = job.ev
    /\ job.stage \in {"merge", "put"} => events[job.ev].what = "merge"
    /\ job.stage \in Acting => job.ev \notin settled
    /\ job.stage \in {"lock", "revalidate", "revision", "note"} =>
          posts[job.ev] = 0 \/ job.ev \in silent
    /\ job.stage \in {"revalidate", "revision", "note"} => "processing" \in card.states

\* A reply and a claim each add a comment to those that the event counted.
Replied(e) == IF e \in settled THEN 1 ELSE 0
Claimed(e) == IF \E m \in card.marks : m.ev = e THEN 1 ELSE 0
CommentInv ==
    \A e \in 1..made :
        card.comments >= events[e].comments + Replied(e) + Claimed(e)

\* An event that posted, and was not unlocked unanswered, has a reply or the lock
\* of its run is on the card.
PostInv ==
    \A e \in Events : posts[e] > 0 /\ e \notin silent =>
        /\ posts[e] = 1
        /\ \/ e \in settled
           \/ "processing" \in card.states /\ (job.stage \in Locked => job.ev = e)

\* The pull request is closed by the first close or merge that counts.
EndInv ==
    /\ (\E e \in Events : ends[e] # 0) => ~target.open
    /\ MergesTheDecidedRevision

SafeInv == RunInv /\ CommentInv /\ PostInv /\ EndInv

\* A run that is over, and one that has not reached the card's last check, keep
\* nothing of a run that acts.
LEMMA IdleRun ==
    ASSUME job'.stage \notin Acting,
           job'.recovered => /\ job'.stage \in HandlerStages
                             /\ \E m \in card'.marks : m.ev = job'.ev
    PROVE  RunInv'
BY DEF RunInv, Acting

\* The last check of a card lets a run through whose decision has no reply yet
\* (the workflow compares the counts of comments).
LEMMA CurrentIsUnsettled ==
    ASSUME TypeInv, SafeInv, job.stage = "current", CardIsCurrent
    PROVE  /\ job.ev \notin settled /\ "processing" \notin card.states
           /\ posts[job.ev] = 0 \/ job.ev \in silent
<1>1. job.ev \in 1..made /\ job.ev \in Events
  BY DEF TypeInv, TypeOK, HandlerStages, ScanStages, Stages, Events
<1>2. card.comments >= Decision.comments + Replied(job.ev) + Claimed(job.ev)
  BY <1>1 DEF SafeInv, CommentInv, Decision
<1>3. card.comments = Decision.comments + (IF job.recovered THEN 1 ELSE 0)
  BY DEF CardIsCurrent, CommentsStand
<1>4. job.recovered => Claimed(job.ev) = 1
  BY DEF SafeInv, RunInv, Claimed
<1>5. card.comments \in Nat /\ Decision.comments \in Nat
  BY <1>1 DEF TypeInv, TypeOK, Card, Event, Decision
<1>6. job.ev \notin settled
  BY <1>2, <1>3, <1>4, <1>5 DEF Replied, Claimed
<1>7. "processing" \notin card.states
  BY DEF CardIsCurrent, Refreshable
<1>8. posts[job.ev] \in Nat
  BY <1>1 DEF TypeInv, TypeOK
<1>9. QED BY <1>1, <1>6, <1>7, <1>8 DEF SafeInv, PostInv

\* A step of the handler keeps what a run that may act has behind it.
LEMMA HandlerRun ==
    ASSUME TypeInv, TypeInv', SafeInv, HandlerStep \/ RunnerLost
    PROVE  RunInv'
<1> USE DEF At, Looks
<1>0. /\ job \in Job /\ job.stage \in HandlerStages
      /\ UNCHANGED <<events, made>> /\ trouble \in Nat
  BY JobStep, HandlerFrame DEF TypeInv, TypeOK
<1>1. CASE Over
  BY <1>1, NoJobType, IdleRun DEF Over, Acting
<1>a. /\ job.recovered => \E m \in card.marks : m.ev = job.ev
      /\ job.stage \in {"merge", "put"} => events[job.ev].what = "merge"
      /\ job.stage \in Acting => job.ev \notin settled
      /\ job.stage \in {"lock", "revalidate", "revision", "note"} =>
             posts[job.ev] = 0 \/ job.ev \in silent
      /\ job.stage \in {"revalidate", "revision", "note"} => "processing" \in card.states
  BY DEF SafeInv, RunInv
<1> USE DEF Keeps, HandlerStages, ScanStages, Stages
<1>2. CASE SourcePolicy
  <2>1. /\ job'.stage = "admit" /\ job'.ev = job.ev
        /\ job'.recovered = job.recovered /\ UNCHANGED card
    <3>1. PICK ok \in BOOLEAN :
            job' = [job EXCEPT !.stage = "admit",
                               !.admitted = ok /\ target.rev = Decision.rev]
      BY <1>2 DEF SourcePolicy
    <3>2. UNCHANGED card
      BY <1>2 DEF SourcePolicy
    <3>3. QED BY <1>0, <3>1, <3>2 DEF Job
  <2>2. QED BY <1>a, <2>1, IdleRun DEF Acting
<1>3. CASE Admit
  <2>1. UNCHANGED card
    BY <1>3 DEF Admit
  <2>2. CASE job' = [job EXCEPT !.stage = "claim", !.read = card.boxes]
    <3>1. job'.stage = "claim" /\ job'.ev = job.ev /\ job'.recovered = job.recovered
      BY <1>0, <2>2 DEF Job
    <3>2. QED BY <1>a, <2>1, <3>1, IdleRun DEF Acting
  <2>3. CASE AfterRecovery(FALSE)
    BY <1>0, <1>1, <2>3, RecoveryGoes, IdleRun DEF Acting
  <2>4. CASE EndRun
    BY <1>1, <2>4 DEF EndRun, Over
  <2>5. QED BY <1>3, <2>2, <2>3, <2>4 DEF Admit
<1>4. CASE Claim
  <2>1. \/ job'.stage = "verify" /\ job'.ev = job.ev /\ job'.recovered = job.recovered
        \/ Over
    BY <1>0, <1>4, Goes DEF Claim, EndRun, Over
  <2>2. card.marks \subseteq card'.marks
    <3>1. job.stage = "claim"
      BY <1>4 DEF Claim
    <3>2. QED
      BY <1>4, <3>1, CardStep
         DEF CardComments, Reply, Lock, Clear, Resolve, Block, Drop, Close
  <2>3. QED BY <1>1, <1>a, <2>1, <2>2, IdleRun DEF Acting
<1>5. CASE Verify
  <2>1. UNCHANGED card
    BY <1>5 DEF Verify
  <2>2. (AdmissionAsRead({}) /\ Mark(job.read) \in card.marks) \in BOOLEAN
    OBVIOUS
  <2>3. \/ /\ job'.stage = "current" /\ job'.ev = job.ev
           /\ job'.recovered => Mark(job.read) \in card.marks
        \/ Over
    BY <1>0, <1>5, <2>2, RecoveryGoes DEF Verify, EndRun, Over
  <2>4. QED BY <1>1, <2>1, <2>3, IdleRun DEF Acting, Mark
<1>6. CASE CurrentCard
  <2>1. \/ /\ CardIsCurrent /\ job.stage = "current" /\ job'.stage = "lock"
           /\ job'.ev = job.ev /\ job'.recovered = job.recovered
        \/ Over
    BY <1>0, <1>6, Goes DEF CurrentCard, EndRun, Over
  <2>2. UNCHANGED <<card, posts, settled, silent>>
    BY <1>6 DEF CurrentCard, effects
  <2>3. QED BY <1>0, <1>1, <1>a, <2>1, <2>2, CurrentIsUnsettled DEF RunInv, Acting
<1>7. CASE Lock
  <2>1. /\ job'.ev = job.ev /\ job'.recovered = job.recovered /\ job.stage = "lock"
        /\ \/ job'.stage = "clear"
           \/ job'.stage \in {"revalidate", "revision"} /\ Works
    BY <1>0, <1>7, Goes DEF Lock, Unlocks
  <2>2. UNCHANGED <<posts, settled, silent>>
    BY <1>7 DEF Lock, effects
  <2>3. \/ card' = card /\ Fault
        \/ CardStates(card.states \cup {"processing"})
    <3>1. card \in Card /\ (card.states \cup {"processing"}) \in SUBSET States
      BY DEF TypeInv, TypeOK, Card, States
    <3>2. QED BY <1>7, <3>1, SetStates DEF Lock
  <2>4. ~(Works /\ Fault)
    BY <1>0 DEF Works, Fault, Trouble
  <2>5. job'.stage # "clear" => "processing" \in card'.states
    BY <2>1, <2>3, <2>4 DEF CardStates
  <2>6. card'.marks = card.marks
    BY <2>3 DEF CardStates
  <2>7. QED BY <1>0, <1>a, <2>1, <2>2, <2>5, <2>6 DEF RunInv, Acting
<1>8. CASE Revalidate
  <2>1. /\ job'.ev = job.ev /\ job'.recovered = job.recovered
        /\ job.stage = "revalidate" /\ job'.stage \in {"clear", "revision"}
    BY <1>0, <1>8, Goes DEF Revalidate, Unlocks
  <2>2. UNCHANGED <<card, posts, settled, silent>>
    BY <1>8 DEF Revalidate, effects
  <2>3. QED BY <1>0, <1>a, <2>1, <2>2 DEF RunInv, Acting
<1>9. CASE Revision
  <2>1. /\ job'.ev = job.ev /\ job'.recovered = job.recovered
        /\ job.stage = "revision"
        /\ \/ job'.stage \in {"reply", "shut", "note"}
           \/ job'.stage = "merge" /\ Decision.what = "merge"
    BY <1>0, <1>9, Goes, EndsGoes DEF Revision, FirstStep, Terminals
  <2>2. UNCHANGED <<card, posts, settled, silent>>
    BY <1>9 DEF Revision, effects
  <2>3. QED BY <1>0, <1>a, <2>1, <2>2 DEF RunInv, Acting, Decision
<1>10. CASE MergeGates
  <2>1. /\ job'.ev = job.ev /\ job'.recovered = job.recovered
        /\ job.stage = "merge" /\ job'.stage \in {"reply", "put", "clear"}
    BY <1>0, <1>10, Goes, EndsGoes DEF MergeGates, MergeHeld, Raises, Terminals
  <2>2. UNCHANGED <<card, posts, settled, silent>>
    BY <1>10 DEF MergeGates, effects
  <2>3. QED BY <1>0, <1>a, <2>1, <2>2 DEF RunInv, Acting
<1>11. CASE MergePut \/ Shut
  <2>1. /\ job'.stage = "reply" /\ job'.ev = job.ev /\ job'.recovered = job.recovered
        /\ UNCHANGED card
    BY <1>0, <1>11, EndsGoes DEF MergePut, Shut, Terminals
  <2>2. QED BY <1>a, <2>1, IdleRun DEF Acting
<1>12. CASE Note
  <2>1. /\ job'.ev = job.ev /\ job'.recovered = job.recovered
        /\ job'.stage \in {"reply", "clear", "policyAgain"} /\ job.stage = "note"
    <3>1. CASE job' = [job EXCEPT !.stage = "reply", !.terminal = "none",
                                  !.posted = TRUE]
      BY <1>0, <1>12, <3>1 DEF Job, Note
    <3>2. CASE job' = [job EXCEPT !.stage = "policyAgain", !.posted = TRUE]
      BY <1>0, <1>12, <3>2 DEF Job, Note
    <3>3. CASE Ends("error") \/ GoTo("clear")
      BY <1>0, <1>12, <3>3, Goes, EndsGoes DEF Note, Terminals
    <3>4. QED BY <1>12, <3>1, <3>2, <3>3, Zenon DEF Note, Raises
  <2>2. UNCHANGED <<card, settled, silent>>
    BY <1>12 DEF Note
  <2>3. QED BY <1>0, <1>a, <2>1, <2>2 DEF RunInv, Acting
<1>13. CASE PolicyAgain
  <2>1. /\ job'.ev = job.ev /\ job'.recovered = job.recovered
        /\ job.stage = "policyAgain" /\ job'.stage \in {"reply", "shut"}
    BY <1>0, <1>13, Goes, EndsGoes DEF PolicyAgain, Terminals
  <2>2. UNCHANGED <<card, posts, settled, silent>>
    BY <1>13 DEF PolicyAgain, effects
  <2>3. QED BY <1>0, <1>a, <2>1, <2>2 DEF RunInv, Acting
<1>14. CASE Reply \/ Clear \/ Resolve \/ Block \/ Drop \/ Close
  <2>1. \/ /\ job'.stage \in {"clear", "resolve", "block", "drop", "close"}
           /\ job'.ev = job.ev /\ job'.recovered = job.recovered
        \/ Over
    BY <1>0, <1>14, Goes DEF Reply, Clear, AfterClear, Resolve, Block, Drop, Close, EndRun, Over
  <2>2. card.marks \subseteq card'.marks
    BY CardStep DEF CardComments, CardStates, CardCloses
  <2>3. QED BY <1>1, <1>a, <2>1, <2>2, IdleRun DEF Acting
<1>15. CASE RunnerLost
  BY <1>1, <1>15 DEF RunnerLost, EndRun, Over
<1>16. QED
  BY <1>2, <1>3, <1>4, <1>5, <1>6, <1>7, <1>8, <1>9, <1>10, <1>11, <1>12, <1>13, <1>14,
     <1>15 DEF HandlerStep

\* The run under way is of a decision that was made, and stays so until it is over.
LEMMA RunFacts ==
    ASSUME TypeInv, HandlerStep \/ RunnerLost
    PROVE  /\ UNCHANGED <<events, made>> /\ job.stage \in HandlerStages
           /\ job.ev \in 1..made /\ job.ev \in Events /\ 1..made \subseteq Events
           /\ job'.ev = job.ev \/ job' = NoJob
<1>1. TypeOK /\ made \in 0..MaxEvents
      /\ (job.stage \in HandlerStages => job.ev \in 1..made)
  BY DEF TypeInv, TypeOK
<1>2. UNCHANGED <<events, made>>
  BY <1>1, HandlerFrame
<1>3. job.stage \in HandlerStages /\ (job'.ev = job.ev \/ job' = NoJob)
  BY <1>1, JobStep DEF Over
<1>4. QED BY <1>1, <1>2, <1>3 DEF Events

\* A run gets past the last check of the card only while the card stands.
LEMMA LockedStep ==
    ASSUME TypeInv, HandlerStep \/ RunnerLost, job'.stage \in Locked
    PROVE  \/ job.stage \in Locked /\ job'.ev = job.ev
           \/ /\ job.stage = "current" /\ job'.stage = "lock" /\ CurrentCard
              /\ CardIsCurrent /\ UNCHANGED card
              /\ job'.ev = job.ev /\ job'.recovered = job.recovered
<1>1. job'.ev = job.ev /\ job.stage \in HandlerStages
  BY RunFacts, NoJobType DEF Locked, PastChecks
<1>2. job \in Job /\ job' # NoJob
  BY NoJobType DEF TypeInv, TypeOK, Locked, PastChecks
<1>3. SUFFICES ASSUME job.stage \notin Locked
               PROVE  CurrentCard /\ CardIsCurrent /\ job'.stage = "lock"
                      /\ job.stage = "current" /\ UNCHANGED card
                      /\ job'.recovered = job.recovered
  BY <1>1
<1>4. job.stage \in {"policy", "admit", "claim", "verify", "current"}
  BY <1>1, <1>3 DEF Locked, PastChecks, HandlerStages, ScanStages, Stages
<1>5. CASE SourcePolicy
  <2>1. PICK ok \in BOOLEAN :
          job' = [job EXCEPT !.stage = "admit",
                             !.admitted = ok /\ target.rev = Decision.rev]
    BY <1>5 DEF SourcePolicy
  <2>2. job'.stage = "admit"
    BY <1>2, <2>1 DEF Job
  <2>3. QED BY <2>2 DEF Locked, PastChecks
<1>6. CASE Admit
  <2>1. \/ job' = [job EXCEPT !.stage = "claim", !.read = card.boxes]
        \/ AfterRecovery(FALSE) \/ EndRun
    BY <1>6 DEF Admit
  <2>2. CASE job' = [job EXCEPT !.stage = "claim", !.read = card.boxes]
    BY <1>2, <2>2 DEF Job, Locked, PastChecks
  <2>3. CASE AfterRecovery(FALSE)
    BY <1>2, <2>3, RecoveryGoes DEF Over, Locked, PastChecks
  <2>4. QED BY <1>2, <2>1, <2>2, <2>3 DEF EndRun
<1>7. CASE Claim
  BY <1>2, <1>7, Goes DEF Claim, EndRun, Locked, PastChecks, Stages
<1>8. CASE Verify
  <2>1. (AdmissionAsRead({}) /\ Mark(job.read) \in card.marks) \in BOOLEAN
    OBVIOUS
  <2>2. QED
    BY <1>2, <1>8, <2>1, RecoveryGoes DEF Verify, EndRun, Over, Locked, PastChecks
<1>9. CASE CurrentCard
  BY <1>2, <1>9, Goes DEF CurrentCard, EndRun, Looks, At, Keeps, Stages
<1>10. QED
  BY <1>2, <1>4, <1>5, <1>6, <1>7, <1>8, <1>9
     DEF HandlerStep, RunnerLost, EndRun, Lock, Revalidate, Revision, MergeGates, MergePut,
         Note, PolicyAgain, Shut, Reply, Clear, Resolve, Block, Drop, Close, At

\* A step of the handler adds no comment less than a reply or a claim needs.
LEMMA HandlerComments ==
    ASSUME TypeInv, SafeInv, HandlerStep \/ RunnerLost
    PROVE  CommentInv'
<1>1. /\ UNCHANGED <<events, made>> /\ job.ev \in 1..made
      /\ \A e \in 1..made : /\ e \in Events /\ events[e].comments \in Nat
                            /\ card.comments >= events[e].comments + Replied(e) + Claimed(e)
      /\ card.comments \in Nat
  <2>1. events \in [Events -> Event] /\ card.comments \in Nat
    BY DEF TypeInv, TypeOK, Card
  <2>2. \A e \in Events : events[e].comments \in Nat
    BY <2>1 DEF Event
  <2>3. QED BY <2>1, <2>2, RunFacts DEF SafeInv, CommentInv
<1>2. ASSUME NEW e \in 1..made
      PROVE  card'.comments >= events[e].comments + Replied(e)' + Claimed(e)'
  <2>1. \/ /\ card'.comments = card.comments /\ card'.marks = card.marks
           /\ settled' = settled
        \/ /\ card'.comments = card.comments + 1 /\ settled' = settled
           /\ card'.marks = card.marks \cup {Mark(job.read)}
        \/ card'.comments = card.comments + 1 /\ card'.marks = card.marks
    <3>1. \/ card'.comments = card.comments /\ card'.marks = card.marks
          \/ card'.comments = card.comments + 1 /\ card'.marks = card.marks
          \/ /\ Claim /\ card'.comments = card.comments + 1
             /\ card'.marks = card.marks \cup {Mark(job.read)}
      BY CardStep DEF CardComments, CardStates, CardCloses
    <3>2. \/ settled' = settled
          \/ card'.comments = card.comments + 1 /\ card'.marks = card.marks
      BY EffectStep DEF CardComments
    <3>3. Claim => settled' = settled
      BY DEF Claim
    <3>4. QED BY <3>1, <3>2, <3>3
  <2>2. CASE card'.comments = card.comments /\ card'.marks = card.marks /\ settled' = settled
    BY <1>1, <2>2 DEF Replied, Claimed
  <2>3. CASE card'.comments = card.comments + 1 /\ settled' = settled
    <3>1. Replied(e)' = Replied(e) /\ Claimed(e)' \in {0, 1} /\ Claimed(e) \in {0, 1}
          /\ Replied(e) \in {0, 1}
      BY <2>3 DEF Replied, Claimed
    <3>2. Claimed(e)' <= Claimed(e) + 1
      BY <3>1
    <3>3. QED BY <1>1, <2>3, <3>1, <3>2
  <2>4. CASE card'.comments = card.comments + 1 /\ card'.marks = card.marks
    <3>1. Claimed(e)' = Claimed(e) /\ Replied(e)' \in {0, 1} /\ Claimed(e) \in {0, 1}
          /\ Replied(e) \in {0, 1}
      BY <2>4 DEF Replied, Claimed
    <3>2. Replied(e)' <= Replied(e) + 1
      BY <3>1
    <3>3. QED BY <1>1, <2>4, <3>1, <3>2
  <2>5. QED BY <2>1, <2>2, <2>3, <2>4
<1>3. QED BY <1>1, <1>2 DEF CommentInv

\* A step of the handler leaves a reply, the lock or an unlocked card without an
\* answer behind a post.
LEMMA HandlerPosts ==
    ASSUME TypeInv, TypeInv', SafeInv, RunInv', HandlerStep \/ RunnerLost
    PROVE  PostInv'
<1>1. /\ job.ev \in Events /\ job.stage \in HandlerStages
      /\ \A e \in Events : posts[e] \in Nat
  BY RunFacts DEF TypeInv, TypeOK
<1>2. \/ job'.ev = job.ev
      \/ job'.stage \notin Locked
  BY RunFacts, NoJobType DEF Locked, PastChecks
<1>3. job'.stage \in Locked => job.stage \in Locked \/ "processing" \notin card.states
  BY LockedStep DEF CardIsCurrent, Refreshable
<1>4. \/ /\ "processing" \in card.states => "processing" \in card'.states
         /\ silent \subseteq silent'
      \/ /\ job.stage = "clear"
         /\ silent' = IF job.ev \notin settled THEN silent \cup {job.ev} ELSE silent
  <2>1. \/ "processing" \in card.states => "processing" \in card'.states
        \/ Clear /\ CardStates(card.states \ {"processing"}) /\ card' # card
    BY CardStep DEF CardComments, CardStates, CardCloses
  <2>2. QED BY <2>1, EffectStep DEF Clear, At
<1>5. settled \subseteq settled' /\ silent \subseteq silent'
  BY EffectStep
<1>6. \/ UNCHANGED posts
      \/ /\ job.stage = "note" /\ posts' = [posts EXCEPT ![job.ev] = @ + 1]
         /\ UNCHANGED card
  BY EffectStep DEF Note, At
<1>7. ASSUME NEW e \in Events, posts'[e] > 0, e \notin silent'
      PROVE  /\ posts'[e] = 1
             /\ \/ e \in settled'
                \/ /\ "processing" \in card'.states
                   /\ job'.stage \in Locked => job'.ev = e
  <2>1. CASE posts'[e] = posts[e]
    <3>1. /\ posts[e] = 1
          /\ \/ e \in settled
             \/ "processing" \in card.states /\ (job.stage \in Locked => job.ev = e)
      BY <1>5, <1>7, <2>1 DEF SafeInv, PostInv
    <3>2. CASE e \in settled
      BY <1>5, <2>1, <3>1, <3>2
    <3>3. CASE /\ e \notin settled
               /\ "processing" \in card.states /\ (job.stage \in Locked => job.ev = e)
      <4>1. ~(job.stage = "clear")
                \/ ("processing" \in card'.states)
        BY <1>4, <1>7, <3>3 DEF Locked, PastChecks
      <4>2. "processing" \in card'.states
        BY <1>4, <1>7, <3>3, <4>1 DEF Locked, PastChecks
      <4>3. job'.stage \in Locked => job'.ev = e
        BY <1>2, <1>3, <3>3
      <4>4. QED BY <2>1, <3>1, <4>2, <4>3
    <3>4. QED BY <3>1, <3>2, <3>3
  <2>2. CASE posts'[e] # posts[e]
    <3>1. /\ job.stage = "note" /\ e = job.ev /\ posts'[e] = posts[e] + 1
          /\ UNCHANGED card
      BY <1>1, <1>6, <2>2 DEF TypeInv, TypeOK
    <3>2. posts[e] = 0 /\ "processing" \in card.states
      BY <1>5, <1>7, <3>1 DEF SafeInv, RunInv
    <3>3. QED BY <1>2, <3>1, <3>2
  <2>3. QED BY <2>1, <2>2
<1>8. QED BY <1>7 DEF PostInv

\* What counts as a close or merge of a decision is the first one, and a merge is of
\* the revision that was decided on.
LEMMA HandlerEnds ==
    ASSUME TypeInv, SafeInv, HandlerStep \/ RunnerLost
    PROVE  EndInv'
<1>1. /\ UNCHANGED <<events, made>> /\ job.ev \in 1..made /\ job.ev \in Events
      /\ \A e \in Events : ends[e] \in Nat
      /\ ends \in [Events -> Nat] /\ target \in Target
  BY RunFacts DEF TypeInv, TypeOK
<1>2. CASE UNCHANGED <<target, ends>>
  BY <1>1, <1>2 DEF SafeInv, EndInv, MergesTheDecidedRevision
<1>3. CASE /\ target' = [target EXCEPT !.open = FALSE]
           /\ ends' = [ends EXCEPT ![job.ev] = @ + (IF target.open THEN 1 ELSE 0)]
  <2>1. ~target'.open /\ target'.merged = target.merged
    BY <1>1, <1>3 DEF Target
  <2>2. CASE target.open
    <3>1. \A e \in Events : ends[e] = 0
      BY <2>2 DEF SafeInv, EndInv
    <3>2. target.merged = -1
      BY <1>1, <3>1 DEF SafeInv, EndInv, MergesTheDecidedRevision, TypeInv, TypeOK, Events
    <3>3. QED BY <2>1, <3>2 DEF EndInv, MergesTheDecidedRevision
  <2>3. CASE ~target.open
    <3>1. ends' = ends
      BY <1>1, <1>3, <2>3
    <3>2. QED BY <1>1, <2>1, <3>1 DEF SafeInv, EndInv, MergesTheDecidedRevision
  <2>4. QED BY <2>2, <2>3
<1>4. CASE /\ MergePut /\ MergeAccepted /\ target' = Merged
           /\ ends' = [ends EXCEPT ![job.ev] = @ + 1]
  <2>1. ~target'.open /\ target'.merged = target.rev
    BY <1>1, <1>4 DEF Target, Merged
  <2>2. target.rev = events[job.ev].rev /\ target.open
    BY <1>4 DEF MergeAccepted, Moved, Decision
  <2>3. events[job.ev].what = "merge"
    BY <1>4 DEF MergePut, At, SafeInv, RunInv
  <2>4. ends[job.ev] = 0
    BY <1>1, <2>2 DEF SafeInv, EndInv
  <2>5. ends'[job.ev] = 1
    BY <1>1, <1>4, <2>4
  <2>6. QED BY <1>1, <2>1, <2>2, <2>3, <2>5 DEF EndInv, MergesTheDecidedRevision
<1>5. QED BY <1>2, <1>3, <1>4, EffectStep

\* A step of somebody else, or one that ends or starts a run, keeps all of it.
LEMMA AsideSafe ==
    ASSUME TypeInv, SafeInv, Aside,
           \/ UNCHANGED job
           \/ /\ job.stage \notin HandlerStages
              /\ job'.recovered => job.recovered
              /\ \/ job'.stage \notin HandlerStages
                 \/ job'.stage = "policy" /\ job'.ev \in 1..made
    PROVE  SafeInv'
<1>0. /\ UNCHANGED <<made, posts, ends, settled, silent>>
      /\ card'.states = card.states /\ card'.marks = card.marks
      /\ card'.comments >= card.comments /\ target'.merged = target.merged
      /\ (~target.open => ~target'.open)
      /\ \A e \in Events : /\ events'[e].what = events[e].what
                           /\ events'[e].rev = events[e].rev
                           /\ events'[e].comments = events[e].comments
                           /\ events[e].comments \in Nat
      /\ card.comments \in Nat /\ card'.comments \in Nat
      /\ job.stage \in HandlerStages => job.ev \in Events
      /\ 1..made \subseteq Events
  <2>1. events \in [Events -> Event] /\ card \in Card /\ made \in 0..MaxEvents
        /\ (job.stage \in HandlerStages => job.ev \in 1..made)
    BY DEF TypeInv, TypeOK
  <2>2. \A e \in Events : events[e].comments \in Nat
    BY <2>1 DEF Event
  <2>3. card.comments \in Nat /\ card'.comments \in Nat
    BY <2>1 DEF Aside, Card
  <2>4. /\ UNCHANGED <<made, posts, ends, settled, silent>>
        /\ card'.states = card.states /\ card'.marks = card.marks
        /\ card'.comments >= card.comments /\ target'.merged = target.merged
        /\ (~target.open => ~target'.open)
    BY DEF Aside
  <2>5. \A e \in Events : /\ events'[e].what = events[e].what
                         /\ events'[e].rev = events[e].rev
                         /\ events'[e].comments = events[e].comments
    BY DEF Aside, SameButTail
  <2>6. 1..made \subseteq Events
    BY <2>1 DEF Events
  <2>7. QED BY <2>1, <2>2, <2>3, <2>4, <2>5, <2>6
<1>1. RunInv'
  <2>1. CASE UNCHANGED job
    BY <1>0, <2>1 DEF SafeInv, RunInv, Acting, HandlerStages, ScanStages, Stages
  <2>2. CASE ~UNCHANGED job
    BY <2>2, IdleRun DEF Acting, SafeInv, RunInv, HandlerStages, ScanStages, Stages
  <2>3. QED BY <2>1, <2>2
<1>2. CommentInv'
  <2>1. ASSUME NEW e \in 1..made
        PROVE  card'.comments >= events'[e].comments + Replied(e)' + Claimed(e)'
    <3>1. card.comments >= events[e].comments + Replied(e) + Claimed(e)
      BY DEF SafeInv, CommentInv
    <3>2. Replied(e)' = Replied(e) /\ Claimed(e)' = Claimed(e)
          /\ Replied(e) \in {0, 1} /\ Claimed(e) \in {0, 1} /\ e \in Events
      BY <1>0 DEF Replied, Claimed
    <3>3. /\ events'[e].comments = events[e].comments
          /\ events[e].comments \in Nat /\ card'.comments >= card.comments
          /\ card.comments \in Nat /\ card'.comments \in Nat
      BY <1>0
    <3>4. QED BY <3>1, <3>2, <3>3
  <2>2. QED BY <1>0, <2>1 DEF CommentInv
<1>3. PostInv'
  <2>1. job'.stage \in Locked => job.stage \in Locked /\ job'.ev = job.ev
    BY DEF Locked, PastChecks, HandlerStages, ScanStages, Stages
  <2>2. QED BY <1>0, <2>1 DEF SafeInv, PostInv
<1>4. EndInv'
  BY <1>0 DEF SafeInv, EndInv, MergesTheDecidedRevision
<1>5. QED BY <1>1, <1>2, <1>3, <1>4 DEF SafeInv

\* A new decision has no reply, no claim and no post (Decide).
LEMMA DecidedSafe ==
    ASSUME TypeInv, SafeInv, NEW by \in {"box", "label", "slash"}, NEW d \in Decisions,
           NEW c \in Card, Rewritten(c), Decided(by, d, c)
    PROVE  SafeInv'
<1>0. /\ UNCHANGED <<job, posts, ends, settled, silent, target>>
      /\ card'.states = card.states /\ card'.marks = card.marks
      /\ card'.comments = c.comments /\ c.comments >= card.comments
      /\ made' = made + 1 /\ made \in Nat /\ made + 1 \in Events
      /\ events'[made + 1].comments = c.comments
      /\ \A e \in 1..made : /\ events'[e].what = events[e].what
                            /\ events'[e].rev = events[e].rev
                            /\ events'[e].comments = events[e].comments
                            /\ events[e].comments \in Nat
      /\ card.comments \in Nat /\ c.comments \in Nat
      /\ job.stage \in HandlerStages => job.ev \in 1..made
      /\ settled \subseteq 1..made /\ \A m \in card.marks : m.ev \in 1..made
  <2>1. events \in [Events -> Event] /\ card \in Card /\ made \in 0..MaxEvents
        /\ (job.stage \in HandlerStages => job.ev \in 1..made)
        /\ settled \subseteq 1..made /\ \A m \in card.marks : m.ev \in 1..made
    BY DEF TypeInv, TypeOK
  <2>2. \A e \in 1..made : e \in Events /\ events[e].comments \in Nat
    BY <2>1 DEF Event, Events
  <2>3. card' = Touched(c) /\ events'[made + 1].comments = c.comments
    BY DEF Decided, Made
  <2>4. /\ card'.states = card.states /\ card'.marks = card.marks
        /\ card'.comments = c.comments /\ c.comments >= card.comments
    BY <2>3, TouchedCard DEF Rewritten
  <2>5. card.comments \in Nat /\ c.comments \in Nat
    BY <2>1 DEF Card
  <2>6. QED BY <2>1, <2>2, <2>3, <2>4, <2>5 DEF Decided
<1>1. RunInv'
  BY <1>0 DEF SafeInv, RunInv, Acting, HandlerStages, ScanStages, Stages
<1>2. CommentInv'
  <2>1. ASSUME NEW e \in 1..made
        PROVE  card'.comments >= events'[e].comments + Replied(e)' + Claimed(e)'
    <3>1. card.comments >= events[e].comments + Replied(e) + Claimed(e)
      BY DEF SafeInv, CommentInv
    <3>2. Replied(e)' = Replied(e) /\ Claimed(e)' = Claimed(e)
          /\ Replied(e) \in {0, 1} /\ Claimed(e) \in {0, 1}
      BY <1>0 DEF Replied, Claimed
    <3>3. /\ events'[e].comments = events[e].comments
          /\ events[e].comments \in Nat /\ card'.comments >= card.comments
          /\ card.comments \in Nat /\ card'.comments \in Nat
      BY <1>0
    <3>4. QED BY <3>1, <3>2, <3>3
  <2>2. ASSUME NEW e \in 1..made', e \notin 1..made
        PROVE  card'.comments >= events'[e].comments + Replied(e)' + Claimed(e)'
    <3>1. e = made + 1
      BY <1>0, <2>2
    <3>2. Replied(e)' = 0 /\ Claimed(e)' = 0
      BY <1>0, <2>2 DEF Replied, Claimed
    <3>3. events'[e].comments = c.comments /\ card'.comments = c.comments
          /\ c.comments \in Nat
      BY <1>0, <3>1
    <3>4. QED BY <3>2, <3>3
  <2>3. QED BY <2>1, <2>2 DEF CommentInv
<1>3. PostInv'
  BY <1>0 DEF SafeInv, PostInv
<1>4. EndInv'
  BY <1>0 DEF SafeInv, EndInv, MergesTheDecidedRevision
<1>5. QED BY <1>1, <1>2, <1>3, <1>4 DEF SafeInv

\* Every behaviour of the handler, scans and people keeps it.
THEOREM SafeInvariant == Spec => []SafeInv
<1>1. Init => SafeInv
  <2> SUFFICES ASSUME Init PROVE SafeInv
    OBVIOUS
  <2>1. /\ job.stage = "idle" /\ ~job.recovered /\ made = 0 /\ target.merged = -1
        /\ \A e \in Events : posts[e] = 0 /\ ends[e] = 0
    BY NoJobType DEF Init
  <2>2. QED
    BY <2>1 DEF SafeInv, RunInv, CommentInv, PostInv, EndInv, MergesTheDecidedRevision,
                Acting
<1>2. TypeInv /\ TypeInv' /\ SafeInv /\ [Next]_vars => SafeInv'
  <2> SUFFICES ASSUME TypeInv, TypeInv', SafeInv, [Next]_vars PROVE SafeInv'
    OBVIOUS
  <2>1. CASE HandlerStep \/ RunnerLost
    BY <2>1, HandlerRun, HandlerComments, HandlerPosts, HandlerEnds DEF SafeInv
  <2>2. CASE \E d \in Decisions : OwnerTicks(d) \/ OwnerLabels(d) \/ OwnerCommands(d)
    BY <2>2, Decisive, DecidedSafe
  <2>3. QED BY <2>1, <2>2, Kinds, AsideSafe
<1>3. QED BY <1>1, <1>2, TypeInvariant, PTL DEF Spec

\* The states of card, pull request, events and run are what their names say
\* (decision-handler.yml, apply_decision.py).
THEOREM HandlerTypeCorrect == Spec => []TypeOK
<1>1. TypeInv => TypeOK
  BY DEF TypeInv
<1>2. QED BY <1>1, TypeInvariant, PTL

\* A decision posts on the pull request once, unless a run of it that lost its
\* answer unlocked the card and was started again (apply_decision.do_comment).
THEOREM DecisionPostsOnce == Spec => []PostsOnce
<1>1. TypeInv /\ SafeInv => PostsOnce
  BY DEF SafeInv, PostInv, PostsOnce, TypeInv, TypeOK
<1>2. QED BY <1>1, TypeInvariant, SafeInvariant, PTL

\* What the handler merges is the revision that the card showed to the owner who
\* decided to merge it (apply_decision.do_merge).
THEOREM MergedAsDecided == Spec => []MergesTheDecidedRevision
<1>1. SafeInv => MergesTheDecidedRevision
  BY DEF SafeInv, EndInv
<1>2. QED BY <1>1, SafeInvariant, PTL

\* A decision made before a reply appeared on the card never acts on the pull
\* request after it (decision-handler.yml, the comparison of comment counts).
THEOREM SettledIsOver == Spec => SettledNeverActs
<1>1. TypeInv /\ SafeInv /\ [Next]_vars
         => [\A e \in settled : Acts(e)' = Acts(e)]_vars
  <2> SUFFICES ASSUME TypeInv, SafeInv, [Next]_vars
               PROVE  \A e \in settled : Acts(e)' = Acts(e)
    OBVIOUS
  <2>1. CASE HandlerStep \/ RunnerLost
    <3>1. \/ UNCHANGED <<posts, ends>>
          \/ /\ job.stage \in Acting
             /\ \A e \in Events \ {job.ev} : posts'[e] = posts[e] /\ ends'[e] = ends[e]
      <4>1. job.ev \in Events /\ posts \in [Events -> Nat] /\ ends \in [Events -> Nat]
        BY <2>1, RunFacts DEF TypeInv, TypeOK
      <4>2. QED BY <2>1, <4>1, EffectStep DEF Note, Shut, MergePut, At, Acting
    <3>2. settled \subseteq Events
      BY DEF TypeInv, TypeOK, Events
    <3>3. job.stage \in Acting => job.ev \notin settled
      BY DEF SafeInv, RunInv
    <3>4. QED BY <3>1, <3>2, <3>3 DEF Acts
  <2>2. CASE UNCHANGED <<posts, ends>>
    BY <2>2 DEF Acts
  <2>3. QED BY <2>1, <2>2, Kinds, Decisive DEF Aside, Decided
<1>2. QED BY <1>1, TypeInvariant, SafeInvariant, PTL DEF Spec, SettledNeverActs

-----------------------------------------------------------------------------
(* How the card tells the outcome *)

\* What the states of the card are as the run goes on, unless a call after the
\* execution failed.
StateInv ==
    /\ job.stage = "lock" => card.states = {"needs-decision"}
    /\ job.stage \in {"revalidate", "revision", "merge", "put", "note", "policyAgain",
                      "shut", "reply"} => card.states = {"needs-decision", "processing"}
    /\ job.stage = "clear" =>
          card.states \in {{"needs-decision"}, {"needs-decision", "processing"}}
    /\ job.stage \in {"resolve", "block"} /\ ~broken => card.states = {"needs-decision"}
    /\ job.stage = "drop" /\ ~broken =>
          card.states = IF job.terminal = "resolved" THEN {"needs-decision", "resolved"}
                        ELSE {"needs-decision", "blocked"}
    /\ job.stage = "close" /\ ~broken => card.states = {"resolved"}
    /\ job.stage \in {"resolve", "close"} => job.terminal = "resolved"
    /\ job.stage = "block" => Blocks(job.terminal)
    /\ job.stage = "drop" => job.terminal = "resolved" \/ Blocks(job.terminal)

\* Before the lock and after the end nothing is said of the states.
LEMMA NoStates ==
    ASSUME job'.stage \notin Locked
    PROVE  StateInv'
BY DEF StateInv, Locked, PastChecks

\* A step of the execution goes on: only the runner's loss ends it.
LEMMA ExecutionGoes ==
    ASSUME TypeInv,
           \/ Revalidate \/ Revision \/ MergeGates \/ PolicyAgain \/ MergePut \/ Shut
           \/ Note
    PROVE  job'.stage \in {"clear", "revision", "merge", "put", "shut", "note", "reply",
                          "policyAgain"}
<1> USE DEF Keeps, Stages, At
<1>0. job \in Job
  BY DEF TypeInv, TypeOK
<1>1. CASE Revalidate \/ Revision \/ MergeGates
  BY <1>0, <1>1, Goes, EndsGoes
     DEF Revalidate, Unlocks, Revision, FirstStep, MergeGates, Raises, MergeHeld,
         Terminals
<1>2. CASE PolicyAgain \/ MergePut \/ Shut
  BY <1>0, <1>2, Goes, EndsGoes DEF PolicyAgain, MergePut, Shut, Terminals
<1>3. CASE Note
  <2>1. CASE job' = [job EXCEPT !.stage = "reply", !.terminal = "none",
                                !.posted = TRUE]
    BY <1>0, <2>1 DEF Job
  <2>2. CASE job' = [job EXCEPT !.stage = "policyAgain", !.posted = TRUE]
    BY <1>0, <2>2 DEF Job
  <2>3. CASE Ends("error") \/ GoTo("clear")
    BY <1>0, <2>3, Goes, EndsGoes DEF Terminals
  <2>4. QED BY <1>3, <2>1, <2>2, <2>3, Zenon DEF Note, Raises
<1>4. QED BY <1>1, <1>2, <1>3

\* A step of the handler takes the card from each stage's states to the next one's.
LEMMA HandlerStates ==
    ASSUME TypeInv, StateInv, HandlerStep \/ RunnerLost
    PROVE  StateInv'
<1>0. job \in Job /\ card \in Card /\ card.states \in SUBSET States /\ trouble \in Nat
      /\ broken \in BOOLEAN /\ broken' \in {broken, TRUE}
  <2>1. broken' \in {broken, TRUE}
    BY EffectStep
  <2>2. /\ job \in Job /\ card \in Card /\ trouble \in 0..MaxTrouble
        /\ broken \in BOOLEAN
    BY DEF TypeInv, TypeOK
  <2>3. card.states \in SUBSET States
    BY <2>2 DEF Card
  <2>4. trouble \in Nat
    BY <2>2
  <2>5. QED BY <2>1, <2>2, <2>3, <2>4, Zenon
<1>1. CASE job'.stage \notin Locked
  BY <1>1, NoStates
<1>2. SUFFICES ASSUME job'.stage \in Locked PROVE StateInv'
  BY <1>1
<1>3. job' # NoJob
  BY <1>2, NoJobType DEF Locked, PastChecks
<1> USE DEF Keeps, Stages, At
<1>4. CASE CurrentCard /\ CardIsCurrent /\ job'.stage = "lock" /\ UNCHANGED card
  BY <1>0, <1>4 DEF CardIsCurrent, Refreshable, States, StateInv
<1>5. CASE Lock
  <2>1. /\ job.stage = "lock"
        /\ \/ job'.stage = "clear"
           \/ job'.stage \in {"revalidate", "revision"} /\ Works
    BY <1>0, <1>5, Goes DEF Lock, Unlocks
  <2>2. \/ card' = card /\ Fault
        \/ CardStates(card.states \cup {"processing"})
    <3>1. (card.states \cup {"processing"}) \in SUBSET States
      BY <1>0 DEF States
    <3>2. QED BY <1>0, <1>5, <3>1, SetStates DEF Lock
  <2>3. ~(Works /\ Fault)
    BY <1>0 DEF Works, Fault, Trouble
  <2>4. card.states = {"needs-decision"}
    BY <2>1 DEF StateInv
  <2>5. \/ card'.states = {"needs-decision"} /\ job'.stage = "clear"
        \/ card'.states = {"needs-decision", "processing"}
    BY <2>1, <2>2, <2>3, <2>4 DEF CardStates
  <2>6. QED BY <2>1, <2>5 DEF StateInv
<1>6. CASE Revalidate \/ Revision \/ MergeGates \/ PolicyAgain \/ MergePut \/ Shut \/ Note
  <2>1. UNCHANGED card
    BY <1>6 DEF Revalidate, Revision, MergeGates, PolicyAgain, MergePut, Shut, Note, Looks
  <2>2. card.states = {"needs-decision", "processing"}
    BY <1>6 DEF Revalidate, Revision, MergeGates, PolicyAgain, MergePut, Shut, Note, StateInv
  <2>3. job'.stage \in {"clear", "revision", "merge", "put", "shut", "note", "reply",
                        "policyAgain"}
    BY <1>6, ExecutionGoes
  <2>4. QED BY <2>1, <2>2, <2>3 DEF StateInv
<1>7. CASE Reply
  <2>1. job'.stage = "clear" /\ job.stage = "reply"
    BY <1>0, <1>7, Goes DEF Reply
  <2>2. card'.states = card.states
    BY <1>0, <1>7, ReplyWritten DEF Reply, CardComments
  <2>3. QED BY <2>1, <2>2 DEF StateInv
<1>8. CASE Clear
  <2>1. \/ card' = card /\ broken' = TRUE
        \/ card'.states = card.states \ {"processing"}
    BY <1>0, <1>8, StatesWritten DEF Clear, CardStates
  <2>2. /\ job'.terminal = job.terminal /\ job.stage = "clear"
        /\ \/ job.terminal = "resolved" /\ job'.stage = "resolve"
           \/ Blocks(job.terminal) /\ job'.stage = "block"
    BY <1>0, <1>3, <1>8, Goes DEF Clear, AfterClear, EndRun
  <2>3. card.states \in {{"needs-decision"}, {"needs-decision", "processing"}}
    BY <2>2 DEF StateInv
  <2>4. ~broken' => card'.states = {"needs-decision"}
    BY <2>1, <2>3
  <2>5. QED BY <2>2, <2>4 DEF StateInv
<1>9. CASE Resolve \/ Block
  <2>1. /\ job'.stage = "drop" /\ job'.terminal = job.terminal
        /\ job.stage = IF Resolve THEN "resolve" ELSE "block"
        /\ job.stage \in {"resolve", "block"}
    BY <1>0, <1>9, Goes DEF Resolve, Block
  <2>2. \/ card' = card /\ broken' = TRUE
        \/ Resolve /\ card'.states = card.states \cup {"resolved"}
        \/ Block /\ card'.states = card.states \cup {"blocked"}
    BY <1>0, <1>9, StatesWritten DEF Resolve, Block, CardStates, States
  <2>3. CASE Resolve
    <3>1. job.stage = "resolve" /\ job.terminal = "resolved"
      BY <2>1, <2>3 DEF StateInv
    <3>2. ~broken' => card.states = {"needs-decision"}
      BY <1>0, <3>1 DEF StateInv
    <3>3. ~Block
      BY <3>1 DEF Block
    <3>4. QED BY <2>1, <2>2, <3>1, <3>2, <3>3 DEF StateInv
  <2>4. CASE Block
    <3>1. job.stage = "block" /\ Blocks(job.terminal)
      BY <2>4 DEF Block, StateInv
    <3>2. ~broken' => card.states = {"needs-decision"}
      BY <1>0, <3>1 DEF StateInv
    <3>3. ~Resolve /\ job.terminal # "resolved"
      BY <3>1 DEF Resolve, Blocks
    <3>4. QED BY <2>1, <2>2, <3>1, <3>2, <3>3 DEF StateInv
  <2>5. QED BY <1>9, <2>3, <2>4
<1>10. CASE Drop
  <2>1. /\ job'.stage = "close" /\ job'.terminal = job.terminal /\ job.stage = "drop"
        /\ job.terminal = "resolved"
    BY <1>0, <1>3, <1>10, Goes DEF Drop, EndRun
  <2>2. \/ card' = card /\ broken' = TRUE
        \/ card'.states = card.states \ {"needs-decision"}
    BY <1>0, <1>10, StatesWritten DEF Drop, CardStates
  <2>3. ~broken' => card.states = {"needs-decision", "resolved"}
    BY <1>0, <2>1 DEF StateInv
  <2>4. ~broken' => card'.states = {"resolved"}
    BY <2>2, <2>3
  <2>5. QED BY <2>1, <2>4 DEF StateInv
<1>11. CASE Close \/ RunnerLost
  BY <1>3, <1>11 DEF Close, RunnerLost, EndRun
<1>12. QED
  BY <1>2, <1>4, <1>5, <1>6, <1>7, <1>8, <1>9, <1>10, <1>11, LockedStep
     DEF HandlerStep, SourcePolicy, Admit, Claim, Verify, CurrentCard, Locked, PastChecks

\* Every behaviour keeps it; only the handler writes states.
THEOREM StatesInvariant == Spec => []StateInv
<1>1. Init => StateInv
  BY NoJobType DEF Init, StateInv
<1>2. TypeInv /\ StateInv /\ [Next]_vars => StateInv'
  <2> SUFFICES ASSUME TypeInv, StateInv, [Next]_vars PROVE StateInv'
    OBVIOUS
  <2>1. CASE HandlerStep \/ RunnerLost
    BY <2>1, HandlerStates
  <2>2. CASE UNCHANGED <<job, broken>> /\ card'.states = card.states
    BY <2>2 DEF StateInv
  <2>3. CASE job'.stage \notin Locked
    BY <2>3, NoStates
  <2>4. CASE \E d \in Decisions : OwnerTicks(d) \/ OwnerLabels(d) \/ OwnerCommands(d)
    <3>1. PICK by \in {"box", "label", "slash"}, d \in Decisions, c \in Card :
            Rewritten(c) /\ Decided(by, d, c)
      BY <2>4, Decisive
    <3>2. UNCHANGED <<job, broken>> /\ card' = Touched(c)
      BY <3>1 DEF Decided
    <3>3. card'.states = card.states
      BY <3>1, <3>2, TouchedCard DEF Rewritten
    <3>4. QED BY <2>2, <3>2, <3>3
  <2>5. QED
    BY <2>1, <2>2, <2>3, <2>4, Kinds
       DEF Aside, Locked, PastChecks, HandlerStages, ScanStages, Stages
<1>3. QED BY <1>1, <1>2, TypeInvariant, PTL DEF Spec

\* When a run ends the card tells how, unless the runner is lost or a call after the
\* execution fails (decision-handler.yml, the finishing steps).
THEOREM CardTells == Spec => CardTellsTheOutcome
<1>1. TypeInv /\ StateInv /\ StateInv' /\ [Next]_vars
         => [job.stage \in PastChecks /\ job'.stage = "idle" /\ ~broken'
                => Tells(card', job.terminal)]_vars
  <2> SUFFICES ASSUME TypeInv, StateInv, [Next]_vars, job.stage \in PastChecks,
                      job'.stage = "idle", ~broken'
               PROVE  Tells(card', job.terminal)
    OBVIOUS
  <2>1. HandlerStep \/ RunnerLost
    BY Kinds, Decisive DEF Decided, PastChecks, HandlerStages, ScanStages, Stages
  <2>2. job \in Job /\ card \in Card /\ card.states \in SUBSET States
        /\ broken \in BOOLEAN /\ ~broken
    BY <2>1, EffectStep DEF TypeInv, TypeOK, Card
  <2>3. Clear \/ Drop \/ Close
    <3>1. CASE Reply \/ Resolve \/ Block
      BY <2>2, <3>1, Goes DEF Reply, Resolve, Block, Stages
    <3>2. CASE RunnerLost
      BY <2>2, <3>2 DEF RunnerLost
    <3>3. QED
      BY <2>1, <3>1, <3>2, ExecutionGoes
         DEF HandlerStep, SourcePolicy, Admit, Claim, Verify, CurrentCard, Lock, At,
             PastChecks
  <2> USE DEF At
  <2>4. CASE Clear
    <3>1. card'.states = card.states \ {"processing"}
      BY <2>2, <2>4, StatesWritten DEF Clear, CardStates
    <3>2. job.stage = "clear" /\ job.terminal # "resolved" /\ ~Blocks(job.terminal)
      BY <2>2, <2>4, Goes DEF Clear, AfterClear, Stages
    <3>3. card'.states = {"needs-decision"}
      BY <3>1, <3>2 DEF StateInv
    <3>4. QED BY <3>2, <3>3 DEF Tells, Blocks
  <2>5. CASE Drop
    <3>1. card'.states = card.states \ {"needs-decision"}
      BY <2>2, <2>5, StatesWritten DEF Drop, CardStates
    <3>2. job.stage = "drop" /\ job.terminal # "resolved"
      BY <2>2, <2>5, Goes DEF Drop, Stages
    <3>3. card.states = {"needs-decision", "blocked"} /\ Blocks(job.terminal)
      BY <2>2, <3>2 DEF StateInv
    <3>4. QED BY <3>1, <3>2, <3>3 DEF Tells, Blocks
  <2>6. CASE Close
    <3>1. card'.states = card.states /\ ~card'.open
      BY <2>2, <2>6, CloseWritten DEF Close, CardCloses
    <3>2. job.terminal = "resolved" /\ card.states = {"resolved"}
      BY <2>2, <2>6 DEF Close, StateInv
    <3>3. QED BY <3>1, <3>2 DEF Tells
  <2>7. QED BY <2>3, <2>4, <2>5, <2>6
<1>2. QED BY <1>1, TypeInvariant, StatesInvariant, PTL DEF Spec, CardTellsTheOutcome

-----------------------------------------------------------------------------
(* What an owner's later decision does to an erased label *)

\* An erased label that was overtaken is no longer the last thing on its card: a
\* projection does not erase it again, and the boxes that overtook it are ticked.
Admitted == \/ job.stage \in {"claim", "verify"}
            \/ job.recovered /\ job.stage \in {"current", "lock", "revalidate"}
OvertakenInv ==
    /\ \A e \in overtaken : events[e].tail # "labeled"
    /\ card.erased => card.boxes = {}
    /\ \A e \in overtaken : events[e].tail = "erased" => ~card.erased
    /\ Admitted =>
          /\ job.read = {}
          /\ job.ev \in overtaken /\ events[job.ev].tail = "erased" => card.boxes # {}
    /\ job.recovered /\ job.stage \in Acting \cap PastChecks => job.ev \notin overtaken

\* A run that is not past its admission keeps nothing of an admitted one.
LEMMA NotAdmitted ==
    ASSUME OvertakenInv, UNCHANGED <<card, events, overtaken>>,
           job'.stage \notin {"claim", "verify"},
           job'.recovered => job'.stage \notin Acting \cup {"current"}
    PROVE  OvertakenInv'
BY DEF OvertakenInv, Admitted, Acting

\* The steps of a run: it is admitted for a body without ticks, and goes past the
\* last check only if there are none.
LEMMA HandlerOvertaken ==
    ASSUME TypeInv, SafeInv, OvertakenInv, HandlerStep \/ RunnerLost
    PROVE  OvertakenInv'
<1>0. /\ job \in Job /\ card \in Card /\ UNCHANGED <<events, overtaken>>
      /\ job.stage \in HandlerStages
  <2>1. TypeOK
    BY DEF TypeInv
  <2>2. QED BY <2>1, HandlerFrame, JobStep DEF TypeOK
<1>a. /\ \A e \in overtaken : events[e].tail # "labeled"
      /\ card.erased => card.boxes = {}
      /\ \A e \in overtaken : events[e].tail = "erased" => ~card.erased
      /\ Admitted =>
            /\ job.read = {}
            /\ job.ev \in overtaken /\ events[job.ev].tail = "erased" => card.boxes # {}
      /\ job.recovered /\ job.stage \in Acting \cap PastChecks => job.ev \notin overtaken
  BY DEF OvertakenInv
<1>b. \/ UNCHANGED card
      \/ ~card'.erased /\ card'.boxes = card.boxes
  BY CardStep DEF CardComments, CardStates, CardCloses
<1>c. /\ \A e \in overtaken' : events'[e].tail # "labeled"
      /\ card'.erased => card'.boxes = {}
      /\ \A e \in overtaken' : events'[e].tail = "erased" => ~card'.erased
  BY <1>0, <1>a, <1>b
<1>1. SUFFICES
        /\ Admitted' =>
              /\ job'.read = {}
              /\ job'.ev \in overtaken /\ events[job'.ev].tail = "erased"
                     => card.boxes # {}
        /\ job'.recovered /\ job'.stage \in Acting \cap PastChecks
              => job'.ev \notin overtaken
  BY <1>0, <1>b, <1>c DEF OvertakenInv
<1> USE DEF Keeps, Stages, At
<1>2. CASE job' = NoJob
  BY <1>2, NoJobType DEF Admitted, Acting
<1>3. CASE SourcePolicy
  <2>1. PICK ok \in BOOLEAN :
          job' = [job EXCEPT !.stage = "admit",
                             !.admitted = ok /\ target.rev = Decision.rev]
    BY <1>3 DEF SourcePolicy
  <2>2. job'.stage = "admit"
    BY <1>0, <2>1 DEF Job
  <2>3. QED BY <2>2 DEF Admitted, Acting
<1>4. CASE Admit
  <2>1. CASE /\ job' = [job EXCEPT !.stage = "claim", !.read = card.boxes]
             /\ card.erased /\ Admission({})
    <3>1. /\ job'.stage = "claim" /\ job'.read = card.boxes /\ job'.ev = job.ev
      BY <1>0, <2>1 DEF Job
    <3>2. card.boxes = {} /\ events[job.ev].tail = "erased"
      BY <1>a, <2>1 DEF Admission, Decision
    <3>3. job.ev \notin overtaken
      BY <1>a, <2>1, <3>2
    <3>4. QED BY <3>1, <3>2, <3>3 DEF Acting
  <2>2. CASE AfterRecovery(FALSE)
    BY <1>0, <1>2, <2>2, RecoveryGoes DEF Over, Admitted, Acting
  <2>3. QED BY <1>2, <1>4, <2>1, <2>2, Zenon DEF Admit, EndRun
<1>5. CASE Claim
  <2>1. \/ job'.stage = "verify" /\ job'.ev = job.ev /\ job'.read = job.read
        \/ job' = NoJob
    BY <1>0, <1>5, Goes DEF Claim, EndRun
  <2>2. Admitted
    BY <1>5 DEF Claim, Admitted
  <2>3. QED BY <1>2, <1>a, <2>1, <2>2 DEF Acting
<1>6. CASE Verify
  <2>1. (AdmissionAsRead({}) /\ Mark(job.read) \in card.marks) \in BOOLEAN
    OBVIOUS
  <2>2. \/ job'.stage = "current" /\ job'.ev = job.ev /\ job'.read = job.read
        \/ job' = NoJob
    BY <1>0, <1>6, <2>1, RecoveryGoes DEF Verify, EndRun, Over
  <2>3. Admitted
    BY <1>6 DEF Verify, Admitted
  <2>4. QED BY <1>2, <1>a, <2>2, <2>3 DEF Acting
<1>7. CASE CurrentCard
  <2>1. \/ /\ job'.stage = "lock" /\ job'.ev = job.ev /\ job'.read = job.read
           /\ job'.recovered = job.recovered /\ job.stage = "current"
        \/ job' = NoJob
    BY <1>0, <1>7, Goes DEF CurrentCard, EndRun
  <2>2. QED BY <1>2, <1>a, <2>1 DEF Acting, Admitted, PastChecks
<1>8. CASE Lock
  <2>1. /\ job'.ev = job.ev /\ job'.read = job.read /\ job'.recovered = job.recovered
        /\ job.stage = "lock"
        /\ \/ job'.stage = "clear"
           \/ job'.stage = "revalidate" /\ job.recovered
           \/ job'.stage = "revision" /\ ~job.recovered
    BY <1>0, <1>8, Goes DEF Lock, Unlocks
  <2>2. QED BY <1>a, <2>1 DEF Acting, Admitted, PastChecks
<1>9. CASE Revalidate
  <2>1. /\ job'.ev = job.ev /\ job'.recovered = job.recovered /\ job.stage = "revalidate"
        /\ \/ job'.stage = "clear"
           \/ job'.stage = "revision" /\ AdmissionAsRead({"processing"})
    BY <1>0, <1>9, Goes DEF Revalidate, Unlocks
  <2>2. CASE job'.stage = "revision" /\ AdmissionAsRead({"processing"}) /\ job'.recovered
    <3>1. Admitted
      BY <2>1, <2>2 DEF Admitted
    <3>2. card.boxes = job.read /\ events[job.ev].tail = "erased"
      BY <2>2 DEF AdmissionAsRead, Admission, Decision
    <3>3. job.ev \notin overtaken
      BY <1>a, <3>1, <3>2
    <3>4. QED BY <2>1, <2>2, <3>3 DEF Admitted
  <2>3. QED BY <2>1, <2>2 DEF Acting, Admitted
<1>10. CASE Revision \/ MergeGates \/ PolicyAgain \/ MergePut \/ Shut \/ Note
  <2>1. job.stage \in Acting \cap PastChecks
    BY <1>10 DEF Revision, MergeGates, PolicyAgain, MergePut, Shut, Note, Acting, PastChecks
  <2>2. job'.ev = job.ev /\ job'.recovered = job.recovered
    <3>1. CASE Revision \/ MergeGates
      BY <1>0, <3>1, Goes, EndsGoes
         DEF Revision, FirstStep, MergeGates, Raises, MergeHeld, Terminals
    <3>2. CASE PolicyAgain \/ MergePut \/ Shut
      BY <1>0, <3>2, Goes, EndsGoes DEF PolicyAgain, MergePut, Shut, Terminals
    <3>3. CASE Note
      <4>1. CASE job' = [job EXCEPT !.stage = "reply", !.terminal = "none",
                                    !.posted = TRUE]
        BY <1>0, <4>1 DEF Job
      <4>2. CASE job' = [job EXCEPT !.stage = "policyAgain", !.posted = TRUE]
        BY <1>0, <4>2 DEF Job
      <4>3. CASE Ends("error") \/ GoTo("clear")
        BY <1>0, <4>3, Goes, EndsGoes DEF Terminals
      <4>4. QED BY <3>3, <4>1, <4>2, <4>3, Zenon DEF Note, Raises
    <3>4. QED BY <1>10, <3>1, <3>2, <3>3
  <2>3. job'.stage \in {"clear", "revision", "merge", "put", "shut", "note", "reply",
                        "policyAgain"}
    BY <1>10, ExecutionGoes
  <2>4. ~Admitted'
    BY <2>3 DEF Admitted
  <2>5. QED BY <1>a, <2>1, <2>2, <2>4
<1>11. CASE Reply \/ Clear \/ Resolve \/ Block \/ Drop \/ Close
  <2>1. \/ job'.stage \in {"clear", "resolve", "block", "drop", "close"}
        \/ job' = NoJob
    BY <1>0, <1>11, Goes DEF Reply, Clear, AfterClear, Resolve, Block, Drop, Close, EndRun
  <2>2. QED BY <1>2, <2>1 DEF Acting, Admitted
<1>12. CASE RunnerLost
  BY <1>2, <1>12 DEF RunnerLost, EndRun
<1>13. QED
  BY <1>3, <1>4, <1>5, <1>6, <1>7, <1>8, <1>9, <1>10, <1>11, <1>12 DEF HandlerStep

\* The card after a write of somebody else, in what the recovery looks at.
LEMMA TouchedBoxes ==
    ASSUME NEW c \in Card, card' = Touched(c)
    PROVE  ~card'.erased /\ card'.boxes = c.boxes
BY TouchedCard

\* What the owner decides next: a tick stays on the body, a label row is the last
\* thing on the card, a comment changes nothing here.
LEMMA OwnerOvertaken ==
    ASSUME TypeInv, OvertakenInv, NEW d \in Decisions,
           OwnerTicks(d) \/ OwnerLabels(d) \/ OwnerCommands(d)
           \/ OwnerUnticks(d) \/ OwnerUnlabels(d)
    PROVE  OvertakenInv'
<1>0. /\ events \in [Events -> Event] /\ card \in Card /\ overtaken \subseteq 1..made
      /\ 1..made \subseteq Events /\ Erased \subseteq Events
      /\ \A e \in Erased : events[e].tail = "erased"
      /\ job.stage \in HandlerStages => job.ev \in 1..made
      /\ made \in 0..MaxEvents
  BY DEF TypeInv, TypeOK, Events, Erased, Unsettled
<1>a. /\ \A e \in overtaken : events[e].tail # "labeled"
      /\ Admitted =>
            /\ job.read = {}
            /\ job.ev \in overtaken /\ events[job.ev].tail = "erased" => card.boxes # {}
      /\ job.recovered /\ job.stage \in Acting \cap PastChecks => job.ev \notin overtaken
      /\ (job.stage \in PastChecks => job.ev \notin Erased)
  BY DEF OvertakenInv, Erased, Unsettled
<1>b. Admitted \/ job.stage \in Acting => job.ev \in 1..made
  BY <1>0 DEF Admitted, Acting, HandlerStages, ScanStages, Stages
<1>e. Erased \subseteq 1..made
  BY <1>0 DEF TypeInv, Events
<1>1. CASE OwnerTicks(d)
  <2>1. [card EXCEPT !.boxes = @ \cup {d}] \in Card
    BY <1>0, <1>1 DEF OwnerTicks, Card
  <2>2. /\ card' = Touched([card EXCEPT !.boxes = @ \cup {d}]) /\ UNCHANGED job
        /\ events' = [events EXCEPT ![made + 1] =
                         Made("box", d, [card EXCEPT !.boxes = @ \cup {d}])]
        /\ overtaken' = overtaken \cup Erased
    BY <1>1 DEF OwnerTicks, Decide
  <2>3. ~card'.erased /\ card'.boxes # {}
    BY <1>0, <2>1, <2>2, TouchedBoxes DEF Card
  <2>4. \A e \in 1..made : events'[e] = events[e]
    BY <1>0, <2>2
  <2>5. QED BY <1>0, <1>a, <1>b, <1>e, <2>2, <2>3, <2>4 DEF OvertakenInv, Admitted
<1>2. CASE OwnerLabels(d)
  <2>1. [card EXCEPT !.labels = @ \cup {d}] \in Card
        /\ [card EXCEPT !.labels = @ \cup {d}].boxes = card.boxes
    BY <1>0, <1>2 DEF OwnerLabels, Card
  <2>2. /\ card' = Touched([card EXCEPT !.labels = @ \cup {d}]) /\ UNCHANGED job
        /\ events' = [RowAdded EXCEPT ![made + 1] =
                         Made("label", d, [card EXCEPT !.labels = @ \cup {d}])]
        /\ overtaken' = overtaken \cup Erased
    BY <1>2 DEF OwnerLabels, Decide
  <2>3. ~card'.erased
    BY <2>1, <2>2, TouchedBoxes
  <2>4. \A e \in 1..made : events'[e].tail = "more"
    BY <1>0, <2>2, RowAddedType DEF SameButTail
  <2>5. QED BY <1>0, <1>a, <1>b, <1>e, <2>2, <2>3, <2>4 DEF OvertakenInv, Admitted
<1>3. CASE OwnerCommands(d)
  <2>1. [card EXCEPT !.comments = @ + 1] \in Card
        /\ [card EXCEPT !.comments = @ + 1].boxes = card.boxes
    BY <1>0 DEF Card
  <2>2. /\ card' = Touched([card EXCEPT !.comments = @ + 1]) /\ UNCHANGED job
        /\ events' = [events EXCEPT ![made + 1] =
                         Made("slash", d, [card EXCEPT !.comments = @ + 1])]
        /\ overtaken' = overtaken
    BY <1>3 DEF OwnerCommands, Decide, labelHistory
  <2>3. ~card'.erased /\ card'.boxes = card.boxes
    BY <2>1, <2>2, TouchedBoxes
  <2>4. \A e \in 1..made : events'[e] = events[e]
    BY <1>0, <2>2
  <2>5. QED BY <1>0, <1>a, <1>b, <2>2, <2>3, <2>4 DEF OvertakenInv, Admitted
<1>4. CASE OwnerUnticks(d)
  <2>1. [card EXCEPT !.boxes = @ \ {d}] \in Card
        /\ [card EXCEPT !.boxes = @ \ {d}].boxes = card.boxes \ {d}
    BY <1>0 DEF Card
  <2>2. /\ card' = Touched([card EXCEPT !.boxes = @ \ {d}]) /\ UNCHANGED <<job, events>>
        /\ d \in card.boxes
        /\ overtaken' = IF card.boxes = {d}
                        THEN {e \in overtaken : events[e].tail = "more"}
                        ELSE overtaken \cup Erased
    BY <1>4 DEF OwnerUnticks, queues
  <2>3. ~card'.erased /\ card'.boxes = card.boxes \ {d}
    BY <2>1, <2>2, TouchedBoxes
  <2>4. CASE card.boxes = {d}
    <3>1. overtaken' = {e \in overtaken : events[e].tail = "more"}
      BY <2>2, <2>4
    <3>2. /\ overtaken' \subseteq overtaken
          /\ \A e \in overtaken' : events[e].tail = "more"
      BY <3>1
    <3>3. QED BY <1>0, <1>a, <1>b, <2>2, <2>3, <3>2 DEF OvertakenInv, Admitted
  <2>5. CASE card.boxes # {d}
    <3>1. overtaken' = overtaken \cup Erased /\ UNCHANGED <<job, events>>
      BY <2>2, <2>5
    <3>2. card'.boxes # {}
      BY <2>2, <2>3, <2>5
    <3>3. QED BY <1>0, <1>a, <1>b, <1>e, <2>3, <3>1, <3>2 DEF OvertakenInv, Admitted
  <2>6. QED BY <2>4, <2>5
<1>5. CASE OwnerUnlabels(d)
  <2>1. [card EXCEPT !.labels = @ \ {d}] \in Card
        /\ [card EXCEPT !.labels = @ \ {d}].boxes = card.boxes
    BY <1>0 DEF Card
  <2>2. /\ card' = Touched([card EXCEPT !.labels = @ \ {d}]) /\ UNCHANGED job
        /\ events' = RowAdded /\ overtaken' = overtaken \cup Erased
    BY <1>5 DEF OwnerUnlabels
  <2>3. ~card'.erased
    BY <2>1, <2>2, TouchedBoxes
  <2>4. \A e \in 1..made : events'[e].tail = "more"
    BY <1>0, <2>2, RowAddedType
  <2>5. QED BY <1>0, <1>a, <1>b, <1>e, <2>2, <2>3, <2>4 DEF OvertakenInv, Admitted
<1>6. QED BY <1>1, <1>2, <1>3, <1>4, <1>5

\* A projection that takes labels off leaves no overtaken label the last thing on
\* the card (ScanPatches); the other steps of scans write nothing.
LEMMA ScanOvertaken ==
    ASSUME TypeInv, SafeInv, OvertakenInv, ScanLists \/ ScanReads \/ ScanPatches
    PROVE  OvertakenInv'
<1>1. job'.stage \notin HandlerStages /\ UNCHANGED overtaken
      /\ card \in Card /\ overtaken \subseteq Events
  <2>1. UNCHANGED overtaken
    BY DEF ScanLists, ScanReads, ScanPatches, ScanOnly, history, labelHistory
  <2>2. QED BY <2>1, ScanAside DEF TypeInv, TypeOK, Events
<1>2. ~Admitted' /\ job'.stage \notin Acting
  BY <1>1, ScanAside DEF Admitted, Acting, HandlerStages, ScanStages, Stages, SafeInv, RunInv
<1>3. CASE ScanLists \/ ScanReads
  <2>1. UNCHANGED <<card, events>>
    BY <1>3 DEF ScanLists, ScanReads
  <2>2. QED BY <1>1, <1>2, <2>1 DEF OvertakenInv
<1>4. CASE ScanPatches
  <2>1. card' = [card EXCEPT !.rev = planned, !.boxes = {}, !.labels = putting,
                             !.erased = (card.labels \ putting # {})]
    BY <1>4 DEF ScanPatches
  <2>2. card'.boxes = {} /\ (card'.erased <=> card.labels \ putting # {})
    BY <1>1, <2>1 DEF Card
  <2>3. \A e \in Events : events'[e].tail = PatchedTail(e)
    <3>1. events' = [e \in Events |-> [events[e] EXCEPT !.tail = PatchedTail(e)]]
      BY <1>4 DEF ScanPatches
    <3>2. ASSUME NEW e \in Events
          PROVE  [events[e] EXCEPT !.tail = PatchedTail(e)].tail = PatchedTail(e)
      <4>1. events[e] \in Event
        BY DEF TypeInv, TypeOK
      <4>2. QED BY <4>1 DEF Event
    <3>3. QED BY <3>1, <3>2
  <2>4. ASSUME NEW e \in overtaken
        PROVE  /\ PatchedTail(e) # "labeled"
               /\ PatchedTail(e) = "erased" => card.labels \ putting = {}
    <3>1. events[e].tail # "labeled"
      BY DEF OvertakenInv
    <3>2. QED BY <3>1 DEF PatchedTail
  <2>5. QED BY <1>1, <1>2, <2>2, <2>3, <2>4 DEF OvertakenInv
<1>5. QED BY <1>3, <1>4

\* The rest of what people do, and the start of a run.
LEMMA OthersOvertaken ==
    ASSUME TypeInv, SafeInv, OvertakenInv,
           \/ SomebodyComments \/ OwnerClosesCard \/ Pushes \/ TargetClosesByHand
           \/ \E e \in Events : Start(e) \/ Rerun(e)
           \/ UNCHANGED vars
    PROVE  OvertakenInv'
<1>0. card \in Card
  BY DEF TypeInv, TypeOK
<1>1. CASE SomebodyComments \/ OwnerClosesCard
  <2>1. UNCHANGED <<events, overtaken, job>>
    BY <1>1 DEF SomebodyComments, OwnerClosesCard, queues, history, labelHistory
  <2>2. \/ card' = Touched([card EXCEPT !.comments = @ + 1])
        \/ card' = Touched([card EXCEPT !.open = FALSE])
    BY <1>1 DEF SomebodyComments, OwnerClosesCard
  <2>3. /\ [card EXCEPT !.comments = @ + 1] \in Card
        /\ [card EXCEPT !.comments = @ + 1].boxes = card.boxes
    BY <1>0 DEF Card
  <2>4. /\ [card EXCEPT !.open = FALSE] \in Card
        /\ [card EXCEPT !.open = FALSE].boxes = card.boxes
    BY <1>0 DEF Card
  <2>5. ~card'.erased /\ card'.boxes = card.boxes
    BY <2>2, <2>3, <2>4, TouchedBoxes
  <2>6. QED BY <2>1, <2>5 DEF OvertakenInv, Admitted
<1>2. CASE Pushes \/ TargetClosesByHand \/ UNCHANGED vars
  <2>1. UNCHANGED <<events, overtaken, job, card>>
    BY <1>2 DEF Pushes, TargetClosesByHand, queues, history, labelHistory, vars
  <2>2. QED BY <2>1 DEF OvertakenInv, Admitted
<1>3. CASE \E e \in Events : Start(e) \/ Rerun(e)
  <2>1. PICK e \in Events : Start(e) \/ Rerun(e)
    BY <1>3
  <2>2. UNCHANGED <<events, overtaken, card>>
    BY <2>1 DEF Start, Rerun, history, labelHistory
  <2>3. CASE UNCHANGED job
    BY <2>2, <2>3 DEF OvertakenInv, Admitted
  <2>4. CASE job'.stage = "policy"
    BY <2>2, <2>4, NotAdmitted DEF Acting
  <2>5. QED BY <2>1, <2>3, <2>4, RunsAside
<1>4. QED BY <1>1, <1>2, <1>3

\* Every behaviour keeps it.
THEOREM OvertakenInvariant == Spec => []OvertakenInv
<1>1. Init => OvertakenInv
  BY NoJobType DEF Init, OvertakenInv, Admitted, Acting
<1>2. TypeInv /\ SafeInv /\ OvertakenInv /\ [Next]_vars => OvertakenInv'
  BY HandlerOvertaken, OwnerOvertaken, ScanOvertaken, OthersOvertaken DEF Next, People
<1>3. QED BY <1>1, <1>2, TypeInvariant, SafeInvariant, PTL DEF Spec

\* A body or label edit of the owner before the last check takes the place of an
\* erased label: its recovery never acts (decision_label_recovery.admission_record).
THEOREM OvertakenIsOver == Spec => OvertakenNeverRecovers
<1>1. TypeInv /\ OvertakenInv /\ [Next]_vars
         => [\A e \in overtaken : job.ev = e /\ job.recovered
                                      => Acts(e)' = Acts(e)]_vars
  <2> SUFFICES ASSUME TypeInv, OvertakenInv, [Next]_vars, NEW e \in overtaken,
                      job.ev = e, job.recovered
               PROVE  Acts(e)' = Acts(e)
    OBVIOUS
  <2>1. CASE HandlerStep \/ RunnerLost
    <3>1. UNCHANGED <<posts, ends>> \/ job.stage \in Acting \cap PastChecks
      BY <2>1, EffectStep DEF Note, Shut, MergePut, At, Acting, PastChecks
    <3>2. QED BY <3>1 DEF Acts, OvertakenInv
  <2>2. CASE UNCHANGED <<posts, ends>>
    BY <2>2 DEF Acts
  <2>3. QED BY <2>1, <2>2, Kinds, Decisive DEF Aside, Decided
<1>2. QED BY <1>1, TypeInvariant, OvertakenInvariant, PTL DEF Spec, OvertakenNeverRecovers
=============================================================================
