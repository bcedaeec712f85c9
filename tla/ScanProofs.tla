------------------------------ MODULE ScanProofs -------------------------------
(***************************************************************************)
(* What the machines of a fleet scan guarantee for any bounds: the fork     *)
(* checks, the cleanup of silent contributors, the scan health ledger and   *)
(* the policy on maintainer edits.                                          *)
(***************************************************************************)
EXTENDS ForkChecks, ContributorCleanup, ScanHealth, EditsPolicy,
        FiniteSetTheorems, TLAPS

-----------------------------------------------------------------------------
(* Least and greatest numbers *)

\* Every set of naturals that has an element has a smallest one.
LEMMA LeastOf ==
    ASSUME NEW S, S \subseteq Nat, S # {}
    PROVE  \E m \in S : \A n \in S : m <= n
<1> DEFINE Below == {0..m : m \in S}
<1>1. Below \subseteq FiniteSubsetsOf(Nat)
  <2>1. \A m \in S : 0..m \subseteq Nat /\ IsFiniteSet(0..m)
    BY FS_Interval
  <2>2. QED BY <2>1 DEF FiniteSubsetsOf
<1>2. PICK x \in Below : \A y \in Below : ~(<<y, x>> \in StrictSubsetOrdering(Nat))
  <2>1. IsWellFoundedOn(StrictSubsetOrdering(Nat), FiniteSubsetsOf(Nat))
    BY FS_StrictSubsetOrderingWellFounded
  <2>2. Below # {}
    OBVIOUS
  <2> HIDE DEF Below
  <2>3. QED BY <1>1, <2>1, <2>2, WFMin
<1>3. PICK m \in S : x = 0..m
  OBVIOUS
<1>4. ASSUME NEW n \in S, n < m PROVE FALSE
  <2>1. 0..n \in Below /\ 0..n \subseteq 0..m /\ 0..n # 0..m
    BY <1>4
  <2>2. <<0..n, 0..m>> \in StrictSubsetOrdering(Nat)
    BY <2>1 DEF StrictSubsetOrdering
  <2>3. QED BY <1>2, <1>3, <2>1, <2>2
<1>5. QED BY <1>4

\* Every set of naturals up to k that has an element has a greatest one.
LEMMA GreatestOf ==
    ASSUME NEW k \in Nat, NEW S, S \subseteq 0..k, S # {}
    PROVE  \E m \in S : \A n \in S : n <= m
<1> DEFINE T == {k - n : n \in S}
<1>1. T \subseteq Nat /\ T # {}
  OBVIOUS
<1>2. PICK m \in T : \A n \in T : m <= n
  BY <1>1, LeastOf
<1>3. PICK s \in S : m = k - s
  OBVIOUS
<1>4. \A n \in S : k - s <= k - n
  BY <1>2, <1>3
<1>5. QED BY <1>4

-----------------------------------------------------------------------------
(* Fork checks: which runs are approved *)

\* No two runs have one number.
RunsAreDistinct == \A r, s \in ciRuns : r.n = s.n => r = s

\* A job on its way to an approval holds runs that wait at the head it fetched.
\* A risky one is no longer the head of the pull request once the files were
\* found safe, which the read before each approval finds out; unless the pull
\* request went back to it.
VettedHead ==
    /\ look.at \in {"list", "source"} =>
          (look.head \in fork.risky => look.head # fork.head \/ look.back)
    /\ look.at = "approve" => (look.head \in fork.risky => look.back)
    /\ look.at \in {"source", "approve"} =>
          \A n \in look.todo : \E r \in ciRuns :
              r.n = n /\ r.out = "waiting" /\ r.head = look.head

VetInv == RunsAreDistinct /\ VettedHead /\ ApprovedRunsWereVetted

\* The next run gets a number that no run has.
LEMMA LastIsLast ==
    ASSUME ForkTypeOK
    PROVE  Last \in 0..MaxRuns /\ \A r \in ciRuns : r.n <= Last
<1> DEFINE S == {r.n : r \in ciRuns} \cup {0}
<1>0. MaxRuns \in Nat
  BY ForkAssumption
<1>1. S \subseteq 0..MaxRuns /\ S # {}
  BY <1>0 DEF ForkTypeOK, CiRun
<1>2. \E m \in S : \A n \in S : n <= m
  BY <1>0, <1>1, GreatestOf
<1>3. \E m \in S : \A r \in ciRuns : r.n <= m
  BY <1>2
<1>4. Last = CHOOSE n \in S : \A r \in ciRuns : r.n <= n
  BY DEF Last
<1> HIDE DEF S
<1>5. Last \in S /\ \A r \in ciRuns : r.n <= Last
  BY <1>3, <1>4
<1>6. QED BY <1>1, <1>5

\* A new number and a run that moves stay in the type.
LEMMA NewRunType ==
    ASSUME NEW n \in 1..MaxRuns, NEW wf \in {"compliance", "tests"}, NEW h \in Heads
    PROVE  NewRun(n, wf, h) \in CiRun
BY DEF NewRun, CiRun

LEMMA MovedType ==
    ASSUME NEW r \in CiRun, NEW out \in {"running", "pass", "fail", "cancelled"}
    PROVE  /\ Moved(r, out) \in CiRun
           /\ Moved(r, out).n = r.n /\ Moved(r, out).head = r.head
           /\ Moved(r, out).out = out
<1>1. CASE r.wf = "compliance"
  BY <1>1 DEF Moved, CiRun
<1>2. CASE r.wf # "compliance" /\ out = "running"
  BY <1>2 DEF Moved, CiRun
<1>3. CASE r.wf # "compliance" /\ out # "running"
  BY <1>3 DEF Moved, CiRun
<1>4. QED BY <1>1, <1>2, <1>3

\* What is left of the bound on unasked events.
LEMMA UnaskedType ==
    ASSUME unasked \in 0..MaxEvents, Unasked \/ UNCHANGED unasked
    PROVE  unasked' \in 0..MaxEvents
<1>1. MaxEvents \in Nat
  BY ForkAssumption
<1>2. QED BY <1>1 DEF Unasked

\* A push moves the head alone, and notes whether the job's head is back
\* (PushHead).
LEMMA Pushed ==
    ASSUME ForkTypeOK, PushHead
    PROVE  /\ fork' \in Fork /\ fork'.risky = fork.risky
           /\ look' \in Look /\ UNCHANGED <<shown, approvals>>
           /\ \A f \in {"at", "head", "todo", "strict", "bucket", "fresh", "proven"} :
                 look'[f] = look[f]
           /\ look'.back = (look.back \/ (look.at \in Vetting /\ fork'.head = look.head))
           /\ unasked' \in 0..MaxEvents
           /\ \/ UNCHANGED ciRuns
              \/ /\ Last + 1 \in 1..MaxRuns
                 /\ \E h \in Heads :
                       ciRuns' = ciRuns \cup {NewRun(Last + 1, "compliance", h)}
<1>0. /\ MaxRuns \in Nat /\ fork \in Fork /\ look \in Look /\ Last \in 0..MaxRuns
  BY ForkAssumption, LastIsLast DEF ForkTypeOK
<1>1. PICK h \in Heads \ {fork.head} :
          /\ IF h = 0 THEN UNCHANGED unasked ELSE Unasked
          /\ fork' = [fork EXCEPT !.head = h]
          /\ ciRuns' = IF Last < MaxRuns
                       THEN ciRuns \cup {NewRun(Last + 1, "compliance", h)}
                       ELSE ciRuns
          /\ look' = [look EXCEPT !.back = look.back \/ (look.at \in Vetting
                                                          /\ h = look.head)]
  BY DEF PushHead
<1>2. fork' \in Fork /\ fork'.risky = fork.risky /\ fork'.head = h
  BY <1>0, <1>1 DEF Fork
<1>3. PICK b \in BOOLEAN : /\ b = (look.back \/ (look.at \in Vetting /\ h = look.head))
                           /\ look' = [look EXCEPT !.back = b]
  BY <1>0, <1>1, Zenon DEF Look
<1>4. /\ look' \in Look /\ look'.back = b
      /\ look'.at = look.at /\ look'.head = look.head /\ look'.todo = look.todo
      /\ look'.strict = look.strict /\ look'.bucket = look.bucket
      /\ look'.fresh = look.fresh /\ look'.proven = look.proven
  BY <1>0, <1>3 DEF Look
<1>5. unasked' \in 0..MaxEvents
  <2>1. Unasked \/ UNCHANGED unasked
    BY <1>1
  <2>2. QED BY <2>1, UnaskedType DEF ForkTypeOK
<1>6. \/ UNCHANGED ciRuns
      \/ /\ Last + 1 \in 1..MaxRuns
         /\ ciRuns' = ciRuns \cup {NewRun(Last + 1, "compliance", h)}
  BY <1>0, <1>1
<1>7. UNCHANGED <<shown, approvals>>
  BY DEF PushHead
<1>8. QED BY <1>2, <1>3, <1>4, <1>5, <1>6, <1>7

\* The contributor, GitHub Actions and the base keep the types.
LEMMA ForkOthersType ==
    ASSUME ForkTypeOK,
           PushHead \/ TriggerAgain \/ RunConcludes \/ ContextShows
           \/ RerunWorkflow \/ StrayFails \/ PermissionsMove
    PROVE  ForkTypeOK'
<1>0. unasked' \in 0..MaxEvents
  BY Pushed, UnaskedType DEF ForkTypeOK, TriggerAgain, RunConcludes, ContextShows,
                             RerunWorkflow, StrayFails, PermissionsMove
<1>1. fork' \in Fork
  <2>1. CASE PushHead
    BY <2>1, Pushed
  <2>2. CASE StrayFails
    <3>1. /\ fork' = [fork EXCEPT !.stray = fork.stray \cup {fork.head}]
          /\ fork.stray \cup {fork.head} \in SUBSET Heads
      BY <2>2 DEF StrayFails, ForkTypeOK, Fork
    <3>2. QED BY <3>1 DEF ForkTypeOK, Fork
  <2>3. CASE PermissionsMove
    <3>1. CASE fork' = [fork EXCEPT !.editable = ~@]
      BY <3>1 DEF ForkTypeOK, Fork
    <3>2. CASE fork' = [fork EXCEPT !.baseSafe = FALSE]
      BY <3>2 DEF ForkTypeOK, Fork
    <3>3. QED BY <2>3, <3>1, <3>2 DEF PermissionsMove
  <2>4. CASE UNCHANGED fork
    BY <2>4 DEF ForkTypeOK
  <2>5. QED BY <2>1, <2>2, <2>3, <2>4 DEF TriggerAgain, RunConcludes, ContextShows,
                                          RerunWorkflow
<1>2. ciRuns' \subseteq CiRun
  <2>0. ciRuns \subseteq CiRun
    BY DEF ForkTypeOK
  <2>1. CASE PushHead
    BY <2>0, <2>1, Pushed, NewRunType
  <2>2. CASE TriggerAgain
    <3>1. Last + 1 \in 1..MaxRuns /\ fork.head \in Heads
      BY <2>2, LastIsLast, ForkAssumption DEF TriggerAgain, ForkTypeOK, Fork
    <3>2. QED BY <2>0, <2>2, <3>1 DEF TriggerAgain, CiRun
  <2>3. CASE RunConcludes \/ RerunWorkflow
    BY <2>0, <2>3, MovedType DEF RunConcludes, RerunWorkflow, SetRun
  <2>4. CASE ContextShows
    <3>1. PICK r \in ciRuns :
              r.out # "waiting"
              /\ SetRun(r, [r EXCEPT !.ctx = IF r.out = "running" THEN "pending" ELSE r.out])
      BY <2>4 DEF ContextShows
    <3>2. [r EXCEPT !.ctx = IF r.out = "running" THEN "pending" ELSE r.out] \in CiRun
      BY <2>0, <3>1 DEF CiRun
    <3>3. QED BY <2>0, <3>1, <3>2 DEF SetRun
  <2>5. CASE UNCHANGED ciRuns
    BY <2>0, <2>5
  <2>6. QED BY <2>1, <2>2, <2>3, <2>4, <2>5 DEF StrayFails, PermissionsMove
<1>3. look' \in Look /\ UNCHANGED <<shown, approvals>>
  BY Pushed DEF ForkTypeOK, TriggerAgain, RunConcludes, ContextShows, RerunWorkflow,
                StrayFails, PermissionsMove
<1>4. QED BY <1>0, <1>1, <1>2, <1>3 DEF ForkTypeOK

\* What the job says on the card, and where it goes, is well typed.
LEMMA AwayType == Away \in Look
<1>1. 0 \in Heads
  BY ForkAssumption DEF Heads
<1>2. QED BY <1>1 DEF Away, Look, Buckets

\* The card after a job.
LEMMA SaysType ==
    ASSUME shown \in Shown, look \in Look,
           \/ SaysRead \/ UNCHANGED shown
           \/ \E kind \in {"pr-review", "ci-approval"} : SaysUnknown(kind)
    PROVE  shown' \in Shown
<1>1. CASE SaysRead
  <2>1. PICK kind \in {"pr-review", "ci-approval"}, ready \in BOOLEAN, p \in BOOLEAN :
            shown' = [kind |-> kind, ready |-> ready, proven |-> p]
    BY <1>1, Zenon DEF SaysRead
  <2>2. QED BY <2>1 DEF Shown
<1>2. CASE \E kind \in {"pr-review", "ci-approval"} : SaysUnknown(kind)
  BY <1>2 DEF SaysUnknown, Shown
<1>3. QED BY <1>1, <1>2

\* A job that reads again, and one that stays but for its stage.
LEMMA GoType ==
    ASSUME look \in Look
    PROVE  /\ GoHome \/ ReadAgain => look' \in Look
           /\ \A at \in {"read", "fetch", "list", "approve"} :
                 GoOn(at) => look' \in Look /\ look'.head = look.head
                             /\ look'.todo = look.todo /\ look'.at = at
                             /\ look'.fresh = look.fresh /\ look'.bucket = look.bucket
                             /\ look'.proven = look.proven /\ look'.back = look.back
<1>1. ExactRead \in Look
  <2>1. look.head \in Heads
    BY DEF Look
  <2>2. ExactRead = [Away EXCEPT !.at = "read", !.exact = TRUE, !.head = look.head]
    BY DEF ExactRead
  <2>3. QED BY <2>1, <2>2, AwayType DEF Look
<1>2. GoHome \/ ReadAgain => look' \in Look
  BY <1>1, AwayType DEF GoHome, ReadAgain
<1>3. QED BY <1>2 DEF GoOn, Look

\* A job that is over, or that reads again, holds nothing.
LEMMA HomeOrRead ==
    ASSUME GoHome \/ ReadAgain
    PROVE  look'.at \in {"idle", "read"} /\ ~look'.fresh
<1>1. Away.at = "idle" /\ ~Away.fresh /\ ExactRead.at = "read" /\ ~ExactRead.fresh
  BY DEF Away, ExactRead
<1>2. CASE GoHome
  BY <1>1, <1>2 DEF GoHome
<1>3. CASE ReadAgain
  BY <1>1, <1>3 DEF ReadAgain
<1>4. QED BY <1>2, <1>3

\* What approve_ci leaves behind is well typed, and the job is over or reads.
LEMMA ConcludeType ==
    ASSUME look \in Look, shown \in Shown,
           NEW status \in {"approved", "noop", "hold", "error"}, Conclude(status)
    PROVE  /\ look' \in Look /\ shown' \in Shown
           /\ GoHome \/ ReadAgain
           /\ \/ UNCHANGED shown
              \/ SaysUnknown("ci-approval")
              \/ SaysRead /\ look.strict
<1>1. /\ GoHome \/ ReadAgain
      /\ \/ UNCHANGED shown
         \/ SaysUnknown("ci-approval")
         \/ SaysRead /\ look.strict
  <2>0. look.strict \in BOOLEAN
    BY DEF Look
  <2>1. CASE ~look.strict
    BY <2>1 DEF Conclude
  <2>2. CASE look.strict /\ status = "approved"
    BY <2>2 DEF Conclude
  <2>3. CASE look.strict /\ status = "noop"
    BY <2>3 DEF Conclude
  <2>4. CASE look.strict /\ status = "hold"
    BY <2>4 DEF Conclude
  <2>5. CASE look.strict /\ status = "error"
    BY <2>5 DEF Conclude
  <2>6. QED BY <2>0, <2>1, <2>2, <2>3, <2>4, <2>5
<1>2. QED BY <1>1, GoType, SaysType

\* What is read of the contexts of a head are contexts.
LEMMA ReadContextsType ==
    ASSUME ciRuns \subseteq CiRun, NEW h, NEW cut \in BOOLEAN
    PROVE  AsRead(ContextsOf(h), cut) \subseteq Context
<1>1. ContextsOf(h) \subseteq Context
  <2>1. \A r \in ciRuns : r.ctx # "absent" =>
            [n |-> r.n, wf |-> r.wf, ctx |-> r.ctx] \in Context
    BY DEF CiRun, Context
  <2>2. QED BY <2>1 DEF ContextsOf, OfHead
<1>2. QED BY <1>1 DEF AsRead

\* A step of the job that reads keeps the types.
LEMMA ReadsType ==
    ASSUME ForkTypeOK,
           StartLook \/ StartApproval \/ ReadPr \/ ReadRuns \/ ListWaiting
           \/ RouteTarget \/ ProjectExact
    PROVE  ForkTypeOK'
<1>0. /\ look \in Look /\ shown \in Shown /\ fork \in Fork /\ ciRuns \subseteq CiRun
      /\ look.head \in Heads /\ fork.head \in Heads
  BY DEF ForkTypeOK, Look, Fork
<1>1. UNCHANGED <<fork, ciRuns, approvals, unasked>>
  BY DEF StartLook, StartApproval, ReadPr, ReadRuns, ListWaiting, RouteTarget, ProjectExact
<1>2. CASE StartLook
  <2>1. look' = [Away EXCEPT !.at = "read"]
    BY <1>2 DEF StartLook
  <2>2. look' \in Look
    BY <2>1, AwayType DEF Look
  <2>3. QED BY <1>1, <1>2, <2>2 DEF StartLook, ForkTypeOK
<1>3. CASE StartApproval
  <2>1. look' = [Away EXCEPT !.at = "fetch", !.strict = FALSE]
    BY <1>3 DEF StartApproval
  <2>2. look' \in Look
    BY <2>1, AwayType DEF Look
  <2>3. QED BY <1>1, <1>3, <2>2 DEF StartApproval, ForkTypeOK
<1>4. CASE ReadPr
  <2>1. CASE SaysUnknown("pr-review") /\ GoHome
    BY <1>0, <1>1, <2>1, GoType, SaysType DEF ForkTypeOK
  <2>2. CASE /\ UNCHANGED shown
             /\ look' = [look EXCEPT !.at = "route", !.head = fork.head,
                                     !.bucket = "maintainer-edits-required"]
    <3>1. look' \in Look
      BY <1>0, <2>2 DEF Look, Buckets
    <3>2. QED BY <1>1, <2>2, <3>1 DEF ForkTypeOK
  <2>3. ASSUME NEW cut \in BOOLEAN, UNCHANGED shown,
               look' = [look EXCEPT
                   !.at = "runs", !.head = fork.head, !.bucket = "ci-state-unknown",
                   !.kept = AsRead(ContextsOf(fork.head), cut), !.cut = cut,
                   !.stray = fork.head \in fork.stray]
        PROVE  ForkTypeOK'
    <3> DEFINE kept == AsRead(ContextsOf(fork.head), cut)
               stray == fork.head \in fork.stray
    <3>1. kept \in SUBSET Context /\ stray \in BOOLEAN
      BY <1>0, ReadContextsType
    <3>2. look' = [look EXCEPT
                   !.at = "runs", !.head = fork.head, !.bucket = "ci-state-unknown",
                   !.kept = kept, !.cut = cut, !.stray = stray]
      BY <2>3
    <3> HIDE DEF kept, stray
    <3>3. look' \in Look
      BY <1>0, <3>1, <3>2 DEF Look, Buckets
    <3>4. QED BY <1>1, <2>3, <3>3 DEF ForkTypeOK
  <2>4. QED BY <1>4, <2>1, <2>2, <2>3 DEF ReadPr
<1>5. CASE ReadRuns
  <2>1. PICK o \in Replies \ {"landed"} :
          LET snap   == look.kept
              whole  == ~look.cut
              listed == {r \in OfHead(look.head) : r.wf = "compliance"}
              complete == o = "done" /\ whole /\ EvidenceComplete(snap, listed)
              comp == Compliance(fork.mode, snap, whole, complete, listed, look.stray)
              ci == look.stray \/ snap # {}
              bucket == Classify(comp, TestState(snap), ci)
              ready == bucket = "merge-ready"
          IN  look' = [look EXCEPT
                 !.at = "waits", !.kept = {}, !.cut = FALSE, !.stray = FALSE,
                 !.bucket = bucket,
                 !.fresh = ready /\ ChecksComplete(whole, fork.mode = "event" => complete),
                 !.proven = ready /\ Proven(fork.mode, snap, listed, look.stray)]
    BY <1>5 DEF ReadRuns
  <2>2. \A comp, ci : Classify(comp, TestState(look.kept), ci) \in Buckets
    <3> DEFINE tests == TestState(look.kept)
    <3>1. tests \in {"none", "pass", "fail", "pending"}
      BY DEF TestState, Reduce
    <3> HIDE DEF tests
    <3>2. \A comp, ci : Classify(comp, tests, ci) \in Buckets
      BY <3>1 DEF Classify, Buckets
    <3>3. QED BY <3>2 DEF tests
  <2>3. PICK b \in Buckets, f \in BOOLEAN, p \in BOOLEAN :
          look' = [look EXCEPT
                 !.at = "waits", !.kept = {}, !.cut = FALSE, !.stray = FALSE,
                 !.bucket = b, !.fresh = f, !.proven = p]
    BY <2>1, <2>2, Zenon
  <2>4. look' \in Look
    BY <1>0, <2>3 DEF Look
  <2>5. UNCHANGED shown
    BY <1>5 DEF ReadRuns
  <2>6. QED BY <1>1, <2>4, <2>5 DEF ForkTypeOK
<1>6. CASE ListWaiting
  <2>1. CASE GoHome /\ (SaysUnknown("pr-review") \/ UNCHANGED shown)
    BY <1>0, <1>1, <2>1, GoType, SaysType DEF ForkTypeOK
  <2>2. CASE /\ UNCHANGED shown
             /\ look' = [look EXCEPT
                   !.at = "route",
                   !.bucket = IF WaitingRuns(look.head) = {} THEN @
                              ELSE "needs-ci-approval",
                   !.fresh = @ /\ WaitingRuns(look.head) = {},
                   !.proven = @ /\ WaitingRuns(look.head) = {}]
    <3>1. CASE WaitingRuns(look.head) = {}
      <4>1. look' = [look EXCEPT !.at = "route"]
        BY <1>0, <2>2, <3>1 DEF Look
      <4>2. look' \in Look
        BY <1>0, <4>1 DEF Look
      <4>3. QED BY <1>1, <2>2, <4>2 DEF ForkTypeOK
    <3>2. CASE WaitingRuns(look.head) # {}
      <4>1. look' = [look EXCEPT !.at = "route", !.bucket = "needs-ci-approval",
                                 !.fresh = FALSE, !.proven = FALSE]
        BY <1>0, <2>2, <3>2 DEF Look
      <4>2. look' \in Look
        BY <1>0, <4>1 DEF Look, Buckets
      <4>3. QED BY <1>1, <2>2, <4>2 DEF ForkTypeOK
    <3>3. QED BY <3>1, <3>2
  <2>3. QED BY <1>6, <2>1, <2>2 DEF ListWaiting
<1>7. CASE RouteTarget \/ ProjectExact
  <2>1. GoHome \/ ReadAgain \/ GoOn("fetch")
    BY <1>7 DEF RouteTarget, ProjectExact
  <2>2. SaysRead \/ SaysUnknown("pr-review") \/ UNCHANGED shown
    BY <1>7 DEF RouteTarget, ProjectExact
  <2>3. look' \in Look
    BY <1>0, <2>1, GoType
  <2>4. shown' \in Shown
    BY <1>0, <2>2, SaysType
  <2>5. QED BY <1>1, <2>3, <2>4 DEF ForkTypeOK
<1>8. QED BY <1>2, <1>3, <1>4, <1>5, <1>6, <1>7

\* How the steps of approve_ci leave the job: over, or at the next step.
LEMMA ApproveGoes ==
    ASSUME ForkTypeOK,
           FetchHead \/ VetHead \/ ListMatching \/ CheckSource \/ ApproveRun
    PROVE  \/ \E status \in {"approved", "noop", "hold", "error"} : Conclude(status)
           \/ /\ FetchHead /\ UNCHANGED shown
              /\ look' = [look EXCEPT !.at = "vet", !.head = fork.head]
           \/ /\ VetHead /\ UNCHANGED shown /\ ~RiskyNow /\ GoOn("list")
           \/ /\ ListMatching /\ UNCHANGED shown
              /\ look' = [look EXCEPT !.at = "source", !.todo = WaitingRuns(look.head)]
           \/ /\ CheckSource /\ UNCHANGED shown /\ SourceStands /\ GoOn("approve")
           \/ /\ ApproveRun /\ UNCHANGED shown
              /\ \E n \in look.todo, bad \in BOOLEAN :
                    look' = [look EXCEPT !.at = "source", !.todo = @ \ {n}, !.failed = bad]
<1>1. CASE FetchHead
  BY <1>1 DEF FetchHead
<1>2. CASE VetHead
  BY <1>2 DEF VetHead
<1>3. CASE ListMatching
  BY <1>3 DEF ListMatching
<1>4. CASE CheckSource
  BY <1>4 DEF CheckSource
<1>5. CASE ApproveRun
  <2>1. PICK n \in look.todo, o \in Replies :
          LET hit == {r \in ciRuns : r.n = n /\ r.out = "waiting"}
              rest == look.todo \ {n}
              bad == look.failed \/ o # "done" \/ hit = {}
          IN  IF rest = {}
              THEN Conclude(IF bad THEN "error" ELSE "approved")
              ELSE /\ look' = [look EXCEPT !.at = "source", !.todo = rest,
                                           !.failed = bad]
                   /\ UNCHANGED shown
    BY <1>5 DEF ApproveRun
  <2>2. CASE look.todo \ {n} = {}
    BY <2>1, <2>2
  <2>3. CASE look.todo \ {n} # {}
    <3>1. \E bad \in BOOLEAN :
             /\ look' = [look EXCEPT !.at = "source", !.todo = @ \ {n}, !.failed = bad]
             /\ UNCHANGED shown
      BY <2>1, <2>3, Zenon
    <3>2. QED BY <1>5, <3>1
  <2>4. QED BY <2>2, <2>3
<1>6. QED BY <1>1, <1>2, <1>3, <1>4, <1>5

\* A step of approve_ci keeps the types.
LEMMA ApprovesType ==
    ASSUME ForkTypeOK,
           FetchHead \/ VetHead \/ ListMatching \/ CheckSource \/ ApproveRun
    PROVE  ForkTypeOK'
<1>0. /\ look \in Look /\ shown \in Shown /\ fork \in Fork /\ ciRuns \subseteq CiRun
      /\ look.head \in Heads /\ fork.head \in Heads /\ look.todo \subseteq 1..MaxRuns
      /\ approvals \subseteq [head: Heads, back: BOOLEAN] /\ look.back \in BOOLEAN
  BY DEF ForkTypeOK, Look, Fork
<1>1. UNCHANGED <<fork, unasked>>
  BY DEF FetchHead, VetHead, ListMatching, CheckSource, ApproveRun
<1>2. ciRuns' \subseteq CiRun /\ approvals' \subseteq [head: Heads, back: BOOLEAN]
  <2>1. CASE UNCHANGED <<ciRuns, approvals>>
    BY <1>0, <2>1
  <2>2. ASSUME NEW hit, hit \subseteq ciRuns,
               ciRuns' = (ciRuns \ hit) \cup {Moved(r, "running") : r \in hit},
               approvals' = approvals \cup {[head |-> r.head, back |-> look.back] : r \in hit}
        PROVE  ciRuns' \subseteq CiRun /\ approvals' \subseteq [head: Heads, back: BOOLEAN]
    <3>1. \A r \in hit : r.head \in Heads /\ Moved(r, "running") \in CiRun
      BY <1>0, <2>2, MovedType DEF CiRun
    <3>2. QED BY <1>0, <2>2, <3>1
  <2>3. CASE ApproveRun
    <3>1. PICK n \in look.todo, o \in Replies :
            LET hit == {r \in ciRuns : r.n = n /\ r.out = "waiting"}
            IN  IF o = "failed" THEN UNCHANGED <<ciRuns, approvals>>
                ELSE /\ ciRuns' = (ciRuns \ hit) \cup {Moved(r, "running") : r \in hit}
                     /\ approvals' = approvals \cup
                            {[head |-> r.head, back |-> look.back] : r \in hit}
      BY <2>3, Zenon DEF ApproveRun
    <3>2. {r \in ciRuns : r.n = n /\ r.out = "waiting"} \subseteq ciRuns
      OBVIOUS
    <3>3. CASE o = "failed"
      BY <2>1, <3>1, <3>3
    <3>4. CASE o # "failed"
      BY <2>2, <3>1, <3>2, <3>4
    <3>5. QED BY <3>3, <3>4
  <2>4. QED BY <2>1, <2>3 DEF FetchHead, VetHead, ListMatching, CheckSource
<1>3. look' \in Look /\ shown' \in Shown
  <2>1. CASE \E status \in {"approved", "noop", "hold", "error"} : Conclude(status)
    BY <1>0, <2>1, ConcludeType
  <2>2. CASE UNCHANGED shown /\ look' = [look EXCEPT !.at = "vet", !.head = fork.head]
    BY <1>0, <2>2 DEF Look
  <2>3. CASE UNCHANGED shown /\ (GoOn("list") \/ GoOn("approve"))
    BY <1>0, <2>3, GoType
  <2>4. CASE /\ UNCHANGED shown
             /\ look' = [look EXCEPT !.at = "source", !.todo = WaitingRuns(look.head)]
    <3>1. WaitingRuns(look.head) \subseteq 1..MaxRuns
      BY <1>0 DEF WaitingRuns, OfHead, CiRun
    <3>2. QED BY <1>0, <2>4, <3>1 DEF Look
  <2>5. ASSUME UNCHANGED shown, NEW n \in look.todo, NEW bad \in BOOLEAN,
               look' = [look EXCEPT !.at = "source", !.todo = @ \ {n}, !.failed = bad]
        PROVE  look' \in Look /\ shown' \in Shown
    BY <1>0, <2>5 DEF Look
  <2>6. QED BY <2>1, <2>2, <2>3, <2>4, <2>5, ApproveGoes
<1>4. QED BY <1>1, <1>2, <1>3 DEF ForkTypeOK

\* The states of the pull request, its runs, the job and the card are what their
\* names say (wheelhouse_core.build_repo, approve_ci).
THEOREM ForkTypeCorrect == ForkSpec => []ForkTypeOK
<1>1. ForkInit => ForkTypeOK
  <2> SUFFICES ASSUME ForkInit PROVE ForkTypeOK
    OBVIOUS
  <2>1. /\ 0 \in Heads /\ 1 \in 1..MaxRuns /\ 2 \in 1..MaxRuns
        /\ MaxEvents \in 0..MaxEvents
    BY ForkAssumption DEF Heads
  <2>2. fork \in Fork
    <3>1. PICK risky \in SUBSET Heads, mode \in Modes :
              fork = [head |-> 0, risky |-> risky, editable |-> TRUE,
                      baseSafe |-> TRUE, stray |-> {}, mode |-> mode]
      BY DEF ForkInit
    <3>2. QED BY <2>1, <3>1 DEF Fork
  <2>3. ciRuns \subseteq CiRun
    BY <2>1, NewRunType DEF ForkInit
  <2>4. QED BY <2>1, <2>2, <2>3, AwayType DEF ForkInit, ForkTypeOK, Shown
<1>2. ForkTypeOK /\ [ForkNext]_forkVars => ForkTypeOK'
  <2> SUFFICES ASSUME ForkTypeOK, [ForkNext]_forkVars PROVE ForkTypeOK'
    OBVIOUS
  <2>1. CASE UNCHANGED forkVars
    BY <2>1 DEF forkVars, ForkTypeOK
  <2>2. QED BY <2>1, ForkOthersType, ReadsType, ApprovesType DEF ForkNext
<1>3. QED BY <1>1, <1>2, PTL DEF ForkSpec

-----------------------------------------------------------------------------
\* The contributor, GitHub Actions and the base do not undo what the job vetted.
LEMMA OthersVetted ==
    ASSUME ForkTypeOK, VetInv,
           PushHead \/ TriggerAgain \/ RunConcludes \/ ContextShows
           \/ RerunWorkflow \/ StrayFails \/ PermissionsMove
    PROVE  VetInv'
<1>0. /\ ciRuns \subseteq CiRun /\ look \in Look /\ fork \in Fork
      /\ \A r \in ciRuns : r.n \in Nat /\ r.n <= Last
      /\ Last \in Nat
  BY LastIsLast, ForkAssumption DEF ForkTypeOK, CiRun
<1>1. /\ UNCHANGED approvals /\ fork'.risky = fork.risky
      /\ look'.at = look.at /\ look'.head = look.head /\ look'.todo = look.todo
  <2>1. CASE PushHead
    BY <2>1, Pushed
  <2>2. CASE ~PushHead
    BY <1>0, <2>2 DEF TriggerAgain, RunConcludes, ContextShows, RerunWorkflow,
                      StrayFails, PermissionsMove, Fork
  <2>3. QED BY <2>1, <2>2
\* the head stays or comes back, and the job's head with it
<1>2. /\ look.back => look'.back
      /\ look.at \in Vetting => \/ look.head # fork'.head
                                \/ look'.back
                                \/ fork'.head = fork.head
  <2>1. CASE PushHead
    BY <2>1, Pushed
  <2>2. CASE ~PushHead
    BY <1>0, <2>2 DEF TriggerAgain, RunConcludes, ContextShows, RerunWorkflow,
                      StrayFails, PermissionsMove, Fork
  <2>3. QED BY <2>1, <2>2
\* a run that waits goes on waiting
<1>3. \A r \in ciRuns : r.out = "waiting" => r \in ciRuns'
  BY DEF PushHead, TriggerAgain, RunConcludes, ContextShows, RerunWorkflow, StrayFails,
         PermissionsMove, SetRun
<1>4. RunsAreDistinct'
  <2>1. ASSUME NEW r, ciRuns' = ciRuns \cup {r}, r.n = Last + 1
        PROVE  RunsAreDistinct'
    <3>1. \A s \in ciRuns' : s \in ciRuns \/ s = r
      BY <2>1
    <3>2. \A s \in ciRuns : s.n # Last + 1
      BY <1>0
    <3>3. QED BY <2>1, <3>1, <3>2 DEF VetInv, RunsAreDistinct
  <2>2. ASSUME NEW r \in ciRuns, NEW s, SetRun(r, s), s.n = r.n
        PROVE  RunsAreDistinct'
    <3>1. \A t \in ciRuns' : (t \in ciRuns /\ t # r) \/ t = s
      BY <2>2 DEF SetRun
    <3>2. QED BY <2>2, <3>1 DEF VetInv, RunsAreDistinct
  <2>3. CASE PushHead /\ ciRuns' # ciRuns
    <3>1. PICK h \in Heads : ciRuns' = ciRuns \cup {NewRun(Last + 1, "compliance", h)}
      BY <2>3, Pushed
    <3>2. NewRun(Last + 1, "compliance", h).n = Last + 1
      BY DEF NewRun
    <3>3. QED BY <2>1, <3>1, <3>2
  <2>4. CASE TriggerAgain
    <3>1. PICK wf \in {"compliance", "tests"} :
            ciRuns' = ciRuns \cup {[n |-> Last + 1, wf |-> wf,
                                    head |-> fork.head, out |-> "running",
                                    ctx |-> IF wf = "tests" THEN "pending"
                                            ELSE "absent"]}
      BY <2>4 DEF TriggerAgain
    <3> DEFINE new == [n |-> Last + 1, wf |-> wf,
                       head |-> fork.head, out |-> "running",
                       ctx |-> IF wf = "tests" THEN "pending" ELSE "absent"]
    <3>2. new.n = Last + 1 /\ ciRuns' = ciRuns \cup {new}
      BY <3>1
    <3> HIDE DEF new
    <3>3. QED BY <2>1, <3>2
  <2>5. CASE RunConcludes \/ RerunWorkflow
    <3>1. PICK r \in ciRuns, out \in {"running", "pass", "fail", "cancelled"} :
              SetRun(r, Moved(r, out))
      BY <2>5 DEF RunConcludes, RerunWorkflow
    <3>2. QED BY <1>0, <2>2, <3>1, MovedType
  <2>6. CASE ContextShows
    <3>1. PICK r \in ciRuns :
              SetRun(r, [r EXCEPT !.ctx = IF r.out = "running" THEN "pending" ELSE r.out])
      BY <2>6 DEF ContextShows
    <3>2. QED BY <1>0, <2>2, <3>1 DEF CiRun
  <2>7. CASE UNCHANGED ciRuns
    BY <2>7 DEF VetInv, RunsAreDistinct
  <2>8. QED BY <2>3, <2>4, <2>5, <2>6, <2>7 DEF StrayFails, PermissionsMove
<1>5. VettedHead'
  <2>1. VettedHead
    BY DEF VetInv
  <2>2. look'.at \in {"list", "source"} =>
            (look'.head \in fork'.risky => look'.head # fork'.head \/ look'.back)
    BY <1>1, <1>2, <2>1 DEF VettedHead, Vetting
  <2>3. look'.at = "approve" => (look'.head \in fork'.risky => look'.back)
    BY <1>1, <1>2, <2>1 DEF VettedHead
  <2>4. look'.at \in {"source", "approve"} =>
          \A n \in look'.todo : \E r \in ciRuns' :
              r.n = n /\ r.out = "waiting" /\ r.head = look'.head
    BY <1>1, <1>3, <2>1 DEF VettedHead
  <2>5. QED BY <2>2, <2>3, <2>4 DEF VettedHead
<1>6. ApprovedRunsWereVetted'
  BY <1>1 DEF VetInv, ApprovedRunsWereVetted
<1>7. QED BY <1>4, <1>5, <1>6 DEF VetInv

\* The reading half of the job holds no run and vets nothing; it drops what it had.
LEMMA ReadsVetted ==
    ASSUME ForkTypeOK, VetInv,
           StartLook \/ StartApproval \/ ReadPr \/ ReadRuns \/ ListWaiting
           \/ RouteTarget \/ ProjectExact
    PROVE  VetInv'
<1>1. /\ UNCHANGED <<fork, ciRuns, approvals>>
      /\ look'.at \in {"idle", "read", "runs", "waits", "route", "fetch"}
  <2>1. /\ UNCHANGED <<fork, ciRuns, approvals>>
        /\ look \in Look
    BY DEF StartLook, StartApproval, ReadPr, ReadRuns, ListWaiting, RouteTarget,
           ProjectExact, ForkTypeOK
  <2>2. Away.at = "idle" /\ ExactRead.at = "read"
    BY DEF Away, ExactRead
  <2>3. CASE StartLook \/ StartApproval
    BY <2>1, <2>3 DEF StartLook, StartApproval, Away
  <2>4. CASE ReadPr
    BY <2>1, <2>2, <2>4 DEF ReadPr, GoHome, Look
  <2>5. CASE ReadRuns
    BY <2>1, <2>5 DEF ReadRuns, Look
  <2>6. CASE ListWaiting
    BY <2>1, <2>2, <2>6 DEF ListWaiting, GoHome, Look
  <2>7. CASE RouteTarget \/ ProjectExact
    BY <2>1, <2>2, <2>7 DEF RouteTarget, ProjectExact, GoHome, GoOn, ReadAgain, Look
  <2>8. QED BY <2>1, <2>3, <2>4, <2>5, <2>6, <2>7
<1>2. QED BY <1>1 DEF VetInv, RunsAreDistinct, VettedHead, ApprovedRunsWereVetted

\* approve_ci vets a head, and finds out before each approval whether the pull
\* request still has it.
LEMMA ApprovesVetted ==
    ASSUME ForkTypeOK, VetInv,
           FetchHead \/ VetHead \/ ListMatching \/ CheckSource \/ ApproveRun
    PROVE  VetInv'
<1>0. look \in Look /\ UNCHANGED fork /\ ciRuns \subseteq CiRun
  BY DEF ForkTypeOK, FetchHead, VetHead, ListMatching, CheckSource, ApproveRun
<1>1. CASE ApproveRun
  <2>0. look.at = "approve" /\ (look.head \in fork.risky => look.back)
    BY <1>1 DEF ApproveRun, VetInv, VettedHead
  <2>1. PICK n \in look.todo, o \in Replies :
          LET hit == {r \in ciRuns : r.n = n /\ r.out = "waiting"}
              rest == look.todo \ {n}
              bad == look.failed \/ o # "done" \/ hit = {}
          IN  /\ IF o = "failed" THEN UNCHANGED <<ciRuns, approvals>>
                 ELSE /\ ciRuns' = (ciRuns \ hit) \cup
                                     {Moved(r, "running") : r \in hit}
                      /\ approvals' = approvals \cup
                            {[head |-> r.head, back |-> look.back] : r \in hit}
              /\ IF rest = {}
                 THEN Conclude(IF bad THEN "error" ELSE "approved")
                 ELSE /\ look' = [look EXCEPT !.at = "source", !.todo = rest,
                                              !.failed = bad]
                      /\ UNCHANGED shown
    BY <1>1 DEF ApproveRun
  <2> DEFINE hit == {r \in ciRuns : r.n = n /\ r.out = "waiting"}
  \* the approved run waits at the head of the job
  <2>2. \A r \in hit : r.head = look.head /\ r \in ciRuns /\ r.n = n
    <3>1. PICK s \in ciRuns : s.n = n /\ s.head = look.head
      BY <2>0 DEF VetInv, VettedHead
    <3>2. QED BY <3>1 DEF VetInv, RunsAreDistinct
  <2>3. /\ ciRuns' \subseteq (ciRuns \ hit) \cup {Moved(r, "running") : r \in hit}
           \/ UNCHANGED ciRuns
        /\ \A r \in ciRuns : r.n # n => r \in ciRuns'
        /\ approvals' \subseteq approvals \cup {[head |-> look.head, back |-> look.back]}
    <3>1. CASE o = "failed"
      BY <2>1, <3>1
    <3>2. CASE o # "failed"
      BY <2>1, <2>2, <3>2
    <3>3. QED BY <3>1, <3>2
  <2>4. \A r \in hit : Moved(r, "running").n = n /\ Moved(r, "running").head = look.head
    BY <1>0, <2>2, MovedType
  <2>5. RunsAreDistinct'
    <3>1. CASE UNCHANGED ciRuns
      BY <1>0, <3>1 DEF VetInv, RunsAreDistinct
    <3>2. CASE ciRuns' \subseteq (ciRuns \ hit) \cup {Moved(r, "running") : r \in hit}
      <4>1. \A r, s \in hit : r = s
        BY <2>2 DEF VetInv, RunsAreDistinct
      <4>2. \A r \in ciRuns \ hit, s \in hit : r.n # s.n
        BY <2>2 DEF VetInv, RunsAreDistinct
      <4> HIDE DEF hit
      <4>3. \A t \in ciRuns' : \/ t \in ciRuns \ hit
                               \/ \E r \in hit : t = Moved(r, "running")
        BY <3>2
      <4>4. ASSUME NEW t \in ciRuns', NEW u \in ciRuns', t.n = u.n PROVE t = u
        <5>1. CASE t \in ciRuns \ hit /\ u \in ciRuns \ hit
          BY <4>4, <5>1 DEF VetInv, RunsAreDistinct
        <5>2. CASE t \in ciRuns \ hit /\ \E r \in hit : u = Moved(r, "running")
          BY <2>2, <2>4, <4>2, <4>4, <5>2
        <5>3. CASE u \in ciRuns \ hit /\ \E r \in hit : t = Moved(r, "running")
          BY <2>2, <2>4, <4>2, <4>4, <5>3
        <5>4. CASE (\E r \in hit : t = Moved(r, "running"))
                   /\ \E r \in hit : u = Moved(r, "running")
          BY <4>1, <5>4
        <5>5. QED BY <4>3, <5>1, <5>2, <5>3, <5>4
      <4>5. QED BY <4>4 DEF RunsAreDistinct
    <3>3. QED BY <2>3, <3>1, <3>2
  <2>6. ApprovedRunsWereVetted'
    BY <1>0, <2>0, <2>3 DEF VetInv, ApprovedRunsWereVetted
  <2>7. VettedHead'
    <3>1. CASE look'.at \in {"idle", "read"}
      BY <3>1 DEF VettedHead
    <3>2. CASE \E bad \in BOOLEAN :
                  look' = [look EXCEPT !.at = "source", !.todo = look.todo \ {n},
                                       !.failed = bad]
      <4>1. /\ look'.at = "source" /\ look'.head = look.head
            /\ look'.todo = look.todo \ {n} /\ look'.back = look.back
        BY <1>0, <3>2 DEF Look
      <4>2. \A m \in look'.todo : \E r \in ciRuns' :
                r.n = m /\ r.out = "waiting" /\ r.head = look'.head
        BY <2>0, <2>3, <4>1 DEF VetInv, VettedHead
      <4>3. QED BY <1>0, <2>0, <4>1, <4>2 DEF VettedHead
    <3>3. CASE \E status \in {"approved", "error"} : Conclude(status)
      <4>1. shown \in Shown
        BY DEF ForkTypeOK
      <4>2. GoHome \/ ReadAgain
        BY <1>0, <3>3, <4>1, ConcludeType
      <4>3. look'.at \in {"idle", "read"}
        BY <4>2, HomeOrRead
      <4>4. QED BY <3>1, <4>3
    <3>4. QED
      <4>1. CASE look.todo \ {n} = {}
        BY <2>1, <3>3, <4>1
      <4>2. CASE look.todo \ {n} # {}
        BY <2>1, <3>2, <4>2, Zenon
      <4>3. QED BY <4>1, <4>2
  <2>8. QED BY <2>5, <2>6, <2>7 DEF VetInv
<1>2. CASE FetchHead \/ VetHead \/ ListMatching \/ CheckSource
  <2>1. UNCHANGED <<ciRuns, approvals>>
    BY <1>2 DEF FetchHead, VetHead, ListMatching, CheckSource
  <2>2. VettedHead'
    <3>1. CASE look'.at \in {"idle", "read"}
      BY <3>1 DEF VettedHead
    <3>2. CASE look' = [look EXCEPT !.at = "vet", !.head = fork.head]
      <4>1. look'.at = "vet" /\ look'.head = fork.head
        BY <1>0, <3>2 DEF Look
      <4>2. QED BY <1>0, <4>1 DEF VettedHead
    <3>3. CASE VetHead /\ ~RiskyNow /\ GoOn("list")
      <4>1. look'.at = "list" /\ look'.head = look.head
        BY <1>0, <3>3, GoType
      <4>2. fork.head \notin fork.risky
        BY <3>3 DEF RiskyNow, RiskyFiles
      <4>3. QED BY <1>0, <4>1, <4>2 DEF VettedHead
    <3>4. CASE ListMatching /\ look' = [look EXCEPT !.at = "source",
                                                    !.todo = WaitingRuns(look.head)]
      <4>1. /\ look'.at = "source" /\ look'.head = look.head /\ look.at = "list"
            /\ look'.todo = WaitingRuns(look.head) /\ look'.back = look.back
        BY <1>0, <3>4 DEF Look, ListMatching
      <4>2. \A n \in look'.todo : \E r \in ciRuns' :
                r.n = n /\ r.out = "waiting" /\ r.head = look'.head
        BY <2>1, <4>1 DEF WaitingRuns, OfHead
      <4>3. QED BY <1>0, <4>1, <4>2 DEF VetInv, VettedHead
    <3>5. CASE CheckSource /\ SourceStands /\ GoOn("approve")
      <4>1. /\ look'.at = "approve" /\ look'.head = look.head /\ look.at = "source"
            /\ look'.todo = look.todo /\ look'.back = look.back
        BY <1>0, <3>5, GoType DEF CheckSource
      <4>2. look.head = fork.head
        BY <3>5 DEF SourceStands
      <4>3. QED BY <1>0, <2>1, <4>1, <4>2 DEF VetInv, VettedHead
    <3>6. CASE \E status \in {"approved", "noop", "hold", "error"} : Conclude(status)
      <4>1. shown \in Shown
        BY DEF ForkTypeOK
      <4>2. GoHome \/ ReadAgain
        BY <1>0, <3>6, <4>1, ConcludeType
      <4>3. look'.at \in {"idle", "read"}
        BY <4>2, HomeOrRead
      <4>4. QED BY <3>1, <4>3
    <3>7. ~ApproveRun
      BY <1>2 DEF ApproveRun, FetchHead, VetHead, ListMatching, CheckSource
    <3>8. QED BY <1>2, <3>2, <3>3, <3>4, <3>5, <3>6, <3>7, ApproveGoes
  <2>3. QED
    BY <1>0, <2>1, <2>2 DEF VetInv, RunsAreDistinct, ApprovedRunsWereVetted
<1>3. QED BY <1>1, <1>2

\* No run of a head that changes what CI executes is ever approved
\* (wheelhouse_core.approve_ci), whatever is pushed between its calls, but of a
\* head that the pull request left and had again in the middle of the vetting.
THEOREM ApprovedRunsAreVetted == ForkSpec => []ApprovedRunsWereVetted
<1>1. ForkInit => VetInv
  BY DEF ForkInit, VetInv, RunsAreDistinct, VettedHead, ApprovedRunsWereVetted, NewRun, Away
<1>2. ForkTypeOK /\ VetInv /\ [ForkNext]_forkVars => VetInv'
  <2> SUFFICES ASSUME ForkTypeOK, VetInv, [ForkNext]_forkVars PROVE VetInv'
    OBVIOUS
  <2>1. CASE UNCHANGED forkVars
    BY <2>1 DEF forkVars, VetInv, RunsAreDistinct, VettedHead, ApprovedRunsWereVetted
  <2>2. QED BY <2>1, OthersVetted, ReadsVetted, ApprovesVetted DEF ForkNext
<1>3. VetInv => ApprovedRunsWereVetted
  BY DEF VetInv
<1>4. QED BY <1>1, <1>2, <1>3, ForkTypeCorrect, PTL DEF ForkSpec

-----------------------------------------------------------------------------
(* Fork checks: what merge-ready rests on *)

\* What the job knows of a current merge-ready head was proven by its reads, and
\* an approval is never about such a head.
ReadyInv ==
    /\ look.fresh /\ look.bucket = "merge-ready" => look.proven
    /\ look.strict /\ look.at \in {"fetch", "vet", "list", "source", "approve"} =>
          look.bucket = "needs-ci-approval"
    /\ MergeReadyIsProven

\* check_status and classify say merge-ready of complete reads only if those
\* prove it: a failure that the rollup shows is excused, and never by a stray check.
LEMMA MergeReadyOfReads ==
    ASSUME NEW mode \in Modes, NEW snap, NEW listed, NEW complete \in BOOLEAN,
           NEW stray \in BOOLEAN, NEW ci \in BOOLEAN,
           complete => EvidenceComplete(snap, listed),
           mode = "event" => complete,
           Classify(Compliance(mode, snap, TRUE, complete, listed, stray),
                    TestState(snap), ci) = "merge-ready"
    PROVE  Proven(mode, snap, listed, stray)
<1> DEFINE comp == Compliance(mode, snap, TRUE, complete, listed, stray)
<1>1. comp \notin {"fail", "pending", "missing"} /\ TestState(snap) = "pass"
  <2> DEFINE tests == TestState(snap)
  <2>1. Classify(comp, tests, ci) = "merge-ready"
    OBVIOUS
  <2> HIDE DEF comp, tests
  <2>2. comp \notin {"fail", "pending", "missing"}
    BY <2>1 DEF Classify
  <2>3. tests \in {"none", "pass", "fail", "pending"}
    BY DEF tests, TestState, Reduce
  <2>4. tests = "pass"
    BY <2>1, <2>2, <2>3 DEF Classify
  <2>5. QED BY <2>2, <2>4 DEF tests
<1>2. Passed(CheckOutcomes(snap, "tests"))
  BY <1>1 DEF TestState, Reduce, Passed
<1>3. CASE mode = "event"
  <2>1. comp = LET base == RunOutcome(Latest(listed))
               IN  IF /\ base \in {"pass", "n/a"} /\ RollupFails(snap, stray)
                      /\ ~EventFailureAccounted(snap, listed, stray)
                   THEN "fail" ELSE base
    BY <1>3 DEF Compliance, EventOutcome
  <2>2. Latest(listed).out = "pass"
    BY <1>1, <2>1 DEF RunOutcome
  <2>3. ~stray
    BY <1>1, <2>1, <2>2 DEF RunOutcome, RollupFails, EventFailureAccounted
  <2>4. listed # {}
    BY <1>3 DEF EvidenceComplete
  <2>5. QED BY <1>2, <1>3, <2>2, <2>3, <2>4 DEF Proven
<1>4. CASE mode = "legacy"
  <2> DEFINE outs == CheckOutcomes(snap, "compliance")
  <2>1. comp = LET base == IF outs = {} THEN "missing" ELSE Reduce(outs)
               IN  IF /\ base \in {"pass", "n/a"} /\ RollupFails(snap, stray)
                      /\ ~CancelsAccounted(snap, stray)
                   THEN "fail" ELSE base
    BY <1>4 DEF Compliance
  <2>2. Reduce(outs) = "pass" /\ outs # {}
    BY <1>1, <2>1 DEF Reduce
  <2>3. ~stray
    BY <1>1, <2>1, <2>2 DEF RollupFails, CancelsAccounted
  <2>4. Passed(outs)
    BY <2>2 DEF Reduce, Passed
  <2>5. QED BY <1>2, <1>4, <2>3, <2>4 DEF Proven
<1>5. CASE mode = "none"
  <2>1. comp = IF RollupFails(snap, stray) /\ ~CancelsAccounted(snap, stray)
               THEN "fail" ELSE "n/a"
    BY <1>5 DEF Compliance
  <2>2. ~RollupFails(snap, stray) \/ CancelsAccounted(snap, stray)
    BY <1>1, <2>1
  <2>3. ~stray /\ "fail" \notin CheckOutcomes(snap, "compliance")
    BY <2>2 DEF RollupFails, CancelsAccounted, Excused, CheckOutcomes, Contexts
  <2>4. QED BY <1>2, <1>5, <2>3 DEF Proven
<1>6. QED BY <1>3, <1>4, <1>5 DEF Modes

\* A card made from what the job knows is proven, and one that says unknown
\* claims nothing.
LEMMA SaysIsProven ==
    ASSUME ForkTypeOK, ReadyInv,
           SaysRead \/ SaysUnknown("pr-review") \/ SaysUnknown("ci-approval")
           \/ UNCHANGED shown
    PROVE  MergeReadyIsProven'
<1>1. look.fresh \in BOOLEAN /\ look.proven \in BOOLEAN
  BY DEF ForkTypeOK, Look
<1>2. CASE SaysRead
  <2>1. /\ shown'.ready <=> (look.bucket = "merge-ready" /\ look.fresh)
        /\ shown'.proven <=> (look.bucket = "merge-ready" /\ look.fresh /\ look.proven)
    BY <1>2 DEF SaysRead
  <2>2. QED BY <2>1 DEF ReadyInv, MergeReadyIsProven
<1>3. CASE SaysUnknown("pr-review") \/ SaysUnknown("ci-approval")
  BY <1>3 DEF SaysUnknown, MergeReadyIsProven
<1>4. CASE UNCHANGED shown
  BY <1>4 DEF ReadyInv, MergeReadyIsProven
<1>5. QED BY <1>2, <1>3, <1>4

\* A job that is over or reads again knows nothing, and its card is proven.
LEMMA HomeIsReady ==
    ASSUME ForkTypeOK, ReadyInv, GoHome \/ ReadAgain,
           SaysRead \/ SaysUnknown("pr-review") \/ SaysUnknown("ci-approval")
           \/ UNCHANGED shown
    PROVE  ReadyInv'
<1>1. look'.at \in {"idle", "read"} /\ ~look'.fresh
  BY HomeOrRead
<1>2. MergeReadyIsProven'
  BY SaysIsProven
<1>3. QED BY <1>1, <1>2 DEF ReadyInv

\* The reads of the scan keep what merge-ready rests on.
LEMMA ReadsReady ==
    ASSUME ForkTypeOK, ReadyInv,
           StartLook \/ StartApproval \/ ReadPr \/ ReadRuns \/ ListWaiting
           \/ RouteTarget \/ ProjectExact
    PROVE  ReadyInv'
<1>0. /\ look \in Look /\ shown \in Shown /\ fork \in Fork
      /\ look.fresh \in BOOLEAN /\ look.proven \in BOOLEAN /\ look.strict \in BOOLEAN
      /\ look.cut \in BOOLEAN /\ look.stray \in BOOLEAN /\ fork.mode \in Modes
  BY DEF ForkTypeOK, Look, Fork
<1>1. CASE StartLook \/ StartApproval
  <2>1. UNCHANGED shown
    BY <1>1 DEF StartLook, StartApproval
  <2>2. ~look'.fresh /\ (look'.at = "read" \/ ~look'.strict)
    BY <1>1 DEF StartLook, StartApproval, Away
  <2>3. CASE look'.at = "read"
    BY <2>1, <2>2, <2>3 DEF ReadyInv, MergeReadyIsProven
  <2>4. CASE ~look'.strict
    BY <2>1, <2>2, <2>4 DEF ReadyInv, MergeReadyIsProven
  <2>5. QED BY <2>2, <2>3, <2>4
<1>2. CASE ReadPr
  <2>1. CASE SaysUnknown("pr-review") /\ GoHome
    BY <2>1, HomeIsReady
  <2>2. ASSUME UNCHANGED shown, look'.at \in {"runs", "route"},
               look'.bucket \in {"maintainer-edits-required", "ci-state-unknown"}
        PROVE  ReadyInv'
    BY <2>2 DEF ReadyInv, MergeReadyIsProven
  <2>3. CASE look' = [look EXCEPT !.at = "route", !.head = fork.head,
                                  !.bucket = "maintainer-edits-required"]
    <3>1. look'.bucket = "maintainer-edits-required" /\ look'.at = "route"
      BY <1>0, <2>3 DEF Look
    <3>2. QED BY <1>2, <2>1, <2>2, <3>1 DEF ReadPr
  <2>4. ASSUME NEW cut \in BOOLEAN,
               look' = [look EXCEPT
                   !.at = "runs", !.head = fork.head, !.bucket = "ci-state-unknown",
                   !.kept = AsRead(ContextsOf(fork.head), cut), !.cut = cut,
                   !.stray = fork.head \in fork.stray]
        PROVE  look'.bucket = "ci-state-unknown" /\ look'.at = "runs"
    BY <1>0, <2>4 DEF Look
  <2>5. QED BY <1>2, <2>1, <2>2, <2>3, <2>4 DEF ReadPr
<1>3. CASE ReadRuns
  <2> DEFINE snap == look.kept
             whole == ~look.cut
             listed == {r \in OfHead(look.head) : r.wf = "compliance"}
             complete(o) == o = "done" /\ whole /\ EvidenceComplete(snap, listed)
             ci == look.stray \/ snap # {}
             bucket(o) == Classify(Compliance(fork.mode, snap, whole, complete(o),
                                              listed, look.stray),
                                   TestState(snap), ci)
             fresh(o) == /\ bucket(o) = "merge-ready"
                         /\ ChecksComplete(whole, fork.mode = "event" => complete(o))
             proven(o) == /\ bucket(o) = "merge-ready"
                          /\ Proven(fork.mode, snap, listed, look.stray)
  <2>1. PICK o \in Replies \ {"landed"} :
          look' = [look EXCEPT
                 !.at = "waits", !.kept = {}, !.cut = FALSE, !.stray = FALSE,
                 !.bucket = bucket(o), !.fresh = fresh(o), !.proven = proven(o)]
    BY <1>3, Zenon DEF ReadRuns
  <2>2. UNCHANGED shown
    BY <1>3 DEF ReadRuns
  <2>3. fresh(o) => proven(o)
    <3>1. SUFFICES ASSUME fresh(o) PROVE Proven(fork.mode, snap, listed, look.stray)
      BY Zenon
    <3>2. /\ bucket(o) = "merge-ready" /\ whole
          /\ fork.mode = "event" => complete(o)
      BY <3>1 DEF ChecksComplete
    <3>3. complete(o) \in BOOLEAN /\ ci \in BOOLEAN
      OBVIOUS
    <3>4. complete(o) => EvidenceComplete(snap, listed)
      OBVIOUS
    <3>5. Classify(Compliance(fork.mode, snap, TRUE, complete(o), listed, look.stray),
                   TestState(snap), ci) = "merge-ready"
      <4>1. whole = TRUE
        BY <1>0, <3>2
      <4>2. QED BY <3>2, <4>1
    <3> HIDE DEF complete, listed, ci, snap
    <3>6. QED BY <1>0, <3>2, <3>3, <3>4, <3>5, MergeReadyOfReads
  <2> HIDE DEF bucket, fresh, proven
  <2>4. /\ look'.at = "waits" /\ look'.fresh = fresh(o)
        /\ look'.proven = proven(o)
    BY <1>0, <2>1 DEF Look
  <2>5. look'.fresh => look'.proven
    BY <2>3, <2>4
  <2>6. QED BY <2>2, <2>4, <2>5 DEF ReadyInv, MergeReadyIsProven
<1>4. CASE ListWaiting
  <2>1. CASE GoHome /\ (SaysUnknown("pr-review") \/ UNCHANGED shown)
    BY <2>1, HomeIsReady
  <2>2. CASE /\ UNCHANGED shown
             /\ look' = [look EXCEPT
                   !.at = "route",
                   !.bucket = IF WaitingRuns(look.head) = {} THEN @
                              ELSE "needs-ci-approval",
                   !.fresh = @ /\ WaitingRuns(look.head) = {},
                   !.proven = @ /\ WaitingRuns(look.head) = {}]
    <3>1. CASE WaitingRuns(look.head) = {}
      <4>1. look' = [look EXCEPT !.at = "route"]
        BY <1>0, <2>2, <3>1 DEF Look
      <4>2. /\ look'.at = "route" /\ look'.fresh = look.fresh
            /\ look'.proven = look.proven /\ look'.bucket = look.bucket
        BY <1>0, <4>1 DEF Look
      <4>3. QED BY <2>2, <4>2 DEF ReadyInv, MergeReadyIsProven
    <3>2. CASE WaitingRuns(look.head) # {}
      <4>1. look' = [look EXCEPT !.at = "route", !.bucket = "needs-ci-approval",
                                 !.fresh = FALSE, !.proven = FALSE]
        BY <1>0, <2>2, <3>2 DEF Look
      <4>2. look'.at = "route" /\ ~look'.fresh
        BY <1>0, <4>1 DEF Look
      <4>3. QED BY <2>2, <4>2 DEF ReadyInv, MergeReadyIsProven
    <3>3. QED BY <3>1, <3>2
  <2>3. QED BY <1>4, <2>1, <2>2 DEF ListWaiting
<1>5. CASE RouteTarget \/ ProjectExact
  <2>1. SaysRead \/ SaysUnknown("pr-review") \/ UNCHANGED shown
    BY <1>5 DEF RouteTarget, ProjectExact
  <2>2. \/ GoHome \/ ReadAgain
        \/ look.bucket = "needs-ci-approval" /\ UNCHANGED shown /\ GoOn("fetch")
    BY <1>5 DEF RouteTarget, ProjectExact
  <2>3. CASE GoHome \/ ReadAgain
    BY <2>1, <2>3, HomeIsReady
  <2>4. CASE look.bucket = "needs-ci-approval" /\ UNCHANGED shown /\ GoOn("fetch")
    <3>1. look'.bucket = "needs-ci-approval"
      BY <1>0, <2>4, GoType
    <3>2. QED BY <2>4, <3>1 DEF ReadyInv, MergeReadyIsProven
  <2>5. QED BY <2>2, <2>3, <2>4
<1>6. QED BY <1>1, <1>2, <1>3, <1>4, <1>5

\* A step of approve_ci keeps what merge-ready rests on.
LEMMA ApprovesReady ==
    ASSUME ForkTypeOK, ReadyInv,
           FetchHead \/ VetHead \/ ListMatching \/ CheckSource \/ ApproveRun
    PROVE  ReadyInv'
<1>0. look \in Look /\ shown \in Shown /\ look.strict \in BOOLEAN
      /\ look.at \in {"fetch", "vet", "list", "source", "approve"}
  BY DEF ForkTypeOK, Look, FetchHead, VetHead, ListMatching, CheckSource, ApproveRun
<1>1. CASE \E status \in {"approved", "noop", "hold", "error"} : Conclude(status)
  <2>1. /\ GoHome \/ ReadAgain
        /\ SaysRead \/ SaysUnknown("ci-approval") \/ UNCHANGED shown
    BY <1>0, <1>1, ConcludeType
  <2>2. QED BY <2>1, HomeIsReady
<1>2. ASSUME UNCHANGED shown, look'.strict = look.strict,
             look'.bucket = look.bucket, look'.fresh = look.fresh,
             look'.proven = look.proven
      PROVE  ReadyInv'
  BY <1>0, <1>2 DEF ReadyInv, MergeReadyIsProven
<1>3. CASE UNCHANGED shown /\ look' = [look EXCEPT !.at = "vet", !.head = fork.head]
  BY <1>0, <1>2, <1>3 DEF Look
<1>4. CASE UNCHANGED shown /\ (GoOn("list") \/ GoOn("approve"))
  BY <1>0, <1>2, <1>4 DEF GoOn, Look
<1>5. CASE /\ UNCHANGED shown
           /\ look' = [look EXCEPT !.at = "source", !.todo = WaitingRuns(look.head)]
  BY <1>0, <1>2, <1>5 DEF Look
<1>6. ASSUME UNCHANGED shown, NEW n \in look.todo, NEW bad \in BOOLEAN,
             look' = [look EXCEPT !.at = "source", !.todo = @ \ {n}, !.failed = bad]
      PROVE  ReadyInv'
  BY <1>0, <1>2, <1>6 DEF Look
<1>7. QED BY <1>1, <1>3, <1>4, <1>5, <1>6, ApproveGoes

\* A card says merge-ready, as a current observation, only of a head that the
\* reads it was made from prove (wheelhouse_core.check_status, classify,
\* target_reconcile.plan_ci_wait_projection).
THEOREM MergeReadyProven == ForkSpec => []MergeReadyIsProven
<1>1. ForkInit => ReadyInv
  BY DEF ForkInit, ReadyInv, MergeReadyIsProven, Away
<1>2. ForkTypeOK /\ ReadyInv /\ [ForkNext]_forkVars => ReadyInv'
  <2> SUFFICES ASSUME ForkTypeOK, ReadyInv, [ForkNext]_forkVars PROVE ReadyInv'
    OBVIOUS
  <2>1. CASE \/ UNCHANGED forkVars
             \/ PushHead \/ TriggerAgain \/ RunConcludes \/ ContextShows
             \/ RerunWorkflow \/ StrayFails \/ PermissionsMove
    <3>1. /\ UNCHANGED shown
          /\ look'.at = look.at /\ look'.strict = look.strict
          /\ look'.bucket = look.bucket /\ look'.fresh = look.fresh
          /\ look'.proven = look.proven
      BY <2>1, Pushed DEF forkVars, TriggerAgain, RunConcludes, ContextShows,
                          RerunWorkflow, StrayFails, PermissionsMove
    <3>2. QED BY <3>1 DEF ReadyInv, MergeReadyIsProven
  <2>2. QED BY <2>1, ReadsReady, ApprovesReady DEF ForkNext
<1>3. ReadyInv => MergeReadyIsProven
  BY DEF ReadyInv
<1>4. QED BY <1>1, <1>2, <1>3, ForkTypeCorrect, PTL DEF ForkSpec

-----------------------------------------------------------------------------
(* Scan health: the ledger counts the streak *)

\* The counts stay below the bound because every count is a recorded scan.
HealthInv ==
    /\ recorded \in Seq([Fleet -> Seen])
    /\ Len(recorded) + scans + (IF nightly.at \in {"find", "write"} THEN 1 ELSE 0)
           <= MaxScans
    /\ \A r \in Fleet : health.counts[r] = Cardinality(DarkStreak(r))
    /\ nightly.at = "write" => nightly.counts = Update(health.counts, nightly.saw)
    /\ nightly.at = "close" => /\ nightly.counts = health.counts
                               /\ Len(recorded) > 0
                               /\ recorded[Len(recorded)] = nightly.saw
    /\ DarkIsShouted

\* A streak is a finite set, of at most as many scans as are on record.
LEMMA StreakIsFinite ==
    ASSUME NEW r, recorded \in Seq([Fleet -> Seen])
    PROVE  /\ IsFiniteSet(DarkStreak(r))
           /\ Cardinality(DarkStreak(r)) \in Nat
           /\ Cardinality(DarkStreak(r)) <= Len(recorded)
<1>1. Len(recorded) \in Nat
  OBVIOUS
<1>2. IsFiniteSet(1..Len(recorded)) /\ Cardinality(1..Len(recorded)) = Len(recorded)
  BY <1>1, FS_Interval
<1>3. DarkStreak(r) \subseteq 1..Len(recorded)
  BY DEF DarkStreak
<1>4. QED BY <1>2, <1>3, FS_Subset, FS_CardinalityType

\* What one more record does to the streak of a repository: it grows, ends, or
\* stays as it is, as update_scan_health counts it.
LEMMA StreakGrows ==
    ASSUME NEW r \in Fleet, NEW saw \in [Fleet -> Seen],
           recorded \in Seq([Fleet -> Seen]), recorded' = Append(recorded, saw)
    PROVE  /\ saw[r] = "ok" => DarkStreak(r)' = {}
           /\ saw[r] = "unseen" => DarkStreak(r)' = DarkStreak(r)
           /\ saw[r] = "dark" => DarkStreak(r)' = DarkStreak(r) \cup {Len(recorded) + 1}
<1> DEFINE n == Len(recorded)
<1>1. n \in Nat /\ Len(recorded') = n + 1 /\ recorded'[n + 1] = saw
  OBVIOUS
<1>2. \A i \in 1..n : recorded'[i] = recorded[i]
  OBVIOUS
<1>3. DarkStreak(r)' = {i \in 1..(n + 1) : /\ recorded'[i][r] = "dark"
                                          /\ \A j \in i..(n + 1) : recorded'[j][r] # "ok"}
  BY <1>1 DEF DarkStreak
<1>4. DarkStreak(r) = {i \in 1..n : /\ recorded[i][r] = "dark"
                                    /\ \A j \in i..n : recorded[j][r] # "ok"}
  BY DEF DarkStreak
<1> HIDE DEF n
<1>5. \A i \in 1..n : i..(n + 1) = (i..n) \cup {n + 1}
  BY <1>1
<1>6. ASSUME saw[r] = "ok" PROVE DarkStreak(r)' = {}
  BY <1>1, <1>3, <1>6
<1>7. ASSUME saw[r] # "ok", NEW i \in 1..n PROVE i \in DarkStreak(r)' <=> i \in DarkStreak(r)
  <2>1. \A j \in i..n : j \in 1..n
    BY <1>1
  <2>2. (\A j \in i..(n + 1) : recorded'[j][r] # "ok")
            <=> (\A j \in i..n : recorded[j][r] # "ok")
    BY <1>1, <1>2, <1>5, <1>7, <2>1
  <2>3. i \in 1..(n + 1)
    BY <1>1
  <2>4. QED BY <1>2, <1>3, <1>4, <2>2, <2>3
<1>8. \A i : i \in DarkStreak(r)' => i \in 1..n \/ i = n + 1
  BY <1>1, <1>3
<1>9. DarkStreak(r) \subseteq 1..n
  BY <1>4
<1>10. n + 1 \notin 1..n
  BY <1>1
<1>11. ASSUME saw[r] = "unseen" PROVE DarkStreak(r)' = DarkStreak(r)
  <2>1. n + 1 \notin DarkStreak(r)'
    BY <1>1, <1>3, <1>11
  <2>2. \A i \in 1..n : i \in DarkStreak(r)' <=> i \in DarkStreak(r)
    BY <1>7, <1>11
  <2>3. QED BY <1>8, <1>9, <2>1, <2>2
<1>12. ASSUME saw[r] = "dark" PROVE DarkStreak(r)' = DarkStreak(r) \cup {n + 1}
  <2>1. n + 1 \in DarkStreak(r)'
    <3>1. (n + 1)..(n + 1) = {n + 1} /\ n + 1 \in 1..(n + 1)
      BY <1>1
    <3>2. QED BY <1>1, <1>3, <1>12, <3>1
  <2>2. \A i \in 1..n : i \in DarkStreak(r)' <=> i \in DarkStreak(r)
    BY <1>7, <1>12
  <2>3. QED BY <1>8, <1>9, <2>1, <2>2
<1>13. QED BY <1>6, <1>11, <1>12 DEF n

\* A record with its counts in the ledger: the counts are the streaks again, and
\* the repositories of the new scan at the threshold are the dark ones.
LEMMA CountsFollow ==
    ASSUME HealthTypeOK, HealthInv, nightly.at = "write", Persisted
    PROVE  /\ \A r \in Fleet : nightly.counts[r] = Cardinality(DarkStreak(r))'
           /\ recorded' \in Seq([Fleet -> Seen])
           /\ Len(recorded') = Len(recorded) + 1
           /\ recorded'[Len(recorded')] = nightly.saw
<1>1. /\ nightly.saw \in [Fleet -> Seen] /\ recorded \in Seq([Fleet -> Seen])
      /\ recorded' = Append(recorded, nightly.saw) /\ Len(recorded) \in Nat
      /\ nightly.counts = Update(health.counts, nightly.saw)
      /\ \A r \in Fleet : health.counts[r] = Cardinality(DarkStreak(r))
  BY DEF HealthTypeOK, HealthInv, Nightly, Persisted
<1>2. /\ recorded' \in Seq([Fleet -> Seen]) /\ Len(recorded') = Len(recorded) + 1
      /\ recorded'[Len(recorded')] = nightly.saw
  BY <1>1
<1>3. ASSUME NEW r \in Fleet PROVE nightly.counts[r] = Cardinality(DarkStreak(r)')
  <2>1. /\ nightly.counts[r] = CASE nightly.saw[r] = "ok"     -> 0
                                 [] nightly.saw[r] = "dark"   -> health.counts[r] + 1
                                 [] nightly.saw[r] = "unseen" -> health.counts[r]
    BY <1>1 DEF Update
  <2>2. Len(recorded) + 1 \notin DarkStreak(r)
    BY <1>1 DEF DarkStreak
  <2>3. IsFiniteSet(DarkStreak(r))
    BY <1>1, StreakIsFinite
  <2>4. CASE nightly.saw[r] = "ok"
    BY <1>1, <2>1, <2>4, StreakGrows, FS_EmptySet
  <2>5. CASE nightly.saw[r] = "unseen"
    BY <1>1, <2>1, <2>5, StreakGrows
  <2>6. CASE nightly.saw[r] = "dark"
    <3>1. DarkStreak(r)' = DarkStreak(r) \cup {Len(recorded) + 1}
      BY <1>1, <2>6, StreakGrows
    <3>2. Cardinality(DarkStreak(r)') = Cardinality(DarkStreak(r)) + 1
      BY <2>2, <2>3, <3>1, FS_AddElement
    <3>3. QED BY <1>1, <2>1, <2>6, <3>2
  <2>7. QED
    <3>1. nightly.saw[r] \in Seen
      BY <1>1
    <3>2. QED BY <2>4, <2>5, <2>6, <3>1 DEF Seen
<1>4. QED BY <1>2, <1>3

\* Of a ledger that counts the streaks of which the scan is the last record, the
\* alerts are the dark repositories.
LEMMA AlertsAreDark ==
    ASSUME NEW counts, NEW saw, recorded \in Seq([Fleet -> Seen]), Len(recorded) > 0,
           recorded[Len(recorded)] = saw,
           \A r \in Fleet : counts[r] = Cardinality(DarkStreak(r))
    PROVE  Alerts(counts, saw) # {} <=> \E r \in Fleet : DarkFor(r)
<1> DEFINE n == Len(recorded)
<1>1. n \in Nat /\ n \in 1..n /\ n..n = {n}
  OBVIOUS
<1>2. \A r \in Fleet : n \in DarkStreak(r) <=> saw[r] = "dark"
  BY <1>1 DEF DarkStreak
<1>3. \A r \in Fleet : r \in Alerts(counts, saw) <=> DarkFor(r)
  BY <1>2 DEF Alerts, DarkFor
<1>4. Alerts(counts, saw) \subseteq Fleet
  BY DEF Alerts
<1>5. QED BY <1>3, <1>4

\* A scan that fails to bookkeep, or is reported, changes only how it ends.
LEMMA EndsOfScan ==
    ASSUME nightly \in Nightly
    PROVE  /\ Warn => /\ nightly' \in Nightly
                      /\ nightly'.at = "done" /\ nightly'.warned
           /\ Report => /\ nightly' \in Nightly
                        /\ nightly'.at = "done" /\ nightly'.warned = nightly.warned
                        /\ nightly'.red <=> Alerts(nightly.counts, nightly.saw) # {}
<1>1. CASE Warn
  <2>1. nightly' = [nightly EXCEPT !.at = "done", !.warned = TRUE]
    BY <1>1 DEF Warn
  <2>2. nightly' \in Nightly /\ nightly'.at = "done" /\ nightly'.warned
    BY <2>1 DEF Nightly
  <2>3. Report => nightly'.warned = nightly.warned /\ nightly'.at = "done"
                  /\ (nightly'.red <=> Alerts(nightly.counts, nightly.saw) # {})
    BY DEF Report, Nightly
  <2>4. QED BY <2>2, <2>3
<1>2. CASE Report
  <2>1. PICK red \in BOOLEAN :
            /\ red = (Alerts(nightly.counts, nightly.saw) # {})
            /\ nightly' = [nightly EXCEPT !.at = "done", !.red = red]
    BY <1>2, Zenon DEF Report
  <2>2. /\ nightly' \in Nightly /\ nightly'.at = "done" /\ nightly'.red = red
        /\ nightly'.warned = nightly.warned
    BY <2>1 DEF Nightly
  <2>3. Warn => nightly'.warned
    BY DEF Warn, Nightly
  <2>4. QED BY <2>1, <2>2, <2>3
<1>3. QED BY <1>1, <1>2

\* A step of a scan keeps the types and the counts.
LEMMA HealthStep ==
    ASSUME HealthTypeOK, HealthInv, HealthNext
    PROVE  HealthTypeOK' /\ HealthInv'
<1>0. /\ nightly \in Nightly /\ health \in Health /\ MaxScans \in Nat /\ MaxSlips \in Nat
      /\ slips \in 0..MaxSlips /\ scans \in 0..MaxScans
      /\ recorded \in Seq([Fleet -> Seen]) /\ Len(recorded) \in Nat
      /\ NoCounts \in Counts /\ nightly.counts \in Counts /\ health.counts \in Counts
      /\ nightly.saw \in [Fleet -> Seen]
  BY HealthAssumption DEF HealthTypeOK, HealthInv, Nightly, Health, NoCounts, Counts
<1>1. Slip => slips' \in 0..MaxSlips
  BY <1>0 DEF Slip
<1>2. CASE ScanFleet
  <2>1. UNCHANGED <<health, recorded, slips>> /\ scans > 0 /\ scans' = scans - 1
        /\ nightly.at \in {"idle", "done"}
    BY <1>2 DEF ScanFleet
  <2>2. /\ nightly' \in Nightly
        /\ \/ nightly'.at = "find"
           \/ nightly'.at = "done" /\ nightly'.warned
    <3>1. ASSUME NEW saw \in [Fleet -> Seen],
                 nightly' = [NoRunYet EXCEPT !.at = "find", !.saw = saw]
          PROVE  nightly' \in Nightly /\ nightly'.at = "find"
      BY <1>0, <3>1 DEF NoRunYet, Nightly
    <3>2. ASSUME nightly' = [NoRunYet EXCEPT !.at = "done", !.warned = TRUE]
          PROVE  nightly' \in Nightly /\ nightly'.at = "done" /\ nightly'.warned
      <4>1. [r \in Fleet |-> "unseen"] \in [Fleet -> Seen]
        BY DEF Seen
      <4>2. QED BY <1>0, <3>2, <4>1 DEF NoRunYet, Nightly
    <3>3. \/ \E saw \in [Fleet -> Seen] :
                 nightly' = [NoRunYet EXCEPT !.at = "find", !.saw = saw]
          \/ nightly' = [NoRunYet EXCEPT !.at = "done", !.warned = TRUE]
      BY <1>2 DEF ScanFleet
    <3>4. QED BY <3>1, <3>2, <3>3
  <2>3. HealthTypeOK'
    BY <1>0, <2>1, <2>2 DEF HealthTypeOK
  <2>4. Len(recorded') + scans' + 1 <= MaxScans /\ Len(recorded') + scans' <= MaxScans
    BY <1>0, <2>1 DEF HealthInv
  <2>5. \A r \in Fleet : DarkStreak(r)' = DarkStreak(r)
    BY <2>1 DEF DarkStreak
  <2>6. DarkIsShouted'
    BY <2>2 DEF DarkIsShouted
  <2>7. QED BY <1>0, <2>1, <2>2, <2>3, <2>4, <2>5, <2>6 DEF HealthInv
<1>3. CASE FindLedger
  <2>1. /\ UNCHANGED <<health, recorded, scans>> /\ nightly.at = "find"
        /\ slips' \in 0..MaxSlips
    BY <1>0, <1>1, <1>3 DEF FindLedger
  <2>2. \A r \in Fleet : DarkStreak(r)' = DarkStreak(r)
    BY <2>1 DEF DarkStreak
  <2>3. Len(recorded) + scans + 1 <= MaxScans
    BY <2>1 DEF HealthInv
  <2>4. CASE nightly' = [nightly EXCEPT !.at = "write",
                                        !.counts = Update(health.counts, nightly.saw)]
    <3>1. Update(health.counts, nightly.saw) \in Counts
      <4>1. ASSUME NEW r \in Fleet
            PROVE  Update(health.counts, nightly.saw)[r] \in 0..MaxScans
        <5>1. health.counts[r] \in Nat /\ health.counts[r] <= Len(recorded)
          BY <1>0, StreakIsFinite DEF HealthInv
        <5>2. nightly.saw[r] \in Seen
          BY <1>0
        <5>3. Update(health.counts, nightly.saw)[r]
                  \in {0, health.counts[r], health.counts[r] + 1}
          BY <5>2 DEF Update, Seen
        <5>4. QED BY <1>0, <2>3, <5>1, <5>3
      <4>2. QED BY <4>1 DEF Counts, Update
    <3>2. /\ nightly' \in Nightly /\ nightly'.at = "write" /\ nightly'.saw = nightly.saw
          /\ nightly'.counts = Update(health.counts, nightly.saw)
      BY <1>0, <2>4, <3>1 DEF Nightly
    <3>3. HealthTypeOK'
      BY <1>0, <2>1, <3>2 DEF HealthTypeOK
    <3>4. DarkIsShouted'
      BY <3>2 DEF DarkIsShouted
    <3>5. QED BY <1>0, <2>1, <2>2, <2>3, <3>2, <3>3, <3>4 DEF HealthInv
  <2>5. CASE Warn
    <3>1. nightly' \in Nightly /\ nightly'.at = "done" /\ nightly'.warned
      BY <1>0, <2>5, EndsOfScan
    <3>2. HealthTypeOK' /\ DarkIsShouted'
      BY <1>0, <2>1, <3>1 DEF HealthTypeOK, DarkIsShouted
    <3>3. Len(recorded) + scans <= MaxScans
      BY <1>0, <2>3
    <3>4. QED BY <1>0, <2>1, <2>2, <3>1, <3>2, <3>3 DEF HealthInv
  <2>6. QED BY <1>3, <2>4, <2>5 DEF FindLedger
<1>4. CASE WriteLedger
  <2>1. UNCHANGED scans /\ nightly.at = "write" /\ slips' \in 0..MaxSlips
    BY <1>0, <1>1, <1>4 DEF WriteLedger
  <2>2. Len(recorded) + scans + 1 <= MaxScans
    BY <2>1 DEF HealthInv
  <2>3. CASE UNCHANGED <<health, recorded>> /\ Warn
    <3>1. nightly' \in Nightly /\ nightly'.at = "done" /\ nightly'.warned
      BY <1>0, <2>3, EndsOfScan
    <3>2. HealthTypeOK' /\ DarkIsShouted'
      BY <1>0, <2>1, <2>3, <3>1 DEF HealthTypeOK, DarkIsShouted
    <3>3. Len(recorded) + scans <= MaxScans
      BY <1>0, <2>2
    <3>4. \A r \in Fleet : DarkStreak(r)' = DarkStreak(r)
      BY <2>3 DEF DarkStreak
    <3>5. QED BY <1>0, <2>1, <2>3, <3>1, <3>2, <3>3, <3>4 DEF HealthInv
  <2>4. CASE Persisted /\ (Warn \/ Report \/ nightly' = [nightly EXCEPT !.at = "close"])
    <3>1. /\ \A r \in Fleet : nightly.counts[r] = Cardinality(DarkStreak(r))'
          /\ recorded' \in Seq([Fleet -> Seen])
          /\ Len(recorded') = Len(recorded) + 1
          /\ recorded'[Len(recorded')] = nightly.saw
      BY <2>1, <2>4, CountsFollow
    <3>2. health'.counts = nightly.counts /\ health' \in Health
      BY <1>0, <2>4 DEF Persisted, Health
    <3>3. Len(recorded') + scans' <= MaxScans /\ Len(recorded') <= MaxScans
          /\ Len(recorded') > 0
      BY <1>0, <2>1, <2>2, <3>1
    <3>4. nightly' \in Nightly /\ nightly'.at \in {"close", "done"} /\ DarkIsShouted'
          /\ (nightly'.at = "close" => /\ nightly'.counts = health'.counts
                                       /\ nightly'.saw = nightly.saw)
      <4>1. CASE Warn
        BY <1>0, <4>1, EndsOfScan DEF DarkIsShouted
      <4>2. CASE Report
        <5>1. Alerts(nightly.counts, nightly.saw) # {} <=> (\E r \in Fleet : DarkFor(r))'
          <6>1. \A counts, saw : Alerts(counts, saw)' = Alerts(counts, saw)
            BY DEF Alerts
          <6>2. \A r \in Fleet : nightly.counts[r] = Cardinality(DarkStreak(r)')
            BY <3>1
          <6> DEFINE n == Len(recorded')
          <6>3. n \in Nat /\ n \in 1..n /\ n..n = {n} /\ recorded'[n] = nightly.saw
            BY <3>1, <3>3
          <6>4. \A r \in Fleet : n \in DarkStreak(r)' <=> nightly.saw[r] = "dark"
            BY <6>3 DEF DarkStreak
          <6>5. \A r \in Fleet : r \in Alerts(nightly.counts, nightly.saw) <=> DarkFor(r)'
            BY <6>2, <6>4 DEF Alerts, DarkFor
          <6>6. Alerts(nightly.counts, nightly.saw) \subseteq Fleet
            BY DEF Alerts
          <6>7. QED BY <6>5, <6>6
        <5>2. QED BY <1>0, <4>2, <5>1, EndsOfScan DEF DarkIsShouted
      <4>3. CASE nightly' = [nightly EXCEPT !.at = "close"]
        BY <1>0, <3>2, <4>3 DEF Nightly, DarkIsShouted
      <4>4. QED BY <2>4, <4>1, <4>2, <4>3
    <3>5. HealthTypeOK'
      BY <1>0, <2>1, <3>1, <3>2, <3>3, <3>4 DEF HealthTypeOK
    <3>6. \A r \in Fleet : health'.counts[r] = Cardinality(DarkStreak(r))'
      BY <3>1, <3>2
    <3>7. nightly'.at \notin {"find", "write"}
      BY <3>4
    <3>8. nightly'.at = "close" => /\ nightly'.counts = health'.counts
                                   /\ Len(recorded') > 0
                                   /\ recorded'[Len(recorded')] = nightly'.saw
      BY <3>1, <3>3, <3>4
    <3>9. Len(recorded') + scans' + (IF nightly'.at \in {"find", "write"} THEN 1 ELSE 0)
              <= MaxScans
      BY <3>3, <3>7, <1>0, <2>1, <3>1
    <3>10. HealthInv'
      BY <3>1, <3>4, <3>6, <3>7, <3>8, <3>9 DEF HealthInv
    <3>11. QED BY <3>5, <3>10
  <2>5. QED BY <1>4, <2>3, <2>4 DEF WriteLedger
<1>5. CASE CloseLedger
  <2>1. /\ UNCHANGED <<recorded, scans>> /\ nightly.at = "close"
        /\ slips' \in 0..MaxSlips
        /\ Report \/ Warn
        /\ health' \in Health /\ health'.counts = health.counts
    BY <1>0, <1>1, <1>5 DEF CloseLedger, Health
  <2>2. \A r \in Fleet : DarkStreak(r)' = DarkStreak(r) /\ DarkFor(r)' = DarkFor(r)
    BY <2>1 DEF DarkStreak, DarkFor
  <2>3. nightly' \in Nightly /\ nightly'.at = "done"
    BY <1>0, <2>1, EndsOfScan
  <2>4. DarkIsShouted'
    <3>1. /\ \A r \in Fleet : nightly.counts[r] = Cardinality(DarkStreak(r))
          /\ Len(recorded) > 0 /\ recorded[Len(recorded)] = nightly.saw
      BY <2>1 DEF HealthInv
    <3>2. Alerts(nightly.counts, nightly.saw) # {} <=> \E r \in Fleet : DarkFor(r)
      BY <1>0, <3>1, AlertsAreDark
    <3>3. nightly'.warned \/ (nightly'.red <=> Alerts(nightly.counts, nightly.saw) # {})
      BY <1>0, <2>1, EndsOfScan
    <3>4. QED BY <2>2, <3>2, <3>3 DEF DarkIsShouted
  <2>5. HealthTypeOK'
    BY <1>0, <2>1, <2>3 DEF HealthTypeOK
  <2>6. Len(recorded) + scans <= MaxScans
    BY <1>0, <2>1 DEF HealthInv
  <2>7. QED BY <1>0, <2>1, <2>2, <2>3, <2>4, <2>5, <2>6 DEF HealthInv
<1>6. QED BY <1>2, <1>3, <1>4, <1>5 DEF HealthNext

\* Types and counts hold in every state of a ledger.
LEMMA HealthInvHolds == HealthSpec => [](HealthTypeOK /\ HealthInv)
<1>1. HealthInit => HealthTypeOK /\ HealthInv
  <2> SUFFICES ASSUME HealthInit PROVE HealthTypeOK /\ HealthInv
    OBVIOUS
  <2>1. NoCounts \in Counts /\ [r \in Fleet |-> "unseen"] \in [Fleet -> Seen]
    BY HealthAssumption DEF NoCounts, Counts, Seen
  <2>2. nightly \in Nightly /\ nightly.at = "idle" /\ health \in Health
    BY <2>1 DEF HealthInit, NoRunYet, Nightly, Health
  <2>3. recorded = <<>> /\ Len(recorded) = 0 /\ recorded \in Seq([Fleet -> Seen])
        /\ slips = MaxSlips /\ scans = MaxScans
    BY DEF HealthInit
  <2>4. \A r \in Fleet : health.counts[r] = Cardinality(DarkStreak(r))
    <3>1. \A r : DarkStreak(r) = {}
      BY <2>3 DEF DarkStreak
    <3>2. \A r \in Fleet : health.counts[r] = 0
      BY DEF HealthInit, NoCounts
    <3>3. QED BY <3>1, <3>2, FS_EmptySet
  <2>5. HealthTypeOK
    BY <2>2, <2>3, HealthAssumption DEF HealthTypeOK
  <2>6. QED BY <2>2, <2>3, <2>4, <2>5, HealthAssumption DEF HealthInv, DarkIsShouted
<1>2. HealthTypeOK /\ HealthInv /\ [HealthNext]_healthVars => (HealthTypeOK /\ HealthInv)'
  <2>1. ASSUME HealthTypeOK, HealthInv, UNCHANGED healthVars
        PROVE  HealthTypeOK' /\ HealthInv'
    <3>1. \A r : DarkStreak(r)' = DarkStreak(r) /\ DarkFor(r)' = DarkFor(r)
      BY <2>1 DEF healthVars, DarkStreak, DarkFor
    <3>2. QED BY <2>1, <3>1 DEF healthVars, HealthTypeOK, HealthInv, DarkIsShouted
  <2>2. QED BY <2>1, HealthStep
<1>3. QED BY <1>1, <1>2, PTL DEF HealthSpec

\* The types of the ledger and of its scans hold: no count passes the number of
\* scans, though counts are carried over scans that did not see a repository
\* (wheelhouse_core.update_scan_health).
THEOREM HealthTypeCorrect == HealthSpec => []HealthTypeOK
<1>1. HealthTypeOK /\ HealthInv => HealthTypeOK
  OBVIOUS
<1>2. QED BY <1>1, HealthInvHolds, PTL

\* A run whose bookkeeping worked fails exactly when a repository is dark for the
\* threshold (wheelhouse_core.cmd_scan_health), whatever scans saw before it and
\* wherever they lost a call.
THEOREM HealthDarkIsShouted == HealthSpec => []DarkIsShouted
<1>1. HealthTypeOK /\ HealthInv => DarkIsShouted
  BY DEF HealthInv
<1>2. QED BY <1>1, HealthInvHolds, PTL
-----------------------------------------------------------------------------
(* Cleanup: what was said *)

\* Asks are numbered as their reviews are posted, each has one review, and the
\* markers follow the reviews in that order.
SaidInv ==
    /\ said \in Seq(Note)
    /\ Asks \in Nat
    /\ {said[i].ask : i \in Positions("review", Len(said))} = 1..Asks
    /\ \A i, j \in Positions("review", Len(said)) : said[i].ask = said[j].ask => i = j
    /\ \A i \in Markers(Len(said)) : said[i].ask \in 1..Asks
    /\ \A i, j \in Markers(Len(said)) : i <= j => said[i].ask <= said[j].ask

\* The job that asks has the next number, then the last; it keeps the sweep away.
AskingInv ==
    /\ asking.at = "review" => asking.ask = Asks + 1
    /\ asking.at \in {"marker", "label"} => asking.ask = Asks /\ Asks > 0
    /\ asking.at # "away" => sweep.at = "away"

ClosingsOf(ask) == {i \in Positions("closing", Len(said)) : said[i].ask = ask}

\* What a close rests on, of an ask and of what was said when its reads began.
Silent(ask, from, head, day) ==
    /\ ask \in 1..Asks
    /\ from \in 0..Len(said)
    /\ Reminded(ask, from)
    /\ \A i \in Positions("answer", from) : i <= AskedAt(ask)
    /\ said[AskedAt(ask)].head = head
    /\ day >= said[AskedAt(ask)].day + CloseAfter
    /\ \A i \in Markers(from) : said[i].ask <= ask

\* While a sweep reads, only people speak; what it decided to close rests on
\* what it read, and its explanation is there or still to be given.
SweepInv ==
    /\ sweep.at \in {"comments", "timeline"} =>
          /\ sweep.from <= Len(said)
          /\ \A i \in (sweep.from + 1)..Len(said) : said[i].what \in {"answer", "remark"}
    /\ sweep.at = "timeline" => sweep.from <= sweep.marks /\ sweep.marks <= Len(said)
    /\ sweep.at \in {"check", "write"} =>
          /\ sweep.todo # <<>>
          /\ sweep.todo \in {<<"close">>, <<"explain", "close">>} =>
                Silent(sweep.by, sweep.from, sweep.head, sweep.day)
          /\ sweep.todo = <<"close">> => ClosingsOf(sweep.by) # {}
          /\ sweep.todo = <<"explain", "close">> => ClosingsOf(sweep.by) = {}

\* No ask has two explanations, and every close had what it rests on.
EndInv ==
    /\ \A i, j \in Positions("closing", Len(said)) : said[i].ask = said[j].ask => i = j
    /\ \A e \in endings :
          Silent(e.ask, e.from, e.head, e.day) /\ ClosingsOf(e.ask) # {}

\* One more entry: what was said before keeps its place.
LEMMA SaidGrows ==
    ASSUME said \in Seq(Note), NEW note \in Note, said' = Append(said, note)
    PROVE  /\ said' \in Seq(Note) /\ Len(said) \in Nat /\ Len(said') = Len(said) + 1
           /\ said'[Len(said) + 1] = note
           /\ \A i \in 1..Len(said) : said'[i] = said[i]
           /\ \A what : \A n \in 0..Len(said) : Positions(what, n)' = Positions(what, n)
           /\ \A what : Positions(what, Len(said))' =
                  IF note.what = what THEN Positions(what, Len(said)) \cup {Len(said) + 1}
                  ELSE Positions(what, Len(said))
<1> DEFINE n == Len(said)
<1>1. /\ said' \in Seq(Note) /\ n \in Nat /\ Len(said') = n + 1
      /\ said'[n + 1] = note
      /\ \A i \in 1..n : said'[i] = said[i]
  OBVIOUS
<1> HIDE DEF n
<1>2. \A what : \A m \in 0..n : Positions(what, m)' = Positions(what, m)
  BY <1>1 DEF Positions
<1>3. ASSUME NEW what
      PROVE  Positions(what, Len(said))' =
                IF note.what = what THEN Positions(what, Len(said)) \cup {n + 1}
                ELSE Positions(what, Len(said))
  <2>1. Positions(what, Len(said))' = {i \in 1..(n + 1) : said'[i].what = what}
    BY <1>1 DEF Positions
  <2>2. Positions(what, Len(said)) = {i \in 1..n : said[i].what = what}
    BY DEF Positions, n
  <2>3. 1..(n + 1) = (1..n) \cup {n + 1}
    BY <1>1
  <2>4. CASE note.what = what
    BY <1>1, <2>1, <2>2, <2>3, <2>4
  <2>5. CASE note.what # what
    BY <1>1, <2>1, <2>2, <2>3, <2>5
  <2>6. QED BY <2>4, <2>5
<1>4. QED BY <1>1, <1>2, <1>3 DEF n

\* Every ask has one review, AskedAt.
LEMMA AskedAtIs ==
    ASSUME SaidInv, NEW a \in 1..Asks
    PROVE  /\ AskedAt(a) \in Positions("review", Len(said)) /\ said[AskedAt(a)].ask = a
           /\ AskedAt(a) \in 1..Len(said)
           /\ \A i \in Positions("review", Len(said)) : said[i].ask = a => i = AskedAt(a)
<1>1. PICK i \in Positions("review", Len(said)) : said[i].ask = a
  BY DEF SaidInv
<1>2. AskedAt(a) \in Positions("review", Len(said)) /\ said[AskedAt(a)].ask = a
  BY <1>1 DEF AskedAt
<1>3. Positions("review", Len(said)) \subseteq 1..Len(said)
  BY DEF Positions
<1>4. QED BY <1>2, <1>3 DEF SaidInv

\* The asks after one more entry: a review counts, nothing else does, and the
\* reviews of earlier asks stay where they are.
LEMMA AsksGrow ==
    ASSUME SaidInv, NEW note \in Note, said' = Append(said, note),
           note.what = "review" => note.ask = Asks + 1
    PROVE  /\ Asks' = IF note.what = "review" THEN Asks + 1 ELSE Asks
           /\ {said[i].ask : i \in Positions("review", Len(said))}' = 1..Asks'
           /\ (\A i, j \in Positions("review", Len(said)) :
                   said[i].ask = said[j].ask => i = j)'
           /\ \A a \in 1..Asks : AskedAt(a)' = AskedAt(a)
<1> DEFINE n == Len(said)
           pos == Positions("review", Len(said))
           asks == {said[i].ask : i \in pos}
<1>1. /\ n \in Nat /\ Asks \in Nat /\ asks = 1..Asks
      /\ \A i, j \in pos : said[i].ask = said[j].ask => i = j
      /\ \A a \in 1..Asks : AskedAt(a) \in pos /\ said[AskedAt(a)].ask = a
      /\ pos \subseteq 1..n
  BY AskedAtIs DEF SaidInv, Positions
<1>2. /\ said'[n + 1] = note /\ \A i \in 1..n : said'[i] = said[i]
      /\ pos' = IF note.what = "review" THEN pos \cup {n + 1} ELSE pos
  BY SaidGrows DEF SaidInv
<1>3. Asks = Cardinality(asks) /\ Asks' = Cardinality(asks')
  BY DEF Asks
<1>4. \A a : AskedAt(a)' = CHOOSE i \in pos' : said'[i].ask = a
  BY DEF AskedAt
<1>5. \A i \in pos : said'[i] = said[i] /\ said[i].ask \in 1..Asks /\ i # n + 1
  BY <1>1, <1>2
<1>6. asks' = {said'[i].ask : i \in pos'}
  OBVIOUS
<1> HIDE DEF pos, asks, n
<1>7. CASE note.what # "review"
  <2>1. pos' = pos
    BY <1>2, <1>7
  <2>2. asks' = asks
    BY <1>5, <1>6, <2>1 DEF asks
  <2>3. ASSUME NEW i \in pos', NEW j \in pos', said'[i].ask = said'[j].ask PROVE i = j
    <3>1. i \in pos /\ j \in pos
      BY <2>1
    <3>2. said'[i].ask = said[i].ask /\ said'[j].ask = said[j].ask
      BY <1>5, <3>1
    <3>3. QED BY <1>1, <2>3, <3>1, <3>2
  <2>4. ASSUME NEW a \in 1..Asks PROVE AskedAt(a)' = AskedAt(a)
    <3>1. AskedAt(a) \in pos' /\ said'[AskedAt(a)].ask = a
      BY <1>1, <1>5, <2>1
    <3>2. AskedAt(a)' \in pos' /\ said'[AskedAt(a)'].ask = a
      BY <1>4, <3>1
    <3>3. QED BY <2>3, <3>1, <3>2
  <2>5. QED BY <1>1, <1>3, <1>7, <2>2, <2>3, <2>4 DEF pos, asks
<1>8. CASE note.what = "review"
  <2>1. pos' = pos \cup {n + 1} /\ said'[n + 1].ask = Asks + 1
    BY <1>2, <1>8
  <2>2. asks' = asks \cup {Asks + 1}
    BY <1>5, <1>6, <2>1 DEF asks
  <2>3. asks' = 1..(Asks + 1)
    BY <1>1, <2>2
  <2>4. Cardinality(1..(Asks + 1)) = Asks + 1
    BY <1>1, FS_Interval
  <2>5. Asks' = Asks + 1
    BY <1>3, <2>3, <2>4
  <2>6. ASSUME NEW i \in pos', NEW j \in pos', said'[i].ask = said'[j].ask PROVE i = j
    <3>1. \A k \in pos' : k \in pos \/ k = n + 1
      BY <2>1
    <3>2. ASSUME NEW k \in pos
          PROVE  said'[k].ask = said[k].ask /\ said[k].ask # Asks + 1
      <4>1. said'[k] = said[k] /\ said[k].ask \in 1..Asks /\ Asks \in Nat
        BY <1>1, <1>5
      <4>2. QED BY <4>1
    <3>3. CASE i \in pos /\ j \in pos
      <4>1. said[i].ask = said[j].ask
        BY <2>6, <3>2, <3>3
      <4>2. QED BY <1>1, <3>3, <4>1
    <3>4. CASE i = n + 1 /\ j = n + 1
      BY <3>4
    <3>5. ~(i \in pos /\ j = n + 1) /\ ~(i = n + 1 /\ j \in pos)
      BY <2>1, <2>6, <3>2
    <3>6. QED BY <3>1, <3>3, <3>4, <3>5
  <2>7. ASSUME NEW a \in 1..Asks PROVE AskedAt(a)' = AskedAt(a)
    <3>1. AskedAt(a) \in pos' /\ said'[AskedAt(a)].ask = a
      BY <1>1, <1>5, <2>1
    <3>2. AskedAt(a)' \in pos' /\ said'[AskedAt(a)'].ask = a
      BY <1>4, <3>1
    <3>3. QED BY <2>6, <3>1, <3>2
  <2>8. QED BY <1>8, <2>3, <2>5, <2>6, <2>7 DEF pos, asks
<1>9. QED BY <1>7, <1>8

\* One more entry keeps what is known of the asks.
LEMMA SaidStep ==
    ASSUME SaidInv, NEW note \in Note, said' = Append(said, note),
           note.what = "review" => note.ask = Asks + 1,
           note.what = "marker" => note.ask = Asks /\ Asks > 0
    PROVE  SaidInv'
<1> DEFINE n == Len(said)
           marks == Markers(Len(said))
<1>1. /\ n \in Nat /\ Asks \in Nat /\ Asks' \in Nat /\ Asks <= Asks'
      /\ note.what = "marker" => Asks' = Asks
  BY AsksGrow DEF SaidInv
<1>2. /\ said' \in Seq(Note) /\ said'[n + 1] = note
      /\ \A i \in 1..n : said'[i] = said[i]
      /\ marks' = IF note.what = "marker" THEN marks \cup {n + 1} ELSE marks
  BY SaidGrows DEF SaidInv, Markers
<1>3. marks \subseteq 1..n
  BY DEF Markers, Positions
<1>4. \A i \in marks : said[i].ask \in 1..Asks
  BY DEF SaidInv
<1>5. \A i, j \in marks : i <= j => said[i].ask <= said[j].ask
  BY DEF SaidInv
<1> HIDE DEF n, marks
<1>6. ASSUME NEW i \in marks
      PROVE  said'[i].ask = said[i].ask /\ i <= n /\ i \in Nat
  <2>1. i \in 1..n
    BY <1>3
  <2>2. said'[i] = said[i]
    BY <1>2, <2>1
  <2>3. QED BY <1>1, <2>1, <2>2
<1>7. \A i \in marks' : i \in marks \/ (i = n + 1 /\ note.what = "marker")
  BY <1>2
<1>8. note.what = "marker" => said'[n + 1].ask = Asks /\ Asks > 0
  BY <1>2
<1>9. ASSUME NEW i \in marks' PROVE said'[i].ask \in 1..Asks'
  <2>1. CASE i \in marks
    <3>1. said[i].ask \in 1..Asks /\ said'[i].ask = said[i].ask
      BY <1>4, <1>6, <2>1
    <3>2. QED BY <1>1, <3>1
  <2>2. CASE i = n + 1 /\ note.what = "marker"
    <3>1. said'[i].ask = Asks /\ Asks > 0 /\ Asks' = Asks
      BY <1>1, <1>8, <2>2
    <3>2. QED BY <1>1, <3>1
  <2>3. QED BY <1>7, <2>1, <2>2
<1>10. ASSUME NEW i \in marks', NEW j \in marks', i <= j
       PROVE  said'[i].ask <= said'[j].ask
  <2>1. CASE i \in marks /\ j \in marks
    BY <1>5, <1>6, <1>10, <2>1
  <2>2. CASE i \in marks /\ j = n + 1 /\ note.what = "marker"
    <3>1. said[i].ask \in 1..Asks /\ said'[i].ask = said[i].ask
      BY <1>4, <1>6, <2>2
    <3>2. said'[j].ask = Asks /\ said'[i].ask \in 1..Asks
      BY <1>8, <2>2, <3>1
    <3>3. \A x \in 1..Asks : x <= Asks
      BY <1>1
    <3>4. QED BY <3>2, <3>3
  <2>3. CASE i = n + 1 /\ note.what = "marker" /\ j \in marks
    <3>1. j <= n /\ j \in Nat
      BY <1>6, <2>3
    <3>2. QED BY <1>1, <1>10, <2>3, <3>1
  <2>4. CASE i = n + 1 /\ j = n + 1 /\ note.what = "marker"
    <3>1. said'[i].ask = Asks /\ said'[j].ask = Asks
      BY <1>8, <2>4
    <3>2. QED BY <1>1, <3>1
  <2>5. QED BY <1>7, <2>1, <2>2, <2>3, <2>4
<1>11. /\ {said[i].ask : i \in Positions("review", Len(said))}' = 1..Asks'
       /\ (\A i, j \in Positions("review", Len(said)) :
               said[i].ask = said[j].ask => i = j)'
  BY AsksGrow
<1>12. /\ \A i \in Markers(Len(said))' : said'[i].ask \in 1..Asks'
       /\ \A i, j \in Markers(Len(said))' : i <= j => said'[i].ask <= said'[j].ask
  BY <1>9, <1>10 DEF marks
<1>13. QED BY <1>1, <1>2, <1>11, <1>12 DEF SaidInv

\* What a close rests on stays true whatever is said later.
LEMMA SilentStays ==
    ASSUME SaidInv, NEW note \in Note, said' = Append(said, note),
           note.what = "review" => note.ask = Asks + 1,
           NEW a, NEW f, NEW h, NEW d, Silent(a, f, h, d)
    PROVE  Silent(a, f, h, d)'
<1>1. /\ a \in 1..Asks /\ f \in 0..Len(said) /\ Asks \in Nat /\ Len(said) \in Nat
  BY SaidGrows DEF Silent, SaidInv
<1>2. AskedAt(a)' = AskedAt(a) /\ AskedAt(a) \in 1..Len(said)
  BY <1>1, AsksGrow, AskedAtIs
<1>3. a \in 1..Asks'
  BY <1>1, AsksGrow
<1>4. /\ \A what : Positions(what, f)' = Positions(what, f)
      /\ \A i \in 1..Len(said) : said'[i] = said[i]
      /\ f \in 0..Len(said')
  BY <1>1, SaidGrows DEF SaidInv
<1>5. \A what : Positions(what, f) \subseteq 1..Len(said)
  BY <1>1 DEF Positions
<1>6. Reminded(a, f)'
  <2>1. Positions("reminder", f)' = Positions("reminder", f)
    BY <1>4
  <2>2. PICK i \in Positions("reminder", f) : said[i].ask = a
    BY DEF Silent, Reminded
  <2>3. said'[i].ask = a
    BY <1>4, <1>5, <2>2
  <2>4. QED BY <2>1, <2>2, <2>3 DEF Reminded
<1>7. \A i \in Positions("answer", f)' : i <= AskedAt(a)'
  BY <1>2, <1>4 DEF Silent
<1>8. said'[AskedAt(a)'] = said[AskedAt(a)]
  BY <1>2, <1>4
<1>9. \A i \in Markers(f)' : said'[i].ask <= a
  <2>1. Markers(f)' = Markers(f) /\ Markers(f) \subseteq 1..Len(said)
    BY <1>4, <1>5 DEF Markers
  <2>2. \A i \in Markers(f) : said[i].ask <= a
    BY DEF Silent
  <2>3. QED BY <1>4, <2>1, <2>2
<1>10. said[AskedAt(a)].head = h /\ d >= said[AskedAt(a)].day + CloseAfter
  BY DEF Silent
<1>11. QED BY <1>3, <1>4, <1>6, <1>7, <1>8, <1>9, <1>10 DEF Silent

\* The explanations of an ask after one more entry.
LEMMA ClosingsGrow ==
    ASSUME said \in Seq(Note), NEW note \in Note, said' = Append(said, note), NEW a
    PROVE  ClosingsOf(a)' = IF note.what = "closing" /\ note.ask = a
                            THEN ClosingsOf(a) \cup {Len(said) + 1} ELSE ClosingsOf(a)
<1> DEFINE n == Len(said)
           pos == Positions("closing", Len(said))
<1>1. /\ n \in Nat /\ said'[n + 1] = note /\ \A i \in 1..n : said'[i] = said[i]
      /\ pos' = IF note.what = "closing" THEN pos \cup {n + 1} ELSE pos
  BY SaidGrows
<1>2. pos \subseteq 1..n
  BY DEF Positions
<1>3. ClosingsOf(a)' = {i \in pos' : said'[i].ask = a}
  BY DEF ClosingsOf
<1>4. ClosingsOf(a) = {i \in pos : said[i].ask = a}
  BY DEF ClosingsOf
<1> HIDE DEF n, pos
<1>5. \A i \in pos : said'[i].ask = said[i].ask
  BY <1>1, <1>2
<1>6. CASE note.what # "closing"
  <2>1. pos' = pos
    BY <1>1, <1>6
  <2>2. QED BY <1>3, <1>4, <1>5, <1>6, <2>1
<1>7. CASE note.what = "closing"
  <2>1. pos' = pos \cup {n + 1} /\ said'[n + 1].ask = note.ask
    BY <1>1, <1>7
  <2>2. CASE note.ask = a
    BY <1>3, <1>4, <1>5, <1>7, <2>1, <2>2 DEF n
  <2>3. CASE note.ask # a
    BY <1>3, <1>4, <1>5, <1>7, <2>1, <2>3
  <2>4. QED BY <2>2, <2>3
<1>8. QED BY <1>6, <1>7

\* The closes stand after one more entry that explains no ask twice.
LEMMA EndsStay ==
    ASSUME SaidInv, EndInv, NEW note \in Note, said' = Append(said, note),
           note.what = "review" => note.ask = Asks + 1,
           note.what = "closing" => ClosingsOf(note.ask) = {},
           UNCHANGED endings
    PROVE  EndInv'
<1> DEFINE n == Len(said)
           pos == Positions("closing", Len(said))
<1>1. /\ n \in Nat /\ said'[n + 1] = note /\ \A i \in 1..n : said'[i] = said[i]
      /\ pos' = IF note.what = "closing" THEN pos \cup {n + 1} ELSE pos
      /\ said \in Seq(Note)
  BY SaidGrows DEF SaidInv
<1>2. \A i \in pos : said'[i].ask = said[i].ask
  BY <1>1 DEF Positions
<1>3. \A i, j \in pos : said[i].ask = said[j].ask => i = j
  BY DEF EndInv
<1>4. note.what = "closing" => \A i \in pos : said[i].ask # note.ask
  BY DEF ClosingsOf
<1>5. ASSUME NEW e \in endings'
      PROVE  Silent(e.ask, e.from, e.head, e.day)' /\ ClosingsOf(e.ask)' # {}
  <2>1. e \in endings
    BY <1>5
  <2>2. Silent(e.ask, e.from, e.head, e.day) /\ ClosingsOf(e.ask) # {}
    BY <2>1 DEF EndInv
  <2>3. Silent(e.ask, e.from, e.head, e.day)'
    BY <2>2, SilentStays
  <2>4. ClosingsOf(e.ask)' # {}
    BY <1>1, <2>2, ClosingsGrow
  <2>5. QED BY <2>3, <2>4
<1> HIDE DEF n, pos
<1>6. ASSUME NEW i \in pos', NEW j \in pos', said'[i].ask = said'[j].ask PROVE i = j
  <2>1. \A k \in pos' : k \in pos \/ (k = n + 1 /\ note.what = "closing")
    BY <1>1
  <2>2. CASE i \in pos /\ j \in pos
    <3>1. said[i].ask = said[j].ask
      BY <1>2, <1>6, <2>2
    <3>2. QED BY <1>3, <2>2, <3>1
  <2>3. CASE i = n + 1 /\ j = n + 1
    BY <2>3
  <2>4. ~(i \in pos /\ j = n + 1 /\ note.what = "closing")
    BY <1>1, <1>2, <1>4, <1>6
  <2>5. ~(i = n + 1 /\ note.what = "closing" /\ j \in pos)
    BY <1>1, <1>2, <1>4, <1>6
  <2>6. QED BY <2>1, <2>2, <2>3, <2>4, <2>5
<1>7. QED BY <1>5, <1>6 DEF EndInv, pos

-----------------------------------------------------------------------------
(* Cleanup: every step *)

CleanupInv == SaidInv /\ AskingInv /\ SweepInv /\ EndInv

\* What the types and invariants say of the parts that most steps use.
LEMMA CleanupFacts ==
    ASSUME CleanupTypeOK, CleanupInv
    PROVE  /\ pull \in Pull /\ asking \in Asking /\ sweep \in Sweep /\ endings \subseteq Ending
           /\ pull.head \in Nat /\ pull.dismissed \subseteq 1..MaxAsks
           /\ asking.ask \in 0..MaxAsks /\ asking.head \in Nat
           /\ sweep.from \in Nat /\ sweep.marks \in Nat /\ sweep.head \in Nat
           /\ sweep.by \in 0..MaxAsks /\ sweep.day \in 0..MaxClock
           /\ clock \in 0..MaxClock /\ talk \in 0..MaxTalk /\ losses \in 0..MaxLoss
           /\ MaxAsks \in Nat /\ MaxClock \in Nat /\ MaxTalk \in Nat /\ MaxLoss \in Nat
           /\ MaxNotes \in Nat /\ CloseAfter \in Nat
           /\ said \in Seq(Note) /\ Len(said) \in Nat /\ Asks \in Nat /\ Len(said) <= MaxNotes
           /\ \A i \in 1..Len(said) : said[i] \in Note /\ said[i].ask \in 0..MaxAsks
<1>1. /\ pull \in Pull /\ asking \in Asking /\ sweep \in Sweep /\ endings \subseteq Ending
      /\ clock \in 0..MaxClock /\ talk \in 0..MaxTalk /\ losses \in 0..MaxLoss
      /\ Len(said) <= MaxNotes
  BY DEF CleanupTypeOK
<1>2. /\ MaxAsks \in Nat /\ MaxClock \in Nat /\ MaxTalk \in Nat /\ MaxLoss \in Nat
      /\ MaxNotes \in Nat /\ CloseAfter \in Nat
  BY CleanupAssumption
<1>3. /\ pull.head \in Nat /\ pull.dismissed \subseteq 1..MaxAsks
      /\ asking.ask \in 0..MaxAsks /\ asking.head \in Nat
  BY <1>1 DEF Pull, Asking
<1>4. /\ sweep.from \in Nat /\ sweep.marks \in Nat /\ sweep.head \in Nat
      /\ sweep.by \in 0..MaxAsks /\ sweep.day \in 0..MaxClock
  BY <1>1 DEF Sweep
<1>5. said \in Seq(Note) /\ Asks \in Nat
  BY DEF CleanupInv, SaidInv
<1>6. Len(said) \in Nat /\ \A i \in 1..Len(said) : said[i] \in Note
  BY <1>5
<1>7. \A x \in Note : x.ask \in 0..MaxAsks
  BY DEF Note
<1>8. QED BY <1>1, <1>2, <1>3, <1>4, <1>5, <1>6, <1>7

\* A job that is away has its type and holds nothing.
LEMMA AwayJobs ==
    /\ NotAsking \in Asking /\ NotAsking.at = "away"
    /\ NotSweeping \in Sweep /\ NotSweeping.at = "away"
<1>1. 0 \in 0..MaxAsks /\ 0 \in 0..MaxClock
  BY CleanupAssumption
<1>2. QED BY <1>1 DEF NotAsking, Asking, NotSweeping, Sweep

\* Where nothing is said, nothing is forgotten.
LEMMA UnsaidKeeps ==
    ASSUME UNCHANGED said
    PROVE  /\ SaidInv => SaidInv'
           /\ Asks' = Asks
           /\ \A a, f, h, d : Silent(a, f, h, d) => Silent(a, f, h, d)'
           /\ \A a : ClosingsOf(a)' = ClosingsOf(a)
           /\ EndInv /\ UNCHANGED endings => EndInv'
<1>1. /\ \A what, n : Positions(what, n)' = Positions(what, n)
      /\ Positions("review", Len(said))' = Positions("review", Len(said))
      /\ Positions("closing", Len(said))' = Positions("closing", Len(said))
      /\ Len(said') = Len(said)
  BY DEF Positions
<1>2. /\ Asks' = Asks /\ \A a : AskedAt(a)' = AskedAt(a)
      /\ \A n : Markers(n)' = Markers(n)
      /\ Markers(Len(said))' = Markers(Len(said))
  BY <1>1 DEF Asks, AskedAt, Markers
<1>3. \A a : ClosingsOf(a)' = ClosingsOf(a)
  BY <1>1 DEF ClosingsOf
<1>4. \A a, f, h, d : Silent(a, f, h, d)' <=> Silent(a, f, h, d)
  BY <1>1, <1>2 DEF Silent, Reminded
<1>5. SaidInv => SaidInv'
  BY <1>1, <1>2 DEF SaidInv
<1>6. EndInv /\ UNCHANGED endings => EndInv'
  BY <1>1, <1>3, <1>4 DEF EndInv
<1>7. QED BY <1>2, <1>3, <1>4, <1>5, <1>6

\* What is said is a typed entry, of the day.
LEMMA SayType ==
    ASSUME CleanupTypeOK, CleanupInv,
           NEW what \in {"review", "marker", "reminder", "closing", "answer", "remark"},
           NEW ask \in 0..MaxAsks, NEW head \in Nat, Say(what, ask, head)
    PROVE  /\ \E note \in Note :
                 /\ said' = Append(said, note)
                 /\ note.what = what /\ note.ask = ask
           /\ Len(said') <= MaxNotes /\ \A i \in 1..Len(said') : said'[i] \in Note
<1> DEFINE note == [what |-> what, ask |-> ask, head |-> head, day |-> clock]
<1>1. note \in Note /\ note.what = what /\ note.ask = ask
  BY CleanupFacts DEF Note
<1>2. said' = Append(said, note) /\ Len(said) < MaxNotes
  BY DEF Say
<1> HIDE DEF note
<1>3. said' \in Seq(Note) /\ Len(said') = Len(said) + 1
  BY <1>1, <1>2, CleanupFacts, SaidGrows
<1>4. Len(said') <= MaxNotes /\ \A i \in 1..Len(said') : said'[i] \in Note
  <2>1. Len(said) \in Nat /\ MaxNotes \in Nat
    BY CleanupFacts
  <2>2. \A i \in 1..Len(said') : said'[i] \in Note
    BY <1>3
  <2>3. QED BY <1>2, <1>3, <2>1, <2>2
<1>5. QED BY <1>1, <1>2, <1>4

\* People may speak at any time: what a sweep has read is not changed by it.
LEMMA PeopleSpeak ==
    ASSUME CleanupTypeOK, CleanupInv, UNCHANGED <<asking, sweep, endings>>,
           NEW note \in Note, said' = Append(said, note), note.what \in {"answer", "remark"}
    PROVE  CleanupInv'
<1>1. SaidInv' /\ Asks' = Asks
  BY SaidStep, AsksGrow DEF CleanupInv
<1>2. EndInv'
  BY EndsStay DEF CleanupInv
<1>3. AskingInv'
  BY <1>1 DEF CleanupInv, AskingInv
<1>4. /\ Len(said') = Len(said) + 1 /\ said'[Len(said) + 1] = note
      /\ \A i \in 1..Len(said) : said'[i] = said[i]
      /\ Len(said) \in Nat /\ sweep.from \in Nat /\ sweep.marks \in Nat
  BY CleanupFacts, SaidGrows
<1>5. \A a, f, h, d : Silent(a, f, h, d) => Silent(a, f, h, d)'
  BY SilentStays DEF CleanupInv
<1>6. \A a : ClosingsOf(a)' = ClosingsOf(a)
  BY CleanupFacts, ClosingsGrow
<1>7. SweepInv'
  <2>1. ASSUME sweep.at \in {"comments", "timeline"}
        PROVE  /\ sweep'.from <= Len(said')
               /\ \A i \in (sweep'.from + 1)..Len(said') :
                     said'[i].what \in {"answer", "remark"}
    <3>1. /\ sweep.from <= Len(said)
          /\ \A i \in (sweep.from + 1)..Len(said) : said[i].what \in {"answer", "remark"}
      BY <2>1 DEF CleanupInv, SweepInv
    <3>2. ASSUME NEW i \in (sweep.from + 1)..(Len(said) + 1)
          PROVE  said'[i].what \in {"answer", "remark"}
      <4>1. CASE i = Len(said) + 1
        BY <1>4, <4>1
      <4>2. CASE i # Len(said) + 1
        <5>1. i \in (sweep.from + 1)..Len(said) /\ i \in 1..Len(said)
          BY <1>4, <4>2
        <5>2. QED BY <1>4, <3>1, <5>1
      <4>3. QED BY <4>1, <4>2
    <3>3. QED BY <1>4, <3>1, <3>2
  <2>2. sweep.at = "timeline" => sweep'.from <= sweep'.marks /\ sweep'.marks <= Len(said')
    BY <1>4 DEF CleanupInv, SweepInv
  <2>3. ASSUME sweep.at \in {"check", "write"}
        PROVE  /\ sweep'.todo # <<>>
               /\ sweep'.todo \in {<<"close">>, <<"explain", "close">>} =>
                     Silent(sweep.by, sweep.from, sweep.head, sweep.day)'
               /\ sweep'.todo = <<"close">> => ClosingsOf(sweep.by)' # {}
               /\ sweep'.todo = <<"explain", "close">> => ClosingsOf(sweep.by)' = {}
    <3>1. /\ sweep.todo # <<>>
          /\ sweep.todo \in {<<"close">>, <<"explain", "close">>} =>
                Silent(sweep.by, sweep.from, sweep.head, sweep.day)
          /\ sweep.todo = <<"close">> => ClosingsOf(sweep.by) # {}
          /\ sweep.todo = <<"explain", "close">> => ClosingsOf(sweep.by) = {}
      BY <2>3 DEF CleanupInv, SweepInv
    <3>2. UNCHANGED sweep
      OBVIOUS
    <3>3. ClosingsOf(sweep.by)' = ClosingsOf(sweep.by)
      BY CleanupFacts, ClosingsGrow
    <3>4. Silent(sweep.by, sweep.from, sweep.head, sweep.day)
              => Silent(sweep.by, sweep.from, sweep.head, sweep.day)'
      BY SilentStays DEF CleanupInv
    <3>5. QED BY <3>1, <3>2, <3>3, <3>4
  <2>4. QED BY <2>1, <2>2, <2>3 DEF SweepInv
<1>8. QED BY <1>1, <1>2, <1>3, <1>7 DEF CleanupInv

\* Where nothing is said and no job moves, everything stays.
LEMMA QuietKeeps ==
    ASSUME CleanupInv, UNCHANGED <<said, asking, sweep, endings>>
    PROVE  CleanupInv'
<1>1. SaidInv' /\ EndInv' /\ Asks' = Asks
  BY UnsaidKeeps DEF CleanupInv
<1>2. AskingInv'
  BY <1>1 DEF CleanupInv, AskingInv
<1>3. /\ Len(said') = Len(said)
      /\ Silent(sweep.by, sweep.from, sweep.head, sweep.day)
             => Silent(sweep.by, sweep.from, sweep.head, sweep.day)'
      /\ ClosingsOf(sweep.by)' = ClosingsOf(sweep.by)
  BY UnsaidKeeps
<1>4. SweepInv'
  BY <1>3 DEF CleanupInv, SweepInv
<1>5. QED BY <1>1, <1>2, <1>4 DEF CleanupInv

\* People answer, push, moderate; days pass.
LEMMA PeopleStep ==
    ASSUME CleanupTypeOK, CleanupInv, Answer \/ Push \/ Maintain \/ NextDay
    PROVE  CleanupTypeOK' /\ CleanupInv'
<1>0. /\ pull \in Pull /\ pull.head \in Nat
      /\ clock \in 0..MaxClock /\ talk \in 0..MaxTalk
      /\ MaxClock \in Nat /\ MaxTalk \in Nat /\ MaxAsks \in Nat
  BY CleanupFacts
<1>1. UNCHANGED <<asking, sweep, endings, losses>>
  BY DEF Answer, Push, Maintain, NextDay
<1>2. clock' \in 0..MaxClock /\ talk' \in 0..MaxTalk
  <2>1. /\ \/ clock' = clock
           \/ clock < MaxClock /\ clock' = clock + 1
        /\ \/ talk' = talk
           \/ talk > 0 /\ talk' = talk - 1
    BY DEF Answer, Push, Maintain, NextDay, Talks
  <2>2. QED BY <1>0, <2>1
<1>3. pull' \in Pull
  <2>1. CASE UNCHANGED pull
    BY <1>0, <2>1
  <2>2. CASE pull' = [pull EXCEPT !.head = @ + 1]
    <3>1. pull.head + 1 \in Nat
      BY <1>0
    <3>2. QED BY <1>0, <2>2, <3>1 DEF Pull
  <2>3. ASSUME NEW i \in Positions("review", Len(said)),
               pull' = [pull EXCEPT !.dismissed = @ \cup {said[i].ask}]
        PROVE  pull' \in Pull
    <3>1. said[i].ask \in 1..Asks /\ i \in 1..Len(said)
      BY DEF CleanupInv, SaidInv, Positions
    <3>2. said[i].ask \in 0..MaxAsks /\ Asks \in Nat /\ MaxAsks \in Nat
      BY <3>1, CleanupFacts
    <3>3. said[i].ask \in 1..MaxAsks
      BY <3>1, <3>2
    <3>4. QED BY <2>3, <3>3, CleanupFacts DEF Pull
  <2>4. CASE \/ pull' = [pull EXCEPT !.keep = TRUE]
             \/ pull' = [pull EXCEPT !.open = TRUE]
             \/ pull' = [pull EXCEPT !.policy = FALSE]
    BY <2>4, CleanupFacts DEF Pull
  <2>5. QED BY <2>1, <2>2, <2>3, <2>4 DEF Answer, Push, Maintain, NextDay
<1>4. CASE UNCHANGED said
  BY <1>1, <1>2, <1>3, <1>4, CleanupFacts, QuietKeeps DEF CleanupTypeOK
<1>5. ASSUME NEW what \in {"answer", "remark"}, NEW head \in Nat, Say(what, 0, head)
      PROVE  CleanupTypeOK' /\ CleanupInv'
  <2>1. /\ \E note \in Note : said' = Append(said, note) /\ note.what = what
        /\ Len(said') <= MaxNotes /\ \A i \in 1..Len(said') : said'[i] \in Note
    <3>1. 0 \in 0..MaxAsks
      BY <1>0
    <3>2. QED BY <1>5, <3>1, SayType
  <2>2. CleanupInv'
    BY <1>1, <2>1, PeopleSpeak
  <2>3. CleanupTypeOK'
    BY <1>1, <1>2, <1>3, <2>1, CleanupFacts DEF CleanupTypeOK
  <2>4. QED BY <2>2, <2>3
<1>6. \/ UNCHANGED said
      \/ Say("answer", 0, pull.head)
      \/ Say("answer", 0, pull.head + 1)
      \/ Say("remark", 0, pull.head)
  BY DEF Answer, Push, Maintain, NextDay
<1>7. pull.head \in Nat /\ pull.head + 1 \in Nat
  BY <1>0
<1>8. QED BY <1>4, <1>5, <1>6, <1>7

\* /request-changes posts its review, then its marker, then its label; it may be
\* refused or lose an answer at each.
LEMMA AskerStep ==
    ASSUME CleanupTypeOK, CleanupInv, StartAsking \/ PostReview \/ ArmMarker \/ ArmLabel
    PROVE  CleanupTypeOK' /\ CleanupInv'
<1>1. UNCHANGED <<sweep, endings, clock, talk>>
  BY DEF StartAsking, PostReview, ArmMarker, ArmLabel
<1>2. sweep.at = "away"
  <2>1. CASE StartAsking
    BY <2>1, AwayJobs DEF StartAsking, Idling
  <2>2. CASE asking.at # "away"
    BY <2>2 DEF CleanupInv, AskingInv
  <2>3. QED BY <2>1, <2>2 DEF PostReview, ArmMarker, ArmLabel
<1>3. SweepInv'
  BY <1>1, <1>2 DEF SweepInv
<1>0. asking.ask \in 0..MaxAsks /\ asking.head \in Nat /\ pull.head \in Nat
  BY CleanupFacts
<1>4. losses' \in 0..MaxLoss
  <2>1. losses \in 0..MaxLoss /\ MaxLoss \in Nat
    BY CleanupFacts
  <2>2. \/ losses' = losses
        \/ losses > 0 /\ losses' = losses - 1
    <3>1. ASSUME NEW o \in CallEnds, PaysFor(o)
          PROVE  \/ losses' = losses
                 \/ losses > 0 /\ losses' = losses - 1
      BY <3>1 DEF CallEnds, PaysFor
    <3>2. QED BY <3>1 DEF StartAsking, PostReview, ArmMarker, ArmLabel
  <2>3. QED BY <2>1, <2>2
<1>5. pull' \in Pull
  BY CleanupFacts DEF StartAsking, PostReview, ArmMarker, ArmLabel, Pull
<1>6. asking' \in Asking
  <2>1. CASE StartAsking
    <3>1. asking' = [at |-> "review", ask |-> Asks + 1, head |-> pull.head] /\ Asks < MaxAsks
      BY <2>1 DEF StartAsking
    <3>2. Asks \in Nat /\ MaxAsks \in Nat
      BY CleanupFacts
    <3>3. Asks + 1 \in 0..MaxAsks
      BY <3>1, <3>2
    <3>4. QED BY <1>0, <3>1, <3>3 DEF Asking
  <2>2. CASE asking' = NotAsking \/ \E at \in {"marker", "label"} : asking' = [asking EXCEPT !.at = at]
    BY <2>2, CleanupFacts, AwayJobs DEF Asking
  <2>3. QED BY <2>1, <2>2 DEF PostReview, ArmMarker, ArmLabel
<1>7. CASE UNCHANGED said
  <2>1. SaidInv' /\ EndInv' /\ Asks' = Asks
    BY <1>1, <1>7, UnsaidKeeps DEF CleanupInv
  <2>2. AskingInv'
    <3>1. CASE StartAsking
      <4>1. asking'.at = "review" /\ asking'.ask = Asks + 1
        BY <3>1 DEF StartAsking
      <4>2. QED BY <1>1, <1>2, <2>1, <4>1 DEF AskingInv
    <3>2. CASE asking' = NotAsking
      BY <3>2, AwayJobs DEF AskingInv
    <3>3. CASE ArmMarker /\ asking' = [asking EXCEPT !.at = "label"]
      <4>1. asking.at = "marker" /\ asking'.at = "label" /\ asking'.ask = asking.ask
        BY <3>3, CleanupFacts DEF ArmMarker, Asking
      <4>2. QED BY <1>1, <1>2, <2>1, <4>1 DEF CleanupInv, AskingInv
    <3>4. CASE PostReview /\ asking' # NotAsking
      <4>1. Say("review", asking.ask, asking.head)
        BY <3>4 DEF PostReview
      <4>2. said' # said
        BY <4>1, CleanupFacts DEF Say
      <4>3. QED BY <1>7, <4>2
    <3>5. QED BY <3>1, <3>2, <3>3, <3>4 DEF PostReview, ArmMarker, ArmLabel
  <2>3. CleanupTypeOK'
    BY <1>1, <1>4, <1>5, <1>6, <1>7 DEF CleanupTypeOK
  <2>4. QED BY <1>3, <2>1, <2>2, <2>3 DEF CleanupInv
<1>8. CASE PostReview /\ Say("review", asking.ask, asking.head)
  <2>1. asking.ask = Asks + 1
    BY <1>8 DEF CleanupInv, AskingInv, PostReview
  <2>2. PICK note \in Note : said' = Append(said, note) /\ note.what = "review"
                             /\ note.ask = asking.ask
    BY <1>0, <1>8, SayType
  <2>3. Len(said') <= MaxNotes /\ \A i \in 1..Len(said') : said'[i] \in Note
    BY <1>0, <1>8, SayType
  <2>4. SaidInv' /\ Asks' = Asks + 1
    BY <2>1, <2>2, SaidStep, AsksGrow DEF CleanupInv
  <2>5. EndInv'
    BY <1>1, <2>1, <2>2, EndsStay DEF CleanupInv
  <2>6. AskingInv'
    <3>1. CASE asking' = NotAsking
      BY <3>1, AwayJobs DEF AskingInv
    <3>2. CASE asking' = [asking EXCEPT !.at = "marker"]
      <4>1. asking'.at = "marker" /\ asking'.ask = asking.ask
        BY <3>2, CleanupFacts DEF Asking
      <4>2. Asks' > 0 /\ asking'.ask = Asks'
        BY <2>1, <2>4, <4>1, CleanupFacts
      <4>3. QED BY <1>1, <1>2, <4>1, <4>2 DEF AskingInv
    <3>3. QED BY <1>8, <3>1, <3>2 DEF PostReview
  <2>7. CleanupTypeOK'
    BY <1>1, <1>4, <1>5, <1>6, <2>3 DEF CleanupTypeOK
  <2>8. QED BY <1>3, <2>4, <2>5, <2>6, <2>7 DEF CleanupInv
<1>9. CASE ArmMarker /\ Say("marker", asking.ask, asking.head)
  <2>1. asking.ask = Asks /\ Asks > 0
    BY <1>9 DEF CleanupInv, AskingInv, ArmMarker
  <2>2. PICK note \in Note : said' = Append(said, note) /\ note.what = "marker"
                             /\ note.ask = asking.ask
    BY <1>0, <1>9, SayType
  <2>3. Len(said') <= MaxNotes /\ \A i \in 1..Len(said') : said'[i] \in Note
    BY <1>0, <1>9, SayType
  <2>4. SaidInv' /\ Asks' = Asks
    BY <2>1, <2>2, SaidStep, AsksGrow DEF CleanupInv
  <2>5. EndInv'
    BY <1>1, <2>2, EndsStay DEF CleanupInv
  <2>6. AskingInv'
    <3>1. CASE asking' = NotAsking
      BY <3>1, AwayJobs DEF AskingInv
    <3>2. CASE asking' = [asking EXCEPT !.at = "label"]
      <4>1. asking'.at = "label" /\ asking'.ask = asking.ask
        BY <3>2, CleanupFacts DEF Asking
      <4>2. QED BY <1>1, <1>2, <2>1, <2>4, <4>1 DEF AskingInv
    <3>3. QED BY <1>9, <3>1, <3>2 DEF ArmMarker
  <2>7. CleanupTypeOK'
    BY <1>1, <1>4, <1>5, <1>6, <2>3 DEF CleanupTypeOK
  <2>8. QED BY <1>3, <2>4, <2>5, <2>6, <2>7 DEF CleanupInv
<1>10. \/ UNCHANGED said
       \/ PostReview /\ Say("review", asking.ask, asking.head)
       \/ ArmMarker /\ Say("marker", asking.ask, asking.head)
  BY DEF StartAsking, PostReview, ArmMarker, ArmLabel
<1>11. QED BY <1>7, <1>8, <1>9, <1>10

\* The active record is that of the newest marker, of the greatest ask.
LEMMA NewestIs ==
    ASSUME SaidInv, NEW upTo \in 0..Len(said), Markers(upTo) # {}
    PROVE  /\ Newest(upTo) \in 1..Asks
           /\ \A i \in Markers(upTo) : said[i].ask <= Newest(upTo)
<1>1. Len(said) \in Nat /\ upTo \in Nat /\ upTo <= Len(said)
  BY DEF SaidInv
<1>2. Markers(upTo) \subseteq 0..upTo /\ Markers(upTo) \subseteq Markers(Len(said))
  BY <1>1 DEF Markers, Positions
<1>3. \E m \in Markers(upTo) : \A j \in Markers(upTo) : j <= m
  BY <1>1, <1>2, GreatestOf
<1> DEFINE last == CHOOSE i \in Markers(upTo) : \A j \in Markers(upTo) : j <= i
<1>4. last \in Markers(upTo) /\ \A j \in Markers(upTo) : j <= last
  BY <1>3
<1>5. Newest(upTo) = said[last].ask
  BY DEF Newest
<1> HIDE DEF last
<1>6. said[last].ask \in 1..Asks /\ \A j \in Markers(upTo) : said[j].ask <= said[last].ask
  BY <1>2, <1>4 DEF SaidInv
<1>7. QED BY <1>5, <1>6

\* What the sweep decides is a list of writes, and a close of it rests on what
\* the reads that began at sweep.from showed.
LEMMA DecisionRests ==
    ASSUME CleanupTypeOK, CleanupInv, sweep.at = "timeline", NEW ask \in 1..Asks,
           \A i \in Markers(sweep.marks) : said[i].ask <= ask,
           NEW todo, todo = Decision(ask, sweep.marks, Len(said))
    PROVE  /\ todo \in {<<>>, <<"clear">>, <<"remind">>, <<"close">>, <<"explain", "close">>}
           /\ todo \in {<<"close">>, <<"explain", "close">>} =>
                 Silent(ask, sweep.from, sweep.head, sweep.day)
           /\ todo = <<"close">> => ClosingsOf(ask) # {}
           /\ todo = <<"explain", "close">> => ClosingsOf(ask) = {}
<1>1. /\ sweep.from \in Nat /\ sweep.marks \in Nat /\ Len(said) \in Nat
  BY CleanupFacts
<1>2. /\ sweep.from <= sweep.marks /\ sweep.marks <= Len(said)
      /\ \A i \in (sweep.from + 1)..Len(said) : said[i].what \in {"answer", "remark"}
  BY DEF CleanupInv, SweepInv
<1>3. \/ todo = <<>> \/ todo = <<"clear">> \/ todo = <<"remind">>
      \/ /\ todo = <<"close">> \/ todo = <<"explain", "close">>
         /\ said[AskedAt(ask)].head = sweep.head
         /\ ~AnsweredSince(ask, Len(said))
         /\ Reminded(ask, sweep.marks)
         /\ CloseDue(ask, sweep.day)
         /\ todo = <<"close">> <=> CloseAttempted(ask, sweep.marks)
  <2>1. <<"close">> # <<"explain", "close">>
    OBVIOUS
  <2>2. QED BY <2>1 DEF Decision
<1>4. <<"close">> \notin {<<>>, <<"clear">>, <<"remind">>, <<"explain", "close">>}
      /\ <<"explain", "close">> \notin {<<>>, <<"clear">>, <<"remind">>, <<"close">>}
  OBVIOUS
<1>5. \A what : what \notin {"answer", "remark"} =>
          /\ Positions(what, sweep.marks) = Positions(what, sweep.from)
          /\ Positions(what, Len(said)) = Positions(what, sweep.marks)
  BY <1>1, <1>2 DEF Positions
<1>6. CASE /\ todo \in {<<"close">>, <<"explain", "close">>}
           /\ said[AskedAt(ask)].head = sweep.head
           /\ ~AnsweredSince(ask, Len(said))
           /\ Reminded(ask, sweep.marks)
           /\ CloseDue(ask, sweep.day)
           /\ todo = <<"close">> <=> CloseAttempted(ask, sweep.marks)
  <2>1. Reminded(ask, sweep.from)
    <3>1. Positions("reminder", sweep.marks) = Positions("reminder", sweep.from)
      BY <1>5
    <3>2. QED BY <1>6, <3>1 DEF Reminded
  <2>2. \A i \in Positions("answer", sweep.from) : i <= AskedAt(ask)
    <3>1. Positions("answer", sweep.from) \subseteq Positions("answer", Len(said))
      BY <1>1, <1>2 DEF Positions
    <3>2. \A i \in Positions("answer", Len(said)) : ~(i > AskedAt(ask)) /\ i \in Nat
      BY <1>6 DEF AnsweredSince, Positions
    <3>3. AskedAt(ask) \in Nat
      BY <1>1, AskedAtIs DEF CleanupInv
    <3>4. QED BY <3>1, <3>2, <3>3
  <2>3. \A i \in Markers(sweep.from) : said[i].ask <= ask
    <3>1. Markers(sweep.from) = Markers(sweep.marks)
      BY <1>5 DEF Markers
    <3>2. QED BY <3>1
  <2>4. sweep.from \in 0..Len(said)
    BY <1>1, <1>2
  <2>5. Silent(ask, sweep.from, sweep.head, sweep.day)
    BY <1>6, <2>1, <2>2, <2>3, <2>4 DEF Silent, CloseDue
  <2>6. ClosingsOf(ask) # {} <=> CloseAttempted(ask, sweep.marks)
    <3>1. Positions("closing", Len(said)) = Positions("closing", sweep.marks)
      BY <1>5
    <3>2. QED BY <3>1 DEF ClosingsOf, CloseAttempted
  <2>7. QED BY <1>4, <1>6, <2>5, <2>6
<1>7. QED BY <1>3, <1>4, <1>6

\* A step by which the sweep reads keeps everything.
LEMMA SweepReads ==
    ASSUME CleanupTypeOK, CleanupInv,
           \/ StartSweep \/ ReadTarget \/ ReadComments \/ ReadTimeline
           \/ ReadFails \/ CheckSourcePolicy
    PROVE  CleanupTypeOK' /\ CleanupInv'
<1>0. /\ sweep \in Sweep /\ losses \in 0..MaxLoss /\ MaxLoss \in Nat
      /\ clock \in 0..MaxClock /\ pull \in Pull /\ Len(said) \in Nat
      /\ sweep.from \in Nat /\ sweep.marks \in Nat
  BY CleanupFacts
<1>1. UNCHANGED <<pull, said, clock, asking, endings, talk>>
  BY DEF StartSweep, ReadTarget, ReadComments, ReadTimeline, ReadFails, CheckSourcePolicy
<1>2. losses' \in 0..MaxLoss
  <2>1. losses' = losses \/ (losses > 0 /\ losses' = losses - 1)
    BY DEF StartSweep, ReadTarget, ReadComments, ReadTimeline, ReadFails, CheckSourcePolicy
  <2>2. QED BY <1>0, <2>1
<1>3. SaidInv' /\ EndInv' /\ Asks' = Asks
  BY <1>1, UnsaidKeeps DEF CleanupInv
<1>4. asking.at = "away"
  <2>1. CASE StartSweep
    BY <2>1, AwayJobs DEF StartSweep, Idling
  <2>2. CASE sweep.at # "away"
    BY <2>2 DEF CleanupInv, AskingInv
  <2>3. QED BY <2>1, <2>2
            DEF ReadTarget, ReadComments, ReadTimeline, ReadFails, CheckSourcePolicy
<1>5. AskingInv'
  BY <1>1, <1>4 DEF AskingInv
<1>6. ASSUME sweep' \in Sweep, SweepInv'
      PROVE  CleanupTypeOK' /\ CleanupInv'
  BY <1>1, <1>2, <1>3, <1>5, <1>6 DEF CleanupTypeOK, CleanupInv
<1>7. CASE Leave
  BY <1>6, <1>7, AwayJobs DEF Leave, SweepInv
<1>8. CASE StartSweep
  <2>1. PICK lane \in BOOLEAN :
            sweep' = [NotSweeping EXCEPT !.at = "target", !.day = clock, !.lane = lane]
    BY <1>8 DEF StartSweep
  <2>2. sweep' \in Sweep /\ sweep'.at = "target"
    BY <1>0, <2>1, AwayJobs DEF Sweep
  <2>3. QED BY <1>6, <2>2 DEF SweepInv
<1>9. CASE ReadTarget /\ ~Leave
  <2>1. sweep' = [sweep EXCEPT !.at = "comments", !.from = Len(said),
                               !.label = pull.label, !.head = pull.head]
    BY <1>9 DEF ReadTarget
  <2>2. sweep' \in Sweep /\ sweep'.at = "comments" /\ sweep'.from = Len(said)
    BY <1>0, <2>1 DEF Sweep, Pull
  <2>3. SweepInv'
    BY <1>0, <1>1, <2>2 DEF SweepInv
  <2>4. QED BY <1>6, <2>2, <2>3
<1>10. CASE ReadComments
  <2>1. sweep.at = "comments" /\ sweep' = [sweep EXCEPT !.at = "timeline", !.marks = Len(said)]
    BY <1>10 DEF ReadComments
  <2>2. /\ sweep' \in Sweep /\ sweep'.at = "timeline" /\ sweep'.from = sweep.from
        /\ sweep'.marks = Len(said)
    BY <1>0, <2>1 DEF Sweep
  <2>3. SweepInv'
    BY <1>0, <1>1, <2>1, <2>2 DEF CleanupInv, SweepInv
  <2>4. QED BY <1>6, <2>2, <2>3
<1>11. CASE ReadTimeline /\ ~Leave
  <2> DEFINE ask == Newest(sweep.marks)
             todo == Decision(ask, sweep.marks, Len(said))
  <2>1. /\ sweep.at = "timeline" /\ Markers(sweep.marks) # {}
        /\ todo # <<>>
        /\ sweep' = [sweep EXCEPT !.at = "check", !.by = ask, !.todo = todo]
    BY <1>11 DEF ReadTimeline
  <2>2. sweep.marks \in 0..Len(said)
    BY <1>0, <2>1 DEF CleanupInv, SweepInv
  <2>3. ask \in 1..Asks /\ \A i \in Markers(sweep.marks) : said[i].ask <= ask
    BY <2>1, <2>2, NewestIs DEF CleanupInv
  <2>4. ask \in 0..MaxAsks
    <3>1. PICK i \in Markers(Len(said)) : ask = said[i].ask
      <4>1. \E m \in Markers(sweep.marks) : \A j \in Markers(sweep.marks) : j <= m
        <5>1. Markers(sweep.marks) \subseteq 0..sweep.marks
          BY <1>0 DEF Markers, Positions
        <5>2. QED BY <1>0, <2>1, <5>1, GreatestOf
      <4>2. \E m \in Markers(sweep.marks) : ask = said[m].ask
        BY <4>1 DEF Newest
      <4>3. Markers(sweep.marks) \subseteq Markers(Len(said))
        BY <1>0, <2>2 DEF Markers, Positions
      <4>4. QED BY <4>2, <4>3
    <3>2. i \in 1..Len(said)
      BY DEF Markers, Positions
    <3>3. QED BY <3>1, <3>2, CleanupFacts
  <2> HIDE DEF ask
  <2>5. /\ todo \in {<<>>, <<"clear">>, <<"remind">>, <<"close">>, <<"explain", "close">>}
        /\ todo \in {<<"close">>, <<"explain", "close">>} =>
              Silent(ask, sweep.from, sweep.head, sweep.day)
        /\ todo = <<"close">> => ClosingsOf(ask) # {}
        /\ todo = <<"explain", "close">> => ClosingsOf(ask) = {}
    BY <2>1, <2>3, DecisionRests
  <2> HIDE DEF todo
  <2>6. sweep' \in Sweep /\ sweep'.at = "check" /\ sweep'.by = ask /\ sweep'.todo = todo
        /\ sweep'.from = sweep.from /\ sweep'.head = sweep.head /\ sweep'.day = sweep.day
    BY <1>0, <2>1, <2>4, <2>5 DEF Sweep
  <2>7. /\ Silent(ask, sweep.from, sweep.head, sweep.day)
               => Silent(sweep.by, sweep.from, sweep.head, sweep.day)'
        /\ ClosingsOf(sweep.by)' = ClosingsOf(ask)
    <3>1. Silent(sweep.by, sweep.from, sweep.head, sweep.day)'
             <=> Silent(ask, sweep.from, sweep.head, sweep.day)
      <4>1. /\ \A what, n : Positions(what, n)' = Positions(what, n)
            /\ Positions("review", Len(said))' = Positions("review", Len(said))
            /\ Positions("answer", sweep.from)' = Positions("answer", sweep.from)
            /\ Positions("reminder", sweep.from)' = Positions("reminder", sweep.from)
            /\ Positions("marker", sweep.from)' = Positions("marker", sweep.from)
        BY <1>1, <2>6 DEF Positions
      <4>2. AskedAt(sweep.by)' = AskedAt(ask) /\ Markers(sweep.from)' = Markers(sweep.from)
        BY <1>1, <2>6, <4>1 DEF AskedAt, Markers
      <4>3. Reminded(sweep.by, sweep.from)' <=> Reminded(ask, sweep.from)
        BY <1>1, <2>6, <4>1 DEF Reminded
      <4>4. QED BY <1>1, <1>3, <2>6, <4>1, <4>2, <4>3 DEF Silent
    <3>2. ClosingsOf(sweep.by)' = ClosingsOf(ask)
      BY <1>1, <2>6 DEF ClosingsOf, Positions
    <3>3. QED BY <3>1, <3>2
  <2>8. SweepInv'
    BY <2>1, <2>5, <2>6, <2>7 DEF SweepInv
  <2>9. QED BY <1>6, <2>6, <2>8
<1>12. CASE CheckSourcePolicy /\ ~Leave
  <2>1. sweep.at = "check" /\ sweep' = [sweep EXCEPT !.at = "write"]
    BY <1>12 DEF CheckSourcePolicy
  <2>2. /\ sweep' \in Sweep /\ sweep'.at = "write" /\ sweep'.by = sweep.by
        /\ sweep'.from = sweep.from /\ sweep'.head = sweep.head /\ sweep'.day = sweep.day
        /\ sweep'.todo = sweep.todo
    BY <1>0, <2>1 DEF Sweep
  <2>3. /\ Silent(sweep.by, sweep.from, sweep.head, sweep.day)
               => Silent(sweep.by, sweep.from, sweep.head, sweep.day)'
        /\ ClosingsOf(sweep.by)' = ClosingsOf(sweep.by)
    BY <1>1, <2>2, UnsaidKeeps
  <2>4. SweepInv'
    BY <2>1, <2>2, <2>3 DEF CleanupInv, SweepInv
  <2>5. QED BY <1>6, <2>2, <2>4
<1>13. QED BY <1>7, <1>8, <1>9, <1>10, <1>11, <1>12 DEF ReadFails

\* A write of the sweep keeps everything: it explains an ask once, and closes only
\* with its explanation given.
LEMMA SweepWrites ==
    ASSUME CleanupTypeOK, CleanupInv, Write
    PROVE  CleanupTypeOK' /\ CleanupInv'
<1> DEFINE what == Head(sweep.todo)
           rest == Tail(sweep.todo)
           Ends == \/ sweep' = NotSweeping
                   \/ rest # <<>> /\ sweep' = [sweep EXCEPT !.at = "check", !.todo = rest]
           entry == [ask |-> sweep.by, from |-> sweep.from, head |-> sweep.head,
                     day |-> sweep.day]
<1>0. /\ sweep \in Sweep /\ losses \in 0..MaxLoss /\ MaxLoss \in Nat
      /\ pull \in Pull /\ Len(said) \in Nat /\ sweep.by \in 0..MaxAsks
      /\ sweep.from \in Nat /\ sweep.head \in Nat /\ sweep.day \in 0..MaxClock
      /\ said \in Seq(Note) /\ endings \subseteq Ending /\ sweep.at = "write"
      /\ MaxAsks \in Nat /\ Asks \in Nat
  BY CleanupFacts DEF Write
<1>1. UNCHANGED <<clock, asking, talk>>
  BY DEF Write
<1>2. PICK o \in CallEnds :
        /\ PaysFor(o)
        /\ IF o = "refused" THEN UNCHANGED <<pull, said>> ELSE Written(what)
        /\ endings' = IF what # "close" \/ o = "refused" THEN endings
                      ELSE endings \cup {entry}
        /\ sweep' = IF o = "ok" /\ rest # <<>>
                    THEN [sweep EXCEPT !.at = "check", !.todo = rest]
                    ELSE NotSweeping
  BY Zenon DEF Write
<1>3. losses' \in 0..MaxLoss
  <2>1. losses' = losses \/ (losses > 0 /\ losses' = losses - 1)
    BY <1>2 DEF CallEnds, PaysFor
  <2>2. QED BY <1>0, <2>1
<1>4. sweep.todo \in {<<"clear">>, <<"remind">>, <<"close">>, <<"explain", "close">>}
  <2>1. sweep.todo # <<>>
    BY <1>0 DEF CleanupInv, SweepInv
  <2>2. QED BY <1>0, <2>1 DEF Sweep
<1>5. /\ sweep.todo = <<"clear">> => what = "clear" /\ rest = <<>>
      /\ sweep.todo = <<"remind">> => what = "remind" /\ rest = <<>>
      /\ sweep.todo = <<"close">> => what = "close" /\ rest = <<>>
      /\ sweep.todo = <<"explain", "close">> => what = "explain" /\ rest = <<"close">>
  <2>1. /\ Head(<<"clear">>) = "clear" /\ Head(<<"remind">>) = "remind"
        /\ Head(<<"close">>) = "close" /\ Head(<<"explain", "close">>) = "explain"
    OBVIOUS
  <2>2. /\ Tail(<<"clear">>) = <<>> /\ Tail(<<"remind">>) = <<>>
        /\ Tail(<<"close">>) = <<>> /\ Tail(<<"explain", "close">>) = <<"close">>
    OBVIOUS
  <2>3. QED BY <2>1, <2>2, Zenon
<1>6. asking.at = "away"
  BY <1>0 DEF CleanupInv, AskingInv
<1>7. AskingInv'
  BY <1>1, <1>6 DEF AskingInv
<1> HIDE DEF what, rest, entry
<1>8. CASE o = "refused"
  <2>1. UNCHANGED <<pull, said, endings>> /\ sweep' = NotSweeping
    BY <1>2, <1>8
  <2>2. SaidInv' /\ EndInv'
    BY <2>1, UnsaidKeeps DEF CleanupInv
  <2>3. sweep' \in Sweep /\ SweepInv'
    BY <2>1, AwayJobs DEF SweepInv
  <2>4. QED BY <1>1, <1>3, <1>7, <2>1, <2>2, <2>3 DEF CleanupTypeOK, CleanupInv
<1>9. CASE o # "refused" /\ what = "clear"
  <2>1. /\ UNCHANGED <<said, endings>> /\ sweep' = NotSweeping
        /\ pull' = [pull EXCEPT !.label = FALSE]
    BY <1>2, <1>4, <1>5, <1>9 DEF Written
  <2>2. SaidInv' /\ EndInv'
    BY <2>1, UnsaidKeeps DEF CleanupInv
  <2>3. sweep' \in Sweep /\ SweepInv' /\ pull' \in Pull
    BY <1>0, <2>1, AwayJobs DEF SweepInv, Pull
  <2>4. QED BY <1>1, <1>3, <1>7, <2>1, <2>2, <2>3 DEF CleanupTypeOK, CleanupInv
<1>10. CASE o # "refused" /\ what = "remind"
  <2>1. /\ UNCHANGED <<pull, endings>> /\ sweep' = NotSweeping
        /\ Say("reminder", sweep.by, sweep.head)
    BY <1>2, <1>4, <1>5, <1>10 DEF Written
  <2>2. /\ \E note \in Note : said' = Append(said, note) /\ note.what = "reminder"
        /\ Len(said') <= MaxNotes /\ \A i \in 1..Len(said') : said'[i] \in Note
    BY <1>0, <2>1, SayType
  <2>3. SaidInv' /\ EndInv'
    BY <2>1, <2>2, SaidStep, EndsStay DEF CleanupInv
  <2>4. sweep' \in Sweep /\ SweepInv'
    BY <2>1, AwayJobs DEF SweepInv
  <2>5. QED BY <1>1, <1>3, <1>7, <2>1, <2>2, <2>3, <2>4 DEF CleanupTypeOK, CleanupInv
<1>11. CASE o # "refused" /\ what = "explain"
  <2>1. sweep.todo = <<"explain", "close">> /\ rest = <<"close">>
    BY <1>4, <1>5, <1>11
  <2>2. /\ Silent(sweep.by, sweep.from, sweep.head, sweep.day)
        /\ ClosingsOf(sweep.by) = {}
    BY <1>0, <2>1 DEF CleanupInv, SweepInv
  <2>3. UNCHANGED <<pull, endings>> /\ Say("closing", sweep.by, sweep.head)
    BY <1>2, <1>11 DEF Written
  <2>4. PICK note \in Note : said' = Append(said, note) /\ note.what = "closing"
                             /\ note.ask = sweep.by
    BY <1>0, <2>3, SayType
  <2>5. Len(said') <= MaxNotes /\ \A i \in 1..Len(said') : said'[i] \in Note
    BY <1>0, <2>3, SayType
  <2>6. SaidInv' /\ EndInv'
    BY <2>2, <2>3, <2>4, SaidStep, EndsStay DEF CleanupInv
  <2>7. sweep' \in Sweep /\ SweepInv'
    <3>1. CASE sweep' = NotSweeping
      BY <3>1, AwayJobs DEF SweepInv
    <3>2. CASE sweep' = [sweep EXCEPT !.at = "check", !.todo = <<"close">>]
      <4>1. /\ sweep' \in Sweep /\ sweep'.at = "check" /\ sweep'.by = sweep.by
            /\ sweep'.from = sweep.from /\ sweep'.head = sweep.head
            /\ sweep'.day = sweep.day /\ sweep'.todo = <<"close">>
        BY <1>0, <3>2 DEF Sweep
      <4>2. ASSUME NEW a, NEW f, NEW h, NEW d, Silent(a, f, h, d),
                   sweep'.by = a, sweep'.from = f, sweep'.head = h, sweep'.day = d
            PROVE  Silent(sweep.by, sweep.from, sweep.head, sweep.day)'
        <5>1. Silent(a, f, h, d)'
          BY <2>4, <4>2, SilentStays DEF CleanupInv
        <5>2. /\ Positions("answer", sweep.from)' = Positions("answer", f)'
              /\ Positions("reminder", sweep.from)' = Positions("reminder", f)'
              /\ Markers(sweep.from)' = Markers(f)'
              /\ AskedAt(sweep.by)' = AskedAt(a)'
          BY <4>2 DEF Positions, Markers, AskedAt
        <5>3. Reminded(sweep.by, sweep.from)' <=> Reminded(a, f)'
          BY <4>2, <5>2 DEF Reminded
        <5>4. QED BY <4>2, <5>1, <5>2, <5>3 DEF Silent
      <4>3. Silent(sweep.by, sweep.from, sweep.head, sweep.day)'
        BY <2>2, <4>1, <4>2
      <4>4. ClosingsOf(sweep.by)' # {}
        <5>1. ASSUME NEW a, note.ask = a, sweep'.by = a
              PROVE  ClosingsOf(sweep.by)' # {}
          <6>1. Len(said) + 1 \in ClosingsOf(a)'
            BY <1>0, <2>4, <5>1, ClosingsGrow
          <6>2. ClosingsOf(sweep.by)' = ClosingsOf(a)'
            BY <5>1 DEF ClosingsOf
          <6>3. QED BY <6>1, <6>2
        <5>2. QED BY <2>4, <4>1, <5>1
      <4>5. <<"close">> # <<>> /\ <<"close">> # <<"explain", "close">>
        OBVIOUS
      <4>6. QED BY <4>1, <4>3, <4>4, <4>5 DEF SweepInv
    <3>3. QED BY <1>2, <2>1, <3>1, <3>2
  <2>8. QED BY <1>1, <1>3, <1>7, <2>3, <2>5, <2>6, <2>7, <1>0 DEF CleanupTypeOK, CleanupInv
<1>12. CASE o # "refused" /\ what = "close"
  <2>1. sweep.todo = <<"close">> /\ rest = <<>>
    BY <1>4, <1>5, <1>12
  <2>2. /\ UNCHANGED said /\ sweep' = NotSweeping /\ endings' = endings \cup {entry}
        /\ pull' = [pull EXCEPT !.open = FALSE]
    BY <1>2, <1>12, <2>1 DEF Written
  <2>3. /\ Silent(sweep.by, sweep.from, sweep.head, sweep.day)
        /\ ClosingsOf(sweep.by) # {}
    BY <1>0, <2>1 DEF CleanupInv, SweepInv
  <2>4. SaidInv' /\ Len(said') = Len(said)
    BY <2>2, UnsaidKeeps DEF CleanupInv
  <2>5. EndInv'
    <3>1. Positions("closing", Len(said))' = Positions("closing", Len(said))
      BY <2>2 DEF Positions
    <3>2. (\A i, j \in Positions("closing", Len(said)) : said[i].ask = said[j].ask => i = j)'
      BY <2>2, <3>1 DEF CleanupInv, EndInv
    <3>3. ASSUME NEW e \in endings'
          PROVE  Silent(e.ask, e.from, e.head, e.day)' /\ ClosingsOf(e.ask)' # {}
      <4>1. Silent(e.ask, e.from, e.head, e.day) /\ ClosingsOf(e.ask) # {}
        <5>1. CASE e \in endings
          BY <5>1 DEF CleanupInv, EndInv
        <5>2. CASE e = entry
          BY <2>3, <5>2 DEF entry
        <5>3. QED BY <2>2, <5>1, <5>2
      <4>2. QED BY <2>2, <4>1, UnsaidKeeps
    <3>4. QED BY <3>2, <3>3 DEF EndInv
  <2>6. endings' \subseteq Ending
    <3>1. sweep.by \in 1..MaxAsks
      <4>1. sweep.by \in 1..Asks
        BY <2>3 DEF Silent
      <4>2. QED BY <1>0, <4>1
    <3>2. entry \in Ending
      BY <1>0, <3>1 DEF entry, Ending
    <3>3. QED BY <1>0, <2>2, <3>2
  <2>7. sweep' \in Sweep /\ SweepInv' /\ pull' \in Pull
    BY <1>0, <2>2, AwayJobs DEF SweepInv, Pull
  <2>8. QED BY <1>1, <1>3, <1>7, <2>2, <2>4, <2>5, <2>6, <2>7 DEF CleanupTypeOK, CleanupInv
<1>13. QED BY <1>4, <1>5, <1>8, <1>9, <1>10, <1>11, <1>12

\* The types and the invariant hold in every state of the cleanup.
LEMMA CleanupInvHolds == CleanupSpec => [](CleanupTypeOK /\ CleanupInv)
<1>1. CleanupInit => CleanupTypeOK /\ CleanupInv
  <2> SUFFICES ASSUME CleanupInit PROVE CleanupTypeOK /\ CleanupInv
    OBVIOUS
  <2>1. said = <<>> /\ Len(said) = 0 /\ said \in Seq(Note) /\ endings = {}
        /\ asking = NotAsking /\ sweep = NotSweeping
    BY DEF CleanupInit
  <2>2. \A what : Positions(what, Len(said)) = {}
    BY <2>1 DEF Positions
  <2>3. {said[i].ask : i \in Positions("review", Len(said))} = {}
    BY <2>2
  <2>4. Asks = 0
    BY <2>3, FS_EmptySet DEF Asks
  <2>5. Markers(Len(said)) = {}
    BY <2>2 DEF Markers
  <2>6. SaidInv
    BY <2>1, <2>2, <2>3, <2>4, <2>5 DEF SaidInv
  <2>7. AskingInv /\ SweepInv
    BY <2>1, AwayJobs DEF AskingInv, SweepInv
  <2>8. EndInv
    BY <2>1, <2>2 DEF EndInv
  <2>9. pull \in Pull /\ clock \in 0..MaxClock /\ talk \in 0..MaxTalk /\ losses \in 0..MaxLoss
    BY CleanupAssumption DEF CleanupInit, Pull
  <2>10. CleanupTypeOK
    BY <2>1, <2>9, AwayJobs, CleanupAssumption DEF CleanupTypeOK
  <2>11. QED BY <2>6, <2>7, <2>8, <2>10 DEF CleanupInv
<1>2. CleanupTypeOK /\ CleanupInv /\ [CleanupNext]_cleanupVars
          => (CleanupTypeOK /\ CleanupInv)'
  <2>1. ASSUME CleanupTypeOK, CleanupInv, UNCHANGED cleanupVars
        PROVE  CleanupTypeOK' /\ CleanupInv'
    BY <2>1, QuietKeeps DEF cleanupVars, CleanupTypeOK
  <2>2. QED BY <2>1, PeopleStep, AskerStep, SweepReads, SweepWrites DEF CleanupNext
<1>3. QED BY <1>1, <1>2, PTL DEF CleanupSpec

\* The types of the cleanup hold: no ask passes the bound, and what is dismissed,
\* decided and recorded is of asks that were made
\* (wheelhouse_core.sweep_pending_contributor_actions).
THEOREM CleanupTypeCorrect == CleanupSpec => []CleanupTypeOK
<1>1. CleanupTypeOK /\ CleanupInv => CleanupTypeOK
  OBVIOUS
<1>2. QED BY <1>1, CleanupInvHolds, PTL

\* The cleanup closes only in silence, and explains each ask's close exactly once
\* over all retries (wheelhouse_core._sweep_pending_pr).
THEOREM CleanupClosesInSilence == CleanupSpec => []ClosedOnlyInSilence
<1>1. CleanupTypeOK /\ CleanupInv => ClosedOnlyInSilence
  <2> SUFFICES ASSUME CleanupTypeOK, CleanupInv, NEW e \in endings
               PROVE  /\ Reminded(e.ask, e.from)
                      /\ {i \in Positions("answer", e.from) : i > AskedAt(e.ask)} = {}
                      /\ said[AskedAt(e.ask)].head = e.head
                      /\ e.day >= said[AskedAt(e.ask)].day + CloseAfter
                      /\ \A i \in Markers(e.from) : said[i].ask <= e.ask
                      /\ Cardinality(ClosingsOf(e.ask)) = 1
    BY DEF ClosedOnlyInSilence, ClosingsOf
  <2>1. Silent(e.ask, e.from, e.head, e.day) /\ ClosingsOf(e.ask) # {}
    BY DEF CleanupInv, EndInv
  <2>2. {i \in Positions("answer", e.from) : i > AskedAt(e.ask)} = {}
    <3>1. AskedAt(e.ask) \in Nat /\ e.from \in Nat
      <4>1. e.ask \in 1..Asks /\ e.from \in 0..Len(said)
        BY <2>1 DEF Silent
      <4>2. Len(said) \in Nat
        BY CleanupFacts
      <4>3. QED BY <4>1, <4>2, AskedAtIs DEF CleanupInv
    <3>2. \A i \in Positions("answer", e.from) : i <= AskedAt(e.ask) /\ i \in Nat
      BY <2>1, <3>1 DEF Silent, Positions
    <3>3. QED BY <3>1, <3>2
  <2>3. Cardinality(ClosingsOf(e.ask)) = 1
    <3>1. PICK i : i \in ClosingsOf(e.ask)
      BY <2>1
    <3>2. ClosingsOf(e.ask) = {i}
      BY <3>1 DEF ClosingsOf, CleanupInv, EndInv
    <3>3. QED BY <3>2, FS_Singleton
  <2>4. QED BY <2>1, <2>2, <2>3 DEF Silent
<1>2. QED BY <1>1, CleanupInvHolds, PTL

-----------------------------------------------------------------------------
(* The policy on maintainer edits: a close rests on a notice and an open      *)
(* audit card about the same revision, and no revision is noticed twice, for  *)
(* any number of heads, runs, notices, acts of people and lost calls.         *)

\* The notice that a policy names, with the revision it is about.
Named(p) == [id |-> p.notice, rev |-> p.rev]

\* Two notices that stand are never about one revision.
NoticedOnce ==
    \A n, k \in notices : n.rev = k.rev /\ ~n.gone /\ ~k.gone => n = k

\* A notice on the card was on an open card; from the hand-off to the close the
\* run has a policy that such a card named; what it closes is what it names.
CardsAreNamed == audit.policy.notice # 0 => Named(audit.policy) \in audits
ClosesAreNamed ==
    /\ pass.at \in {"vet", "trust", "last", "close"} =>
          pass.policy.notice # 0 /\ Named(pass.policy) \in audits
    /\ pass.at = "close" => pass.seen = pass.policy.rev

PolicyInv ==
    /\ PolicyTypeOK
    /\ NoticedOnce /\ CardsAreNamed /\ ClosesAreNamed
    /\ shut \subseteq audits

-----------------------------------------------------------------------------
\* Fewer lapses are still a number within their bound (one lost call).
LEMMA LapseType ==
    ASSUME lapses \in 0..MaxLapses, NEW o \in Fates, Lapse(o)
    PROVE  lapses' \in 0..MaxLapses
BY PolicyAssumption DEF PolicyAssumption, Fates, Lapse

\* A step of people leaves cards, runs and closes alone; a push or a deleted
\* notice makes no second notice (contributors, maintainers and the owner).
LEMMA PeopleKeep ==
    ASSUME PolicyInv, MoveOffer \/ HandleCard
    PROVE  PolicyInv'
<1> USE PolicyAssumption DEF PolicyAssumption, PolicyInv, PolicyTypeOK, Revs
<1>1. CASE MoveOffer
  <2>1. UNCHANGED <<audit, pass, audits, shut, lapses, passes>>
        /\ whims' \in 0..MaxWhims
    BY <1>1 DEF MoveOffer
  <2>2. offer' \in Offer
    <3>1. offer.rev \in 0..MaxRevs /\ offer.open \in BOOLEAN /\ offer.free \in BOOLEAN
      BY DEF Offer
    <3>2. CASE offer.rev < MaxRevs /\ offer' = [offer EXCEPT !.rev = @ + 1]
      <4>1. offer.rev + 1 \in 0..MaxRevs
        BY <3>1, <3>2
      <4>2. QED BY <3>2, <4>1 DEF Offer
    <3>3. CASE offer' = [offer EXCEPT !.free = ~@]
      BY <3>1, <3>3 DEF Offer
    <3>4. CASE offer' = [offer EXCEPT !.open = ~@]
      BY <3>1, <3>4 DEF Offer
    <3>5. CASE UNCHANGED offer
      BY <3>5
    <3>6. QED BY <1>1, <3>2, <3>3, <3>4, <3>5 DEF MoveOffer
  <2>3. CASE UNCHANGED notices
    BY <2>1, <2>2, <2>3 DEF NoticedOnce, CardsAreNamed, ClosesAreNamed
  <2>4. CASE \E n \in notices :
                notices' = (notices \ {n}) \cup {[n EXCEPT !.gone = TRUE]}
    <3>1. PICK n \in notices :
                notices' = (notices \ {n}) \cup {[n EXCEPT !.gone = TRUE]}
      BY <2>4
    <3>2. /\ [n EXCEPT !.gone = TRUE] \in Notice
          /\ [n EXCEPT !.gone = TRUE].gone
      BY DEF Notice
    <3>3. NoticedOnce'
      BY <3>1, <3>2 DEF NoticedOnce
    <3>4. QED BY <2>1, <2>2, <3>1, <3>2, <3>3 DEF CardsAreNamed, ClosesAreNamed
  <2>5. QED BY <1>1, <2>3, <2>4 DEF MoveOffer
<1>2. CASE HandleCard
  <2>1. /\ UNCHANGED <<offer, notices, pass, audits, shut, lapses, passes>>
        /\ whims' \in 0..MaxWhims
    <3>1. /\ whims > 0 /\ whims' = whims - 1
          /\ UNCHANGED <<offer, notices, pass, audits, shut, lapses, passes>>
      BY <1>2, Zenon DEF HandleCard
    <3>2. QED BY <3>1
  <2>2. PICK open \in BOOLEAN :
          audit' = [audit EXCEPT !.touched = TRUE, !.open = open]
    BY <1>2 DEF HandleCard
  <2>3. audit' \in Audit /\ audit'.policy = audit.policy
    BY <2>2 DEF Audit
  <2>4. QED BY <2>1, <2>3 DEF NoticedOnce, CardsAreNamed, ClosesAreNamed
<1>3. QED BY <1>1, <1>2

\* The proof of the source and its three comparisons only move the run on or end
\* it; the last one sees the revision that the policy names (_matches).
LEMMA ProofsKeep ==
    ASSUME PolicyInv,
           \/ StartPass \/ ProveSource \/ MatchBefore \/ MatchAfter
           \/ HandOff \/ MatchAgain \/ TrustNotice \/ MatchLast
    PROVE  PolicyInv'
<1> USE PolicyAssumption
    DEF PolicyAssumption, PolicyInv, PolicyTypeOK, Revs, To, Stop
<1>0. NoPass \in Pass /\ NoPass.at = "idle"
  BY DEF NoPass, Pass, NoPolicy, Policy
<1>1. SUFFICES /\ UNCHANGED <<offer, notices, audits, shut, whims>>
               /\ audit' \in Audit /\ audit'.policy = audit.policy
               /\ lapses' \in 0..MaxLapses /\ passes' \in 0..MaxPasses
               /\ pass' \in Pass /\ ClosesAreNamed'
  BY DEF NoticedOnce, CardsAreNamed
<1>2. CASE StartPass
  <2>1. /\ pass' \in Pass /\ pass'.at = "prove"
        /\ audit' \in Audit /\ audit'.policy = audit.policy
    BY <1>0, <1>2 DEF StartPass, NoPass, Pass, Audit
  <2>2. QED BY <1>2, <2>1 DEF StartPass, ClosesAreNamed
<1>3. CASE ProveSource
  <2>1. PICK o \in Fates \ {"silent"} :
          /\ Lapse(o)
          /\ pass' = IF ~offer.open THEN [pass EXCEPT !.at = "card"]
                     ELSE [pass EXCEPT !.policy = Derived(o),
                             !.at = IF Derived(o).mode = "reject" THEN "match"
                                    ELSE "card"]
    BY <1>3 DEF ProveSource
  <2>2. Derived(o) \in Policy
    BY DEF Derived, Policy, Offer
  <2>3. pass' \in Pass /\ pass'.at \in {"match", "card"}
    BY <2>1, <2>2 DEF Pass
  <2>4. QED BY <1>3, <2>1, <2>3, LapseType DEF ProveSource, ClosesAreNamed
<1>4. CASE MatchBefore
  <2>1. pass' \in Pass /\ pass'.at \in {"notify", "card"} /\ lapses' \in 0..MaxLapses
    BY <1>4, LapseType DEF MatchBefore, Pass
  <2>2. QED BY <1>4, <2>1 DEF MatchBefore, ClosesAreNamed
<1>5. CASE MatchAfter
  <2>1. [pass.policy EXCEPT !.notice = 0] \in Policy
    BY DEF Pass, Policy
  <2>2. pass' \in Pass /\ pass'.at = "card" /\ lapses' \in 0..MaxLapses
    BY <1>5, <2>1, LapseType DEF MatchAfter, Pass
  <2>3. QED BY <1>5, <2>2 DEF MatchAfter, ClosesAreNamed
<1>6. CASE HandOff
  <2>1. /\ UNCHANGED <<offer, notices, audit, audits, shut, whims, passes>>
        /\ lapses' \in 0..MaxLapses
        /\ \/ pass' = NoPass
           \/ HandsOver /\ pass' = [pass EXCEPT !.at = "vet"]
    BY <1>6, LapseType DEF HandOff
  <2>2. CASE pass' = NoPass
    BY <1>0, <2>1, <2>2 DEF ClosesAreNamed
  <2>3. CASE HandsOver /\ pass' = [pass EXCEPT !.at = "vet"]
    <3>1. pass' \in Pass /\ pass'.at = "vet" /\ pass'.policy = pass.policy
      BY <2>3 DEF Pass
    <3>2. pass.policy.notice # 0 /\ Named(pass.policy) \in audits
      BY <2>3 DEF HandsOver, CardSays, CardsAreNamed
    <3>3. QED BY <2>1, <3>1, <3>2 DEF ClosesAreNamed
  <2>4. QED BY <2>1, <2>2, <2>3
<1>7. CASE MatchAgain \/ TrustNotice
  <2>1. /\ UNCHANGED <<offer, notices, audit, audits, shut, whims, passes>>
        /\ lapses' \in 0..MaxLapses
        /\ pass.at \in {"vet", "trust"}
        /\ \/ pass' = NoPass
           \/ \E a \in {"trust", "last"} : pass' = [pass EXCEPT !.at = a]
    BY <1>7, LapseType DEF MatchAgain, TrustNotice
  <2>2. \/ pass' = NoPass
        \/ /\ pass' \in Pass /\ pass'.at \in {"trust", "last"}
           /\ pass'.policy = pass.policy
    BY <2>1 DEF Pass
  <2>3. QED BY <1>0, <2>1, <2>2 DEF ClosesAreNamed
<1>8. CASE MatchLast
  <2>1. /\ UNCHANGED <<offer, notices, audit, audits, shut, whims, passes>>
        /\ lapses' \in 0..MaxLapses
        /\ pass.at = "last"
        /\ \/ pass' = NoPass
           \/ Matches /\ pass' = [pass EXCEPT !.at = "close", !.seen = offer.rev]
    BY <1>8, LapseType DEF MatchLast
  <2>2. \/ pass' = NoPass
        \/ /\ pass' \in Pass /\ pass'.at = "close"
           /\ pass'.policy = pass.policy /\ pass'.seen = pass.policy.rev
    BY <2>1 DEF Pass, Offer, Matches
  <2>3. QED BY <1>0, <2>1, <2>2 DEF ClosesAreNamed
<1>9. QED BY <1>2, <1>3, <1>4, <1>5, <1>6, <1>7, <1>8

\* A notice is posted only about a revision that has none (notify).
LEMMA PostKeeps ==
    ASSUME PolicyInv, PostNotice
    PROVE  PolicyInv'
<1> USE PolicyAssumption DEF PolicyAssumption, PolicyInv, PolicyTypeOK, Revs
<1>1. PICK o \in Fates :
          /\ Lapse(o)
          /\ \/ /\ Existing(pass.policy.rev) # {}
                /\ UNCHANGED notices
                /\ \E n \in Existing(pass.policy.rev) :
                      pass' = IF o = "well"
                              THEN [pass EXCEPT !.at = "rematch",
                                                !.policy.notice = n.id]
                              ELSE [pass EXCEPT !.at = "card"]
             \/ /\ Existing(pass.policy.rev) = {}
                /\ NewId \in Ids
                /\ \/ UNCHANGED notices
                   \/ notices' = notices \cup {[id |-> NewId, gone |-> FALSE,
                                                rev |-> pass.policy.rev]}
                /\ pass' = IF o = "well"
                           THEN [pass EXCEPT !.at = "rematch",
                                             !.policy.notice = NewId]
                           ELSE [pass EXCEPT !.at = "card"]
  BY DEF PostNotice
<1>2. UNCHANGED <<offer, audit, audits, shut, whims, passes>>
      /\ lapses' \in 0..MaxLapses
  BY <1>1, LapseType DEF PostNotice
<1>3. pass.policy \in Policy
  BY DEF Pass
<1>4. ASSUME NEW i \in Ids,
             pass' = [pass EXCEPT !.at = "rematch", !.policy.notice = i]
      PROVE  pass' \in Pass /\ pass'.at = "rematch"
  <2>1. [pass.policy EXCEPT !.notice = i] \in Policy
    BY <1>3 DEF Policy, Ids
  <2>2. pass' = [pass EXCEPT !.at = "rematch",
                             !.policy = [pass.policy EXCEPT !.notice = i]]
    BY <1>4 DEF Pass
  <2>3. QED BY <2>1, <2>2 DEF Pass
<1>5. pass' \in Pass /\ pass'.at \in {"rematch", "card"}
  <2>1. CASE pass' = [pass EXCEPT !.at = "card"]
    BY <2>1 DEF Pass
  <2>2. \A n \in Existing(pass.policy.rev) : n.id \in Ids
    BY DEF Existing, About, Notice
  <2>3. \/ pass' = [pass EXCEPT !.at = "card"]
        \/ \E i \in Ids : pass' = [pass EXCEPT !.at = "rematch",
                                              !.policy.notice = i]
    BY <1>1, <2>2, Zenon
  <2>4. QED BY <1>4, <2>1, <2>3, Zenon
<1>6. notices' \subseteq Notice /\ NoticedOnce'
  <2>1. CASE UNCHANGED notices
    BY <2>1 DEF NoticedOnce
  <2>2. CASE /\ Existing(pass.policy.rev) = {} /\ NewId \in Ids
             /\ notices' = notices \cup {[id |-> NewId, gone |-> FALSE,
                                          rev |-> pass.policy.rev]}
    <3>1. \A n \in notices : n.rev = pass.policy.rev => n.gone
      BY <2>2 DEF Existing, About
    <3>2. [id |-> NewId, gone |-> FALSE, rev |-> pass.policy.rev] \in Notice
      BY <1>3, <2>2 DEF Notice, Policy
    <3>3. notices' \subseteq Notice
      BY <2>2, <3>2
    <3>4. DEFINE new == [id |-> NewId, gone |-> FALSE, rev |-> pass.policy.rev]
    <3>5. new.rev = pass.policy.rev /\ ~new.gone /\ notices' = notices \cup {new}
      BY <2>2
    <3>6. HIDE DEF new
    <3>7. NoticedOnce'
      BY <3>1, <3>5 DEF NoticedOnce
    <3>8. QED BY <3>3, <3>7
  <2>3. QED BY <1>1, <2>1, <2>2
<1>7. QED BY <1>2, <1>5, <1>6 DEF CardsAreNamed, ClosesAreNamed

\* The card names the policy of the run that writes it, which the history
\* remembers; a consumed or recorded card keeps its policy.
LEMMA CardsKeep ==
    ASSUME PolicyInv, WriteCard \/ ConsumeCard \/ RecordClose
    PROVE  PolicyInv'
<1> USE PolicyAssumption
    DEF PolicyAssumption, PolicyInv, PolicyTypeOK, Revs, To, Stop
<1>0. NoPass \in Pass /\ NoPass.at = "idle"
  BY DEF NoPass, Pass, NoPolicy, Policy
<1>1. CASE WriteCard
  <2>1. PICK o \in Fates :
          /\ Lapse(o)
          /\ \/ UNCHANGED <<audit, audits>>
             \/ /\ audit' = [open |-> TRUE, policy |-> pass.policy,
                             terminal |-> FALSE, touched |-> FALSE]
                /\ audits' = IF pass.policy.notice # 0
                             THEN audits \cup {Named(pass.policy)} ELSE audits
          /\ \/ pass' = [pass EXCEPT !.at = "handoff"]
             \/ pass' = NoPass
    BY <1>1 DEF WriteCard, Named
  <2>2. pass.policy \in Policy
    BY DEF Pass
  <2>3. pass.policy.notice # 0 => Named(pass.policy) \in Basis
    BY <2>2 DEF Named, Basis, Policy, Ids
  <2>4. /\ audit' \in Audit /\ audits' \subseteq Basis /\ audits \subseteq audits'
        /\ CardsAreNamed'
    <3>1. CASE UNCHANGED <<audit, audits>>
      BY <3>1 DEF CardsAreNamed
    <3>2. CASE /\ audit' = [open |-> TRUE, policy |-> pass.policy,
                            terminal |-> FALSE, touched |-> FALSE]
               /\ audits' = IF pass.policy.notice # 0
                            THEN audits \cup {Named(pass.policy)} ELSE audits
      <4>1. audit' \in Audit /\ audit'.policy = pass.policy
        BY <2>2, <3>2 DEF Audit
      <4>2. /\ audits' \subseteq Basis /\ audits \subseteq audits'
            /\ pass.policy.notice # 0 => Named(pass.policy) \in audits'
        BY <2>3, <3>2
      <4>3. CardsAreNamed'
        BY <4>1, <4>2 DEF CardsAreNamed, Named
      <4>4. QED BY <4>1, <4>2, <4>3
    <3>3. QED BY <2>1, <3>1, <3>2
  <2>5. pass' \in Pass /\ pass'.at \in {"handoff", "idle"}
    BY <1>0, <2>1 DEF Pass
  <2>6. UNCHANGED <<offer, notices, shut, whims, passes>> /\ lapses' \in 0..MaxLapses
    BY <1>1, LapseType DEF WriteCard
  <2>7. QED BY <2>4, <2>5, <2>6 DEF NoticedOnce, ClosesAreNamed
<1>2. CASE ConsumeCard \/ RecordClose
  <2>1. /\ UNCHANGED <<offer, notices, audits, shut, whims, passes>>
        /\ lapses' \in 0..MaxLapses /\ pass' = NoPass
    BY <1>2, LapseType DEF ConsumeCard, RecordClose
  <2>2. audit' \in Audit /\ audit'.policy = audit.policy
    <3>1. CASE ConsumeCard BY <3>1 DEF ConsumeCard, Audit
    <3>2. CASE RecordClose BY <3>2 DEF RecordClose, Audit
    <3>3. QED BY <1>2, <3>1, <3>2
  <2>3. QED BY <1>0, <2>1, <2>2 DEF NoticedOnce, CardsAreNamed, ClosesAreNamed
<1>3. QED BY <1>1, <1>2

\* The close is of the revision that the card's notice is about (close).
LEMMA CloseKeeps ==
    ASSUME PolicyInv, CloseTarget
    PROVE  PolicyInv'
<1> USE PolicyAssumption
    DEF PolicyAssumption, PolicyInv, PolicyTypeOK, Revs, To, Stop
<1>1. /\ UNCHANGED <<notices, audit, audits, whims, passes>>
      /\ lapses' \in 0..MaxLapses
      /\ \/ UNCHANGED <<offer, shut>>
         \/ /\ offer' = [offer EXCEPT !.open = FALSE]
            /\ shut' = shut \cup {[id |-> pass.policy.notice, rev |-> pass.seen]}
      /\ \/ pass' = [pass EXCEPT !.at = "record"]
         \/ pass' = NoPass
      /\ pass.at = "close"
  BY LapseType DEF CloseTarget
<1>2. [id |-> pass.policy.notice, rev |-> pass.seen] = Named(pass.policy)
  BY <1>1 DEF ClosesAreNamed, Named
<1>3. offer' \in Offer /\ shut' \subseteq audits
  BY <1>1, <1>2 DEF ClosesAreNamed, Offer
<1>0. NoPass \in Pass /\ NoPass.at = "idle"
  BY DEF NoPass, Pass, NoPolicy, Policy
<1>4. pass' \in Pass /\ pass'.at \in {"record", "idle"}
  <2>1. CASE pass' = [pass EXCEPT !.at = "record"]
    BY <2>1 DEF Pass
  <2>2. QED BY <1>0, <1>1, <2>1
<1>5. QED BY <1>1, <1>3, <1>4 DEF NoticedOnce, CardsAreNamed, ClosesAreNamed

-----------------------------------------------------------------------------
\* Every behaviour of scans, ingests and people keeps the invariant.
THEOREM PolicyInvariant == PolicySpec => []PolicyInv
<1>1. PolicyInit => PolicyInv
  <2> SUFFICES ASSUME PolicyInit PROVE PolicyInv
    OBVIOUS
  <2>1. NoPolicy \in Policy /\ NoPolicy.notice = 0
    BY PolicyAssumption DEF PolicyAssumption, NoPolicy, Policy, Revs
  <2>2. NoPass \in Pass /\ NoPass.at = "idle"
    BY <2>1, PolicyAssumption DEF PolicyAssumption, NoPass, Pass, Revs
  <2>3. offer \in Offer /\ audit \in Audit /\ audit.policy.notice = 0
    BY <2>1, PolicyAssumption DEF PolicyAssumption, PolicyInit, Offer, Audit, Revs
  <2>4. QED
    BY <2>2, <2>3, PolicyAssumption
       DEF PolicyAssumption, PolicyInit, PolicyInv, PolicyTypeOK, NoticedOnce,
           CardsAreNamed, ClosesAreNamed
<1>2. PolicyInv /\ [PolicyNext]_policyVars => PolicyInv'
  <2> SUFFICES ASSUME PolicyInv, [PolicyNext]_policyVars PROVE PolicyInv'
    OBVIOUS
  <2>1. CASE UNCHANGED policyVars
    BY <2>1 DEF policyVars, PolicyInv, PolicyTypeOK, NoticedOnce, CardsAreNamed,
                ClosesAreNamed
  <2>2. CASE PolicyNext
    BY <2>2, PeopleKeep, ProofsKeep, PostKeeps, CardsKeep, CloseKeeps DEF PolicyNext
  <2>3. QED BY <2>1, <2>2
<1>3. QED BY <1>1, <1>2, PTL DEF PolicySpec

\* The policy closes a pull request only on a notice and an open audit card about
\* the very revision, and no revision has two notices that stand
\* (maintainer_edits_policy.notify, close).
THEOREM ClosesAreAudited == PolicySpec => []PolicyClosesAreAudited
<1>1. PolicyInv => PolicyClosesAreAudited
  <2> SUFFICES ASSUME PolicyInv, NEW rev \in Revs PROVE Cardinality(About(rev)) <= 1
    BY DEF PolicyClosesAreAudited, PolicyInv
  <2>1. CASE About(rev) = {}
    BY <2>1, FS_EmptySet
  <2>2. CASE About(rev) # {}
    <3>1. PICK n \in About(rev) : TRUE
      BY <2>2
    <3>2. About(rev) = {n}
      BY <3>1 DEF About, PolicyInv, NoticedOnce
    <3>3. Cardinality({n}) = 1
      BY FS_Singleton
    <3>4. QED BY <3>2, <3>3
  <2>3. QED BY <2>1, <2>2
<1>2. QED BY <1>1, PolicyInvariant, PTL
=============================================================================
