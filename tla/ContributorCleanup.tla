------------------------- MODULE ContributorCleanup --------------------------
(***************************************************************************)
(* The cleanup of pull requests whose contributor does not answer           *)
(* (wheelhouse_core.sweep_pending_contributor_actions).  /request-changes   *)
(* posts a review and arms the cleanup with a marker comment and a label;   *)
(* scans remind, and close when the ask is old enough and nobody answered.  *)
(*                                                                         *)
(* Decisions and scans share a concurrency group, so either the asker or    *)
(* the sweep runs; people act between any two of their calls.  What is said *)
(* on the pull request is one sequence, whose positions are the times.      *)
(***************************************************************************)
EXTENDS Integers, Sequences, FiniteSets

CONSTANTS
    RemindAfter, CloseAfter,  \* days, of the configuration
    MaxClock,                 \* bound: days that pass
    MaxAsks,                  \* bound: uses of /request-changes
    MaxTalk,                  \* bound: what people do of themselves
    MaxLoss,                  \* bound: calls that fail or lose their answer
    MaxNotes                  \* bound: entries said on the pull request

ASSUME CleanupAssumption ==
    /\ {RemindAfter, CloseAfter, MaxClock, MaxAsks, MaxTalk, MaxLoss, MaxNotes}
           \subseteq Nat
    /\ RemindAfter <= CloseAfter

VARIABLES
    pull,      \* the pull request
    said,      \* the reviews, comments and timeline of the pull request
    clock,     \* the day
    asking,    \* the decision job that requests changes
    sweep,     \* the cleanup of one scan
    endings,   \* history: what the sweep knew when it closed
    talk,      \* what is left of MaxTalk
    losses     \* what is left of MaxLoss

cleanupVars == <<pull, said, clock, asking, sweep, endings, talk, losses>>

\* review: changes requested; marker: the hidden record of that ask; answer: any
\* activity of the contributor; remark: a maintainer's.  An ask's number stands
\* for the id of its review.
Note == [what: {"review", "marker", "reminder", "closing", "answer", "remark"},
         ask: 0..MaxAsks, head: Nat, day: 0..MaxClock]

\* keep: the keep-open label; policy: the source permits maintainer edits.
Pull == [open: BOOLEAN, label: BOOLEAN, keep: BOOLEAN, policy: BOOLEAN,
         head: Nat, dismissed: SUBSET (1..MaxAsks)]

Asking == [at: {"away", "review", "marker", "label"}, ask: 0..MaxAsks, head: Nat]
NotAsking == [at |-> "away", ask |-> 0, head |-> 0]

\* from: what was said when the reads began; marks: when the comments were read;
\* todo: the writes decided on; by: the ask they are for.
Sweep == [at: {"away", "target", "comments", "timeline", "decide", "check", "write"},
          day: 0..MaxClock, lane: BOOLEAN, from: Nat, marks: Nat,
          label: BOOLEAN, head: Nat, by: 0..MaxAsks,
          todo: {<<>>, <<"clear">>, <<"remind">>, <<"close">>,
                 <<"explain", "close">>}]
NotSweeping == [at |-> "away", day |-> 0, lane |-> FALSE, from |-> 0, marks |-> 0,
                label |-> FALSE, head |-> 0, by |-> 0, todo |-> <<>>]

Ending == [ask: 1..MaxAsks, from: Nat, head: Nat, day: 0..MaxClock]

CleanupInit ==
    /\ pull = [open |-> TRUE, label |-> FALSE, keep |-> FALSE, policy |-> TRUE,
               head |-> 0, dismissed |-> {}]
    /\ said = <<>>
    /\ clock = 0
    /\ asking = NotAsking
    /\ sweep = NotSweeping
    /\ endings = {}
    /\ talk = MaxTalk
    /\ losses = MaxLoss

Say(what, ask, head) ==
    /\ Len(said) < MaxNotes
    /\ said' = Append(said, [what |-> what, ask |-> ask, head |-> head,
                             day |-> clock])

\* No job has the group.
Idling == asking = NotAsking /\ sweep = NotSweeping

Positions(what, upTo) == {i \in 1..upTo : said[i].what = what}

\* Any call may fail before or after its effect.
CallEnds == {o \in {"ok", "refused", "unheard"} : o = "ok" \/ losses > 0}
PaysFor(o) == losses' = IF o = "ok" THEN losses ELSE losses - 1

-----------------------------------------------------------------------------
(* Contributor, maintainers, days *)

Talks == talk > 0 /\ talk' = talk - 1

Answer ==
    /\ Talks /\ Say("answer", 0, pull.head)
    /\ UNCHANGED <<pull, clock, asking, sweep, endings, losses>>

Push ==
    /\ Talks /\ Say("answer", 0, pull.head + 1)
    /\ pull' = [pull EXCEPT !.head = @ + 1]
    /\ UNCHANGED <<clock, asking, sweep, endings, losses>>

\* A maintainer dismisses the review, sets keep-open, reopens, or comments; the
\* contributor withdraws the permission to push.
Maintain ==
    /\ Talks
    /\ \/ /\ \E i \in Positions("review", Len(said)) :
                pull' = [pull EXCEPT !.dismissed = @ \cup {said[i].ask}]
          /\ Say("remark", 0, pull.head)
       \/ /\ pull' = [pull EXCEPT !.keep = TRUE]
          /\ Say("remark", 0, pull.head)
       \/ /\ ~pull.open /\ pull' = [pull EXCEPT !.open = TRUE]
          /\ Say("remark", 0, pull.head)
       \/ /\ pull' = [pull EXCEPT !.policy = FALSE]
          /\ UNCHANGED said
    /\ UNCHANGED <<clock, asking, sweep, endings, losses>>

\* A job ends on the day it began.
NextDay ==
    /\ Idling /\ clock < MaxClock /\ clock' = clock + 1
    /\ UNCHANGED <<pull, said, asking, sweep, endings, talk, losses>>

-----------------------------------------------------------------------------
(* /request-changes *)

Asks == Cardinality({said[i].ask : i \in Positions("review", Len(said))})

\* do_request_changes: the head is compared, the source policy read.
StartAsking ==
    /\ Idling /\ Asks < MaxAsks
    /\ pull.open /\ pull.policy
    /\ asking' = [at |-> "review", ask |-> Asks + 1, head |-> pull.head]
    /\ UNCHANGED <<pull, said, clock, sweep, endings, talk, losses>>

\* An unheard review is never armed.
PostReview ==
    /\ asking.at = "review"
    /\ \E o \in CallEnds :
          /\ PaysFor(o)
          /\ IF o = "refused" THEN UNCHANGED said
             ELSE Say("review", asking.ask, asking.head)
          /\ asking' = IF o = "ok" THEN [asking EXCEPT !.at = "marker"]
                       ELSE NotAsking
    /\ UNCHANGED <<pull, clock, sweep, endings, talk>>

\* _refresh_pending_source_policy, just before a write
SourceAllows(head) == pull.policy /\ pull.head = head

\* arm_pending_contributor_action
ArmMarker ==
    /\ asking.at = "marker"
    /\ \E o \in CallEnds :
          /\ PaysFor(o)
          /\ IF o = "refused" \/ ~SourceAllows(asking.head) THEN UNCHANGED said
             ELSE Say("marker", asking.ask, asking.head)
          /\ asking' = IF o = "ok" /\ SourceAllows(asking.head)
                       THEN [asking EXCEPT !.at = "label"] ELSE NotAsking
    /\ UNCHANGED <<pull, clock, sweep, endings, talk>>

ArmLabel ==
    /\ asking.at = "label"
    /\ \E o \in CallEnds :
          /\ PaysFor(o)
          /\ pull' = IF o = "refused" \/ ~SourceAllows(asking.head) THEN pull
                     ELSE [pull EXCEPT !.label = TRUE]
    /\ asking' = NotAsking
    /\ UNCHANGED <<said, clock, sweep, endings, talk>>

-----------------------------------------------------------------------------
(* The sweep reads *)

Leave == sweep' = NotSweeping

\* The bulk read of the scan shows the label; lane: the pull request waits for
\* the approval of its CI, and is only ever cleared.
StartSweep ==
    /\ Idling /\ pull.open /\ pull.label /\ pull.policy
    /\ \E lane \in BOOLEAN :
          sweep' = [NotSweeping EXCEPT !.at = "target", !.day = clock,
                                       !.lane = lane]
    /\ UNCHANGED <<pull, said, clock, asking, endings, talk, losses>>

\* A read that fails, and activity that nothing accounts for, end the sweep.
ReadTarget ==
    /\ sweep.at = "target"
    /\ IF pull.open /\ ~pull.keep
       THEN sweep' = [sweep EXCEPT !.at = "comments", !.from = Len(said),
                                   !.label = pull.label, !.head = pull.head]
       ELSE Leave
    /\ UNCHANGED <<pull, said, clock, asking, endings, talk, losses>>

ReadComments ==
    /\ sweep.at = "comments"
    /\ sweep' = [sweep EXCEPT !.at = "timeline", !.marks = Len(said)]
    /\ UNCHANGED <<pull, said, clock, asking, endings, talk, losses>>

\* _newest_active_pending_record: the newest marker in the comments
Markers(upTo) == Positions("marker", upTo)
Newest(upTo)  == said[CHOOSE i \in Markers(upTo) : \A j \in Markers(upTo) : j <= i].ask

\* The ask is as old as its review.
AskedAt(ask) == CHOOSE i \in Positions("review", Len(said)) : said[i].ask = ask

\* Mutant: an answer counts only if the last reminder did not follow it.
AnsweredSinceReminder(ask, upTo) ==
    \E i \in Positions("answer", upTo) :
        i > AskedAt(ask) /\ \A j \in Positions("reminder", upTo) : j < i

\* _has_qualifying_contributor_activity: comments, reviews, edits, timeline
AnsweredSince(ask, upTo) ==
    \E i \in Positions("answer", upTo) : i > AskedAt(ask)

\* _has_reminder
Reminded(ask, upTo) ==
    \E i \in Positions("reminder", upTo) : said[i].ask = ask

\* _has_close_attempt
CloseAttempted(ask, upTo) ==
    \E i \in Positions("closing", upTo) : said[i].ask = ask

ReminderDue(ask, day) == day >= said[AskedAt(ask)].day + RemindAfter
CloseDue(ask, day)    == day >= said[AskedAt(ask)].day + CloseAfter

\* What the sweep decides from its reads: it clears the label of an answered ask,
\* reminds before it closes, and explains a close once.  (The label that the code
\* would add with a reminder is there: without it no record is active.)
Decision(ask, marks, now) ==
    IF said[AskedAt(ask)].head # sweep.head THEN <<"clear">>
    ELSE IF ask \in pull.dismissed THEN <<>>
    ELSE IF AnsweredSince(ask, now) THEN <<"clear">>
    ELSE IF sweep.lane THEN <<>>
    ELSE IF ~Reminded(ask, marks)
         THEN IF ReminderDue(ask, sweep.day) THEN <<"remind">> ELSE <<>>
    ELSE IF ~CloseDue(ask, sweep.day) THEN <<>>
    ELSE IF CloseAttempted(ask, marks) THEN <<"close">>
    ELSE <<"explain", "close">>

\* The reviews and the timeline are read last; then the source policy, for the
\* head that was read first.
ReadTimeline ==
    /\ sweep.at = "timeline"
    /\ LET active == sweep.label /\ Markers(sweep.marks) # {}
           ask    == Newest(sweep.marks)
           todo   == IF active THEN Decision(ask, sweep.marks, Len(said)) ELSE <<>>
       IN  IF todo = <<>> THEN Leave
           ELSE sweep' = [sweep EXCEPT !.at = "check", !.by = ask, !.todo = todo]
    /\ UNCHANGED <<pull, said, clock, asking, endings, talk, losses>>

\* One unreadable answer ends the sweep of this pull request.
ReadFails ==
    /\ sweep.at \in {"target", "comments", "timeline", "check"}
    /\ losses > 0 /\ losses' = losses - 1
    /\ Leave
    /\ UNCHANGED <<pull, said, clock, asking, endings, talk>>

-----------------------------------------------------------------------------
(* The sweep writes *)

\* The source policy is read before every write.
CheckSourcePolicy ==
    /\ sweep.at = "check"
    /\ IF SourceAllows(sweep.head) THEN sweep' = [sweep EXCEPT !.at = "write"]
       ELSE Leave
    /\ UNCHANGED <<pull, said, clock, asking, endings, talk, losses>>

\* The reminder and the close comment carry the ask's id.
Written(what) ==
    CASE what = "remind"  -> Say("reminder", sweep.by, sweep.head) /\ UNCHANGED pull
      [] what = "explain" -> Say("closing", sweep.by, sweep.head) /\ UNCHANGED pull
      [] what = "clear"   -> pull' = [pull EXCEPT !.label = FALSE] /\ UNCHANGED said
      [] what = "close"   -> pull' = [pull EXCEPT !.open = FALSE] /\ UNCHANGED said

Write ==
    /\ sweep.at = "write"
    /\ LET what == Head(sweep.todo)
           rest == Tail(sweep.todo)
       IN  \E o \in CallEnds :
             /\ PaysFor(o)
             /\ IF o = "refused" THEN UNCHANGED <<pull, said>> ELSE Written(what)
             /\ endings' = IF what # "close" \/ o = "refused" THEN endings
                           ELSE endings \cup {[ask |-> sweep.by, from |-> sweep.from,
                                               head |-> sweep.head,
                                               day |-> sweep.day]}
             /\ sweep' = IF o = "ok" /\ rest # <<>>
                         THEN [sweep EXCEPT !.at = "check", !.todo = rest]
                         ELSE NotSweeping
    /\ UNCHANGED <<clock, asking, talk>>

-----------------------------------------------------------------------------
CleanupNext ==
    \/ Answer \/ Push \/ Maintain \/ NextDay
    \/ StartAsking \/ PostReview \/ ArmMarker \/ ArmLabel
    \/ StartSweep \/ ReadTarget \/ ReadComments \/ ReadTimeline \/ ReadFails
    \/ CheckSourcePolicy \/ Write

CleanupSpec == CleanupInit /\ [][CleanupNext]_cleanupVars

-----------------------------------------------------------------------------
\* The types of the variables.
CleanupTypeOK ==
    /\ pull \in Pull
    /\ Len(said) <= MaxNotes /\ \A i \in 1..Len(said) : said[i] \in Note
    /\ clock \in 0..MaxClock
    /\ asking \in Asking
    /\ sweep \in Sweep
    /\ endings \subseteq Ending
    /\ talk \in 0..MaxTalk /\ losses \in 0..MaxLoss

\* The cleanup closes a pull request only in silence: for the newest ask that was
\* armed when its reads began, old enough, for the same head, which it reminded
\* of before, which the contributor had not answered by then, and whose close it
\* explained exactly once over all retries and reopenings
\* (wheelhouse_core._sweep_pending_pr).
ClosedOnlyInSilence ==
    \A e \in endings :
        /\ Reminded(e.ask, e.from)
        /\ {i \in Positions("answer", e.from) : i > AskedAt(e.ask)} = {}
        /\ said[AskedAt(e.ask)].head = e.head
        /\ e.day >= said[AskedAt(e.ask)].day + CloseAfter
        /\ \A i \in Markers(e.from) : said[i].ask <= e.ask
        /\ Cardinality({i \in Positions("closing", Len(said)) :
                            said[i].ask = e.ask}) = 1
=============================================================================
