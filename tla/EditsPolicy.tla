---------------------------- MODULE EditsPolicy ------------------------------
(***************************************************************************)
(* Pull requests whose branch maintainers cannot push to                    *)
(* (maintainer_edits_policy.py, with the card writes of reconcile.py and    *)
(* render_card.py).  A scan or an ingest proves the policy, posts a notice, *)
(* writes an inert audit card that names it, proves the policy again,       *)
(* closes the pull request and records that on the card.  Each step is a    *)
(* process of its own that hands over files; the contributor and the        *)
(* maintainers act between any two calls, and any call may be lost.         *)
(***************************************************************************)
EXTENDS Integers, FiniteSets

CONSTANTS
    MaxRevs,     \* bound: the last head
    MaxPasses,   \* bound: scans and ingests
    MaxWhims,    \* bound: what people do
    MaxLapses,   \* bound: calls that fail or lose their answer
    MaxNoticeId  \* bound: notices posted

ASSUME PolicyAssumption ==
    {MaxRevs, MaxPasses, MaxWhims, MaxLapses, MaxNoticeId} \subseteq Nat

VARIABLES
    offer,      \* the pull request
    notices,    \* the notices on it
    audit,      \* its open card, or its last one
    pass,       \* the run that has the concurrency group
    audits,     \* history: the notices that open cards named
    shut,       \* history: closes by the policy, with what they were based on
    whims, lapses, passes

policyVars == <<offer, notices, audit, pass, audits, shut, whims, lapses, passes>>

Revs == 0..MaxRevs
Ids  == 1..MaxNoticeId

\* free: derive_pushability finds that maintainers may push.
Offer  == [open: BOOLEAN, rev: Revs, free: BOOLEAN]
Notice == [id: Ids, rev: Revs, gone: BOOLEAN]
Basis  == [id: Ids, rev: Revs]

\* The policy on a card: none, unverified, or reject for a revision, with the
\* notice that was posted (0: none yet).
Policy == [mode: {"none", "unverified", "reject"}, rev: Revs, notice: 0..MaxNoticeId]
NoPolicy == [mode |-> "none", rev |-> 0, notice |-> 0]

\* touched: a person edited the card since the run listed it.
Audit == [open: BOOLEAN, policy: Policy, terminal: BOOLEAN, touched: BOOLEAN]

\* seen: the revision found by the last proof before the close.
Pass == [at: {"idle", "prove", "match", "notify", "rematch", "card", "handoff",
              "vet", "trust", "last", "close", "record"},
         kind: {"scan", "ingest"}, policy: Policy, listed: BOOLEAN,
         seen: Revs]
NoPass == [at |-> "idle", kind |-> "scan", policy |-> NoPolicy, listed |-> FALSE,
           seen |-> 0]

PolicyInit ==
    /\ \E free \in BOOLEAN : offer = [open |-> TRUE, rev |-> 0, free |-> free]
    /\ notices = {}
    /\ audit = [open |-> FALSE, policy |-> NoPolicy, terminal |-> FALSE,
                touched |-> FALSE]
    /\ pass = NoPass
    /\ audits = {}
    /\ shut = {}
    /\ whims = MaxWhims /\ lapses = MaxLapses /\ passes = MaxPasses

Fates == {o \in {"well", "lost", "silent"} : o = "well" \/ lapses > 0}
Lapse(o) == lapses' = IF o = "well" THEN lapses ELSE lapses - 1
To(at) == pass' = [pass EXCEPT !.at = at]
Stop   == pass' = NoPass

-----------------------------------------------------------------------------
(* People *)

\* A push, the edit permission, closing and reopening, deleting a notice.
MoveOffer ==
    /\ whims > 0 /\ whims' = whims - 1
    /\ \/ /\ offer.rev < MaxRevs
          /\ offer' = [offer EXCEPT !.rev = @ + 1]
          /\ UNCHANGED notices
       \/ offer' = [offer EXCEPT !.free = ~@] /\ UNCHANGED notices
       \/ offer' = [offer EXCEPT !.open = ~@] /\ UNCHANGED notices
       \/ /\ \E n \in notices :
                notices' = (notices \ {n}) \cup {[n EXCEPT !.gone = TRUE]}
          /\ UNCHANGED offer
    /\ UNCHANGED <<audit, pass, audits, shut, lapses, passes>>

\* The owner comments on the card or closes it.
HandleCard ==
    /\ audit.open
    /\ whims > 0 /\ whims' = whims - 1
    /\ \E open \in BOOLEAN :
          audit' = [audit EXCEPT !.touched = TRUE, !.open = open]
    /\ UNCHANGED <<offer, notices, pass, audits, shut, lapses, passes>>

-----------------------------------------------------------------------------
(* Prove, notify *)

\* The run lists the cards first.
StartPass ==
    /\ pass = NoPass /\ passes > 0 /\ passes' = passes - 1
    /\ \E kind \in {"scan", "ingest"} :
          pass' = [NoPass EXCEPT !.at = "prove", !.kind = kind,
                                 !.listed = audit.open]
    /\ audit' = [audit EXCEPT !.touched = FALSE]
    /\ UNCHANGED <<offer, notices, audits, shut, whims, lapses>>

\* _current_policy with derive_pushability; facts that cannot be read leave the
\* policy unverified.  A pull request that is not open has no item.
Reject == offer.open /\ ~offer.free
Derived(o) ==
    [mode |-> IF o # "well" THEN "unverified"
              ELSE IF offer.free THEN "none" ELSE "reject",
     rev |-> offer.rev, notice |-> 0]

ProveSource ==
    /\ pass.at = "prove"
    /\ \E o \in Fates \ {"silent"} :
          /\ Lapse(o)
          /\ LET policy == Derived(o)
             IN  pass' = IF ~offer.open THEN [pass EXCEPT !.at = "card"]
                         ELSE [pass EXCEPT !.policy = policy,
                                 !.at = IF policy.mode = "reject" THEN "match"
                                        ELSE "card"]
    /\ UNCHANGED <<offer, notices, audit, audits, shut, whims, passes>>

\* Mutant: the source is compared without its revision.
MatchesAnyRevision == Reject

\* _matches: the exact source, which names its revision.
Matches == Reject /\ offer.rev = pass.policy.rev

MatchBefore ==
    /\ pass.at = "match"
    /\ \E o \in Fates \ {"silent"} :
          /\ Lapse(o)
          /\ To(IF o = "well" /\ Matches THEN "notify" ELSE "card")
    /\ UNCHANGED <<offer, notices, audit, audits, shut, whims, passes>>

About(rev) == {n \in notices : n.rev = rev /\ ~n.gone}

\* _trusted_existing_notice: the revision's notice by a trusted author
Existing(rev) == About(rev)

NewId == Cardinality(notices) + 1

\* The first trusted comment with the marker is taken, or a new one is posted; an
\* unheard one is found by a later run.
PostNotice ==
    /\ pass.at = "notify"
    /\ \E o \in Fates :
          /\ Lapse(o)
          /\ IF Existing(pass.policy.rev) # {}
             THEN /\ UNCHANGED notices
                  /\ \E n \in Existing(pass.policy.rev) :
                        pass' = IF o = "well"
                                THEN [pass EXCEPT !.at = "rematch",
                                                  !.policy.notice = n.id]
                                ELSE [pass EXCEPT !.at = "card"]
             ELSE /\ NewId \in Ids
                  /\ notices' = IF o = "lost" THEN notices
                                ELSE notices \cup {[id |-> NewId, gone |-> FALSE,
                                                    rev |-> pass.policy.rev]}
                  /\ pass' = IF o = "well"
                             THEN [pass EXCEPT !.at = "rematch",
                                               !.policy.notice = NewId]
                             ELSE [pass EXCEPT !.at = "card"]
    /\ UNCHANGED <<offer, audit, audits, shut, whims, passes>>

\* A notice that no longer matches is not attached to the item.
MatchAfter ==
    /\ pass.at = "rematch"
    /\ \E o \in Fates \ {"silent"} :
          /\ Lapse(o)
          /\ pass' = IF o = "well" /\ Matches
                     THEN [pass EXCEPT !.at = "card"]
                     ELSE [pass EXCEPT !.at = "card", !.policy.notice = 0]
    /\ UNCHANGED <<offer, notices, audit, audits, shut, whims, passes>>

-----------------------------------------------------------------------------
(* The audit card, in the cards repository *)

\* maintainer_edits_policy_for_item: an item without policy refreshes a card
\* that has one; a closed target closes its card, with the terminal policy if a
\* notice was posted.
Gone == pass.policy.mode = "none" /\ ~offer.open

\* An edit is refused on a card that changed since the scan listed it; a listed
\* card is not made anew.  An ingest reads the card when it writes.
MayWrite == pass.kind = "ingest" \/ ~pass.listed \/ (audit.open /\ ~audit.touched)

\* _commit_maintainer_edits_policy_card, or a new card, verified afterwards: the
\* number of a card whose creation failed is not known, an ingest ends.
WriteCard ==
    /\ pass.at = "card" /\ ~Gone
    /\ \E o \in Fates :
          LET writes == MayWrite /\ o # "lost"
          IN  /\ Lapse(o)
              /\ audit' = IF ~writes THEN audit
                          ELSE [open |-> TRUE, policy |-> pass.policy,
                                terminal |-> FALSE, touched |-> FALSE]
              /\ audits' = IF writes /\ pass.policy.notice # 0
                           THEN audits \cup {[id  |-> pass.policy.notice,
                                              rev |-> pass.policy.rev]}
                           ELSE audits
              /\ IF o = "well" \/ (pass.kind = "scan" /\ pass.listed)
                 THEN To("handoff") ELSE Stop
    /\ UNCHANGED <<offer, notices, shut, whims, passes>>

\* The close of a card whose target is gone; a later run retries it.
ConsumeCard ==
    /\ pass.at = "card" /\ Gone
    /\ \E o \in Fates :
          /\ Lapse(o)
          /\ audit' = IF o = "lost" \/ ~audit.open \/ audit.touched
                         \/ pass.kind = "ingest" THEN audit
                      ELSE [audit EXCEPT !.open = FALSE,
                                         !.terminal = @ \/ audit.policy.notice # 0]
    /\ Stop
    /\ UNCHANGED <<offer, notices, audits, shut, whims, passes>>

\* policy_action_for_card, prepare_close: the card, read by its number, says
\* exactly this policy.
CardSays == audit.open /\ audit.policy = pass.policy

\* reconcile.main hands over only what the card records.
HandsOver == CardSays /\ pass.policy.mode = "reject" /\ pass.policy.notice # 0

HandOff ==
    /\ pass.at = "handoff"
    /\ \E o \in Fates \ {"silent"} :
          /\ Lapse(o)
          /\ IF o = "well" /\ HandsOver THEN To("vet") ELSE Stop
    /\ UNCHANGED <<offer, notices, audit, audits, shut, whims, passes>>

-----------------------------------------------------------------------------
(* close, record *)

MatchAgain ==
    /\ pass.at = "vet"
    /\ \E o \in Fates \ {"silent"} :
          /\ Lapse(o)
          /\ IF o = "well" /\ Matches THEN To("trust") ELSE Stop
    /\ UNCHANGED <<offer, notices, audit, audits, shut, whims, passes>>

\* The first trusted notice of the revision must be the one the card names.
TrustNotice ==
    /\ pass.at = "trust"
    /\ \E o \in Fates \ {"silent"} :
          /\ Lapse(o)
          /\ IF o = "well" /\ \E n \in About(pass.policy.rev) :
                  n.id = pass.policy.notice /\ \A k \in About(pass.policy.rev) : n.id <= k.id
             THEN To("last") ELSE Stop
    /\ UNCHANGED <<offer, notices, audit, audits, shut, whims, passes>>

MatchLast ==
    /\ pass.at = "last"
    /\ \E o \in Fates \ {"silent"} :
          /\ Lapse(o)
          /\ IF o = "well" /\ Matches
             THEN pass' = [pass EXCEPT !.at = "close", !.seen = offer.rev]
             ELSE Stop
    /\ UNCHANGED <<offer, notices, audit, audits, shut, whims, passes>>

CloseTarget ==
    /\ pass.at = "close"
    /\ \E o \in Fates :
          /\ Lapse(o)
          /\ IF o = "lost" THEN UNCHANGED <<offer, shut>>
             ELSE /\ offer' = [offer EXCEPT !.open = FALSE]
                  /\ shut' = shut \cup {[id  |-> pass.policy.notice,
                                         rev |-> pass.seen]}
          /\ IF o = "well" THEN To("record") ELSE Stop
    /\ UNCHANGED <<notices, audit, audits, whims, passes>>

\* record: the card is compared with the result and closed with it.
RecordClose ==
    /\ pass.at = "record"
    /\ \E o \in Fates :
          /\ Lapse(o)
          /\ audit' = IF o = "lost" \/ ~CardSays THEN audit
                      ELSE [audit EXCEPT !.open = FALSE, !.terminal = TRUE]
    /\ Stop
    /\ UNCHANGED <<offer, notices, audits, shut, whims, passes>>

-----------------------------------------------------------------------------
PolicyNext ==
    \/ MoveOffer \/ HandleCard
    \/ StartPass \/ ProveSource \/ MatchBefore \/ PostNotice \/ MatchAfter
    \/ WriteCard \/ ConsumeCard \/ HandOff
    \/ MatchAgain \/ TrustNotice \/ MatchLast \/ CloseTarget \/ RecordClose

PolicySpec == PolicyInit /\ [][PolicyNext]_policyVars

-----------------------------------------------------------------------------
\* The types of the variables.
PolicyTypeOK ==
    /\ offer \in Offer
    /\ notices \subseteq Notice
    /\ audit \in Audit
    /\ pass \in Pass
    /\ audits \subseteq Basis /\ shut \subseteq Basis
    /\ whims \in 0..MaxWhims /\ lapses \in 0..MaxLapses /\ passes \in 0..MaxPasses

\* The policy closes a pull request only after a notice about the very revision
\* was posted and its open card named that notice, and no revision ever has two
\* notices, however often runs are retried and whatever the contributor changes
\* meanwhile (maintainer_edits_policy.notify, close).
PolicyClosesAreAudited ==
    /\ shut \subseteq audits
    /\ \A rev \in Revs : Cardinality(About(rev)) <= 1
=============================================================================
