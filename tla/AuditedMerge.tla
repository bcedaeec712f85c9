---------------------------- MODULE AuditedMerge ------------------------------
(***************************************************************************)
(* What scan-time auto-merge promises (the audit transaction of             *)
(* scripts/auto_merge.py), without runs, claims, bodies and files: at most  *)
(* one merge call is out; none goes out for a card that its owner stopped   *)
(* or that has left the queue; a merge is accounted for exactly once, and   *)
(* always once its card is closed; a merged card leaves the queue only when *)
(* accounted.                                                               *)
(***************************************************************************)
CONSTANTS Cards, NoCard

VARIABLES
    call,     \* the card whose merge call is out, or NoCard
    account,  \* of each card's merge by Wheelhouse
    stopped,  \* cards whose owner commented a decision
    closed,   \* closed cards
    settled   \* cards that left the queue as resolved

auditedVars == <<call, account, stopped, closed, settled>>

Init ==
    /\ call = NoCard
    /\ account = [c \in Cards |-> "open"]
    /\ stopped = {} /\ closed = {} /\ settled = {}

PutCall(c) ==
    /\ call = NoCard /\ account[c] = "open"
    /\ c \notin stopped \cup closed \cup settled
    /\ call' = c
    /\ UNCHANGED <<account, stopped, closed, settled>>

\* Whether the call's answer arrives makes no difference.
Merge ==
    /\ call # NoCard
    /\ account' = [account EXCEPT ![call] = "merged"]
    /\ call' = NoCard
    /\ UNCHANGED <<stopped, closed, settled>>

\* It is refused, or its run is lost.
NoMerge ==
    /\ call # NoCard /\ call' = NoCard
    /\ UNCHANGED <<account, stopped, closed, settled>>

Stop(c) ==
    /\ stopped' = stopped \cup {c}
    /\ UNCHANGED <<call, account, closed, settled>>

Close(c) ==
    /\ closed' = closed \cup {c}
    /\ UNCHANGED <<call, account, stopped, settled>>

\* One edit of the ledger accounts for some of the merges.
Account ==
    /\ \E S \in SUBSET {c \in Cards : account[c] = "merged"} :
          account' = [c \in Cards |-> IF c \in S THEN "accounted" ELSE account[c]]
    /\ UNCHANGED <<call, stopped, closed, settled>>

\* The reconciler resolves a card and closes it at once, the record step later.
Settle(c) ==
    /\ account[c] # "merged"
    /\ settled' = settled \cup {c}
    /\ closed' \in {closed, closed \cup {c}}
    /\ UNCHANGED <<call, account, stopped>>

Next ==
    \/ Merge \/ NoMerge \/ Account
    \/ \E c \in Cards : PutCall(c) \/ Stop(c) \/ Close(c) \/ Settle(c)

\* No merge of a closed card waits for its row for ever.  An open card whose
\* merge call lost its answer is left to a person.
Spec ==
    /\ Init /\ [][Next]_auditedVars
    /\ \A c \in Cards :
          WF_auditedVars(c \in closed /\ Account /\ account'[c] # account[c])
=============================================================================
