----------------------------- MODULE ScanHealth ------------------------------
(***************************************************************************)
(* The ledger of fleet scans that fail (wheelhouse_core.cmd_scan,           *)
(* cmd_scan_health): a closed issue counts, per repository, the consecutive *)
(* scans that could not read it, and the run that reaches the threshold     *)
(* fails.  Scans have a concurrency group and run one at a time; a scan may *)
(* see one repository only, none when it breaks, and any call of the        *)
(* bookkeeping may fail before or after its effect.                         *)
(***************************************************************************)
EXTENDS Integers, Sequences, FiniteSets

CONSTANTS
    Fleet,        \* repositories of the configuration
    Threshold,    \* SCAN_HEALTH_ALERT_THRESHOLD
    MaxScans,     \* bound: scans
    MaxSlips      \* bound: calls of the bookkeeping that fail

ASSUME HealthAssumption ==
    /\ Threshold \in Nat \ {0}
    /\ {MaxScans, MaxSlips} \subseteq Nat

VARIABLES
    health,    \* the ledger issue
    nightly,   \* the scan's run
    recorded,  \* history: what each scan saw whose counts reached the ledger
    slips,     \* what is left of MaxSlips
    scans      \* what is left of MaxScans

healthVars == <<health, nightly, recorded, slips, scans>>

Seen == {"ok", "dark", "unseen"}
Counts == [Fleet -> 0..MaxScans]
NoCounts == [r \in Fleet |-> 0]

Health == [exists: BOOLEAN, closed: BOOLEAN, counts: Counts]

\* red: the run failed because of repositories that are dark.
Nightly == [at: {"idle", "find", "write", "close", "done"},
            saw: [Fleet -> Seen], counts: Counts, red: BOOLEAN, warned: BOOLEAN]
NoRunYet == [at |-> "idle", saw |-> [r \in Fleet |-> "unseen"],
             counts |-> NoCounts, red |-> FALSE, warned |-> FALSE]

HealthInit ==
    /\ health = [exists |-> FALSE, closed |-> FALSE, counts |-> NoCounts]
    /\ nightly = NoRunYet
    /\ recorded = <<>>
    /\ slips = MaxSlips
    /\ scans = MaxScans

\* cmd_scan goes on after a repository it cannot read, and may be asked for one
\* repository.  A scan that breaks leaves nothing to record.
ScanFleet ==
    /\ nightly.at \in {"idle", "done"} /\ scans > 0 /\ scans' = scans - 1
    /\ \/ \E saw \in [Fleet -> Seen] :
             /\ saw # [r \in Fleet |-> "unseen"]
             /\ nightly' = [NoRunYet EXCEPT !.at = "find", !.saw = saw]
       \/ nightly' = [NoRunYet EXCEPT !.at = "done", !.warned = TRUE]
    /\ UNCHANGED <<health, recorded, slips>>

\* Mutant: a repository that was not seen starts anew.
UpdateSeenOnly(prev, saw) ==
    [r \in Fleet |-> IF saw[r] = "dark" THEN prev[r] + 1 ELSE 0]

\* Mutant: only the repositories of this scan are kept.
UpdateForgets(prev, saw) ==
    [r \in {s \in Fleet : saw[s] # "unseen"} |->
        IF saw[r] = "ok" THEN 0 ELSE prev[r] + 1]

\* update_scan_health
Update(prev, saw) ==
    [r \in Fleet |-> CASE saw[r] = "ok"     -> 0
                       [] saw[r] = "dark"   -> prev[r] + 1
                       [] saw[r] = "unseen" -> prev[r]]

Alerts(counts, saw) == {r \in Fleet : saw[r] = "dark" /\ counts[r] >= Threshold}

\* Any error of the bookkeeping is a warning; nobody is alerted by that run.
Slip == slips > 0 /\ slips' = slips - 1
Warn == nightly' = [nightly EXCEPT !.at = "done", !.warned = TRUE]

FindLedger ==
    /\ nightly.at = "find"
    /\ \/ /\ nightly' = [nightly EXCEPT !.at = "write",
                                        !.counts = Update(health.counts, nightly.saw)]
          /\ UNCHANGED slips
       \/ Slip /\ Warn
    /\ UNCHANGED <<health, recorded, scans>>

Report == nightly' = [nightly EXCEPT
                        !.at = "done",
                        !.red = Alerts(nightly.counts, nightly.saw) # {}]

\* An existing ledger is written and closed in one call, a new one in two.
Persisted ==
    /\ health' = [exists |-> TRUE, closed |-> health.exists,
                  counts |-> nightly.counts]
    /\ recorded' = Append(recorded, nightly.saw)

WriteLedger ==
    /\ nightly.at = "write"
    /\ \/ /\ Persisted
          /\ IF health.exists THEN Report
             ELSE nightly' = [nightly EXCEPT !.at = "close"]
          /\ UNCHANGED slips
       \/ Persisted /\ Slip /\ Warn
       \/ UNCHANGED <<health, recorded>> /\ Slip /\ Warn
    /\ UNCHANGED scans

CloseLedger ==
    /\ nightly.at = "close"
    /\ \/ /\ health' = [health EXCEPT !.closed = TRUE]
          /\ Report
          /\ UNCHANGED slips
       \/ Slip /\ Warn /\ UNCHANGED health
    /\ UNCHANGED <<recorded, scans>>

HealthNext == ScanFleet \/ FindLedger \/ WriteLedger \/ CloseLedger

HealthSpec == HealthInit /\ [][HealthNext]_healthVars

-----------------------------------------------------------------------------
\* The types of the variables.
HealthTypeOK ==
    /\ health \in Health
    /\ nightly \in Nightly
    /\ Len(recorded) <= MaxScans
    /\ \A i \in 1..Len(recorded) : recorded[i] \in [Fleet -> Seen]
    /\ slips \in 0..MaxSlips /\ scans \in 0..MaxScans

\* The scans that could not read r and that no scan able to read it follows.
DarkStreak(r) ==
    {i \in 1..Len(recorded) :
        /\ recorded[i][r] = "dark"
        /\ \A j \in i..Len(recorded) : recorded[j][r] # "ok"}

\* At least Threshold such scans, the last scan of all among them.
DarkFor(r) ==
    /\ Len(recorded) \in DarkStreak(r)
    /\ Cardinality(DarkStreak(r)) >= Threshold

\* A run whose bookkeeping worked fails exactly if it saw a repository dark that
\* every scan on record that looked at it found dark, Threshold times running,
\* though scans looked at parts of the fleet, broke, or lost their answers
\* (wheelhouse_core.update_scan_health, cmd_scan_health).
DarkIsShouted ==
    nightly.at = "done" /\ ~nightly.warned =>
        (nightly.red <=> \E r \in Fleet : DarkFor(r))
=============================================================================
