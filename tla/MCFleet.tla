------------------------------ MODULE MCFleet ---------------------------------
(***************************************************************************)
(* The machines beside the merge path, one at a time: the triage queue, the *)
(* fork checks, the cleanup of silent contributors, the scan health ledger, *)
(* the policy on maintainer edits, the assisted merge and the model call.   *)
(* They keep their state in different issues, comments, labels and files    *)
(* and the model lets none of them read another's, so a behaviour of all of *)
(* them is one of each: part says whose behaviours TLC follows, the others  *)
(* stay where they began, each at one of its initial states.               *)
(***************************************************************************)
EXTENDS TriageQueue, ForkChecks, ContributorCleanup, ScanHealth, EditsPolicy,
        MergeAssist, ModelCall

VARIABLE part

Parts == {"triage", "fork", "cleanup", "health", "policy", "assist", "call"}

FleetInit ==
    /\ part \in Parts
    /\ TriageInit /\ ForkInit /\ CleanupInit /\ HealthInit /\ PolicyInit
    /\ AssistInit /\ CallInit
    /\ part = "fork" => (fork.risky # {} <=> fork.mode = "event")
    /\ part # "fork" => fork.risky = {} /\ fork.mode = "event"
    /\ part # "policy" => offer.free
    /\ part # "call" => lane = "direct"

FleetNext ==
    \/ /\ part = "triage" /\ TriageNext
       /\ UNCHANGED <<part, forkVars, cleanupVars, healthVars,
                     policyVars, assistVars, callVars>>
    \/ /\ part = "fork" /\ ForkNext
       /\ UNCHANGED <<part, triageVars, cleanupVars, healthVars,
                     policyVars, assistVars, callVars>>
    \/ /\ part = "cleanup" /\ CleanupNext
       /\ UNCHANGED <<part, triageVars, forkVars, healthVars,
                     policyVars, assistVars, callVars>>
    \/ /\ part = "health" /\ HealthNext
       /\ UNCHANGED <<part, triageVars, forkVars, cleanupVars,
                     policyVars, assistVars, callVars>>
    \/ /\ part = "policy" /\ PolicyNext
       /\ UNCHANGED <<part, triageVars, forkVars, cleanupVars,
                     healthVars, assistVars, callVars>>
    \/ /\ part = "assist" /\ AssistNext
       /\ UNCHANGED <<part, triageVars, forkVars, cleanupVars,
                     healthVars, policyVars, callVars>>
    \/ /\ part = "call" /\ CallNext
       /\ UNCHANGED <<part, triageVars, forkVars, cleanupVars,
                     healthVars, policyVars, assistVars>>

fleetVars == <<part, triageVars, forkVars, cleanupVars, healthVars, policyVars,
               assistVars, callVars>>

\* Of TriageFairness, what the queue's results need.
FleetFairness ==
    /\ WF_triageVars(part = "triage" /\ TriageStep)
    /\ SF_triageVars(part = "triage" /\ StartScan)

FleetSpec == FleetInit /\ [][FleetNext]_fleetVars /\ FleetFairness

-----------------------------------------------------------------------------
\* The types of the variables of every machine.
FleetTypeOK ==
    /\ part \in Parts
    /\ part = "triage" => TriageTypeOK
    /\ part = "fork" => ForkTypeOK
    /\ part = "cleanup" => CleanupTypeOK
    /\ part = "health" => HealthTypeOK
    /\ part = "policy" => PolicyTypeOK
    /\ part = "assist" => AssistTypeOK
    /\ part = "call" => CallTypeOK
=============================================================================
