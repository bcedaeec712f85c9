----------------------------- MODULE FleetProofs ------------------------------
(***************************************************************************)
(* That the fleet is no more than its machines side by side: whichever part *)
(* moves, every machine sees a behaviour of its own specification, so what  *)
(* is proved of a machine alone holds of it within the fleet.               *)
(***************************************************************************)
EXTENDS MCFleet, ScanProofs, TriageQueueProofs, AgentProofs

\* The fleet begins where each of its machines begins.
LEMMA FleetBegins ==
    FleetInit => /\ part \in Parts
                 /\ TriageInit /\ ForkInit /\ CleanupInit /\ HealthInit
                 /\ PolicyInit /\ AssistInit /\ CallInit
BY DEF FleetInit

\* A step of the fleet is, to each of its machines, one of its own steps or none.
LEMMA FleetMoves ==
    [FleetNext]_fleetVars =>
        /\ UNCHANGED part
        /\ [TriageNext]_triageVars /\ [ForkNext]_forkVars
        /\ [CleanupNext]_cleanupVars /\ [HealthNext]_healthVars
        /\ [PolicyNext]_policyVars /\ [AssistNext]_assistVars /\ [CallNext]_callVars
<1> SUFFICES ASSUME [FleetNext]_fleetVars
             PROVE  /\ UNCHANGED part
                    /\ [TriageNext]_triageVars /\ [ForkNext]_forkVars
                    /\ [CleanupNext]_cleanupVars /\ [HealthNext]_healthVars
                    /\ [PolicyNext]_policyVars /\ [AssistNext]_assistVars
                    /\ [CallNext]_callVars
  OBVIOUS
<1>1. CASE UNCHANGED fleetVars
  BY <1>1 DEF fleetVars
<1>2. CASE FleetNext
  BY <1>2 DEF FleetNext
<1>3. QED BY <1>1, <1>2

\* The fleet's part is one of its machines, and stays (MCFleet's choice, no code).
LEMMA PartStays == FleetSpec => [](part \in Parts)
<1>1. FleetInit => part \in Parts
  BY FleetBegins
<1>2. part \in Parts /\ [FleetNext]_fleetVars => (part \in Parts)'
  BY FleetMoves
<1>3. QED BY <1>1, <1>2, PTL DEF FleetSpec

\* A behaviour of the fleet is one of each of its machines: of the fork checks, the
\* cleanup, the health ledger, the edits policy, the assisted merge, the model call,
\* and of the triage queue but for its fairness (they share no issue, comment, label
\* or file).
THEOREM FleetIsItsMachines ==
    FleetSpec => /\ ForkSpec /\ CleanupSpec /\ HealthSpec /\ PolicySpec
                 /\ AssistSpec /\ CallSpec
                 /\ TriageInit /\ [][TriageNext]_triageVars
BY FleetBegins, FleetMoves, PTL
   DEF FleetSpec, ForkSpec, CleanupSpec, HealthSpec, PolicySpec, AssistSpec, CallSpec

\* Every variable of every machine keeps its type in the fleet, whichever of them
\* moves (the type invariants of the seven machines, for all their constants).
THEOREM FleetTypesCorrect == FleetSpec => []FleetTypeOK
<1>1. FleetSpec => []TriageTypeOK
  <2>1. TypeInv => TriageTypeOK
    BY DEF TypeInv
  <2>2. QED BY <2>1, TypesFirst, TypesKept, FleetIsItsMachines, PTL
<1>2. FleetSpec => []PolicyTypeOK
  <2>1. PolicyInv => PolicyTypeOK
    BY DEF PolicyInv
  <2>2. QED BY <2>1, PolicyInvariant, FleetIsItsMachines, PTL
<1>3. FleetSpec => []AssistTypeOK /\ []CallTypeOK
  BY AssistedMergeConfirmed, SpendNeverDenied, FleetIsItsMachines, PTL
<1>4. FleetSpec => []ForkTypeOK /\ []CleanupTypeOK /\ []HealthTypeOK
  BY ForkTypeCorrect, CleanupTypeCorrect, HealthTypeCorrect, FleetIsItsMachines, PTL
<1>5. ASSUME part \in Parts, TriageTypeOK, ForkTypeOK, CleanupTypeOK, HealthTypeOK,
             PolicyTypeOK, AssistTypeOK, CallTypeOK
      PROVE  FleetTypeOK
  BY <1>5 DEF FleetTypeOK
<1>6. QED BY <1>1, <1>2, <1>3, <1>4, <1>5, PartStays, PTL
===============================================================================
