----------------------------- MODULE ModelCall --------------------------------
(***************************************************************************)
(* One model call (claude-model.yml, agent_runtime/): a job hydrates the    *)
(* signed handoff, uploads a checkpoint that says money may have been spent *)
(* and invokes the model, in the direct lane under a supervisor with a      *)
(* sandboxed worker, in the other through an action whose transcript is     *)
(* captured; a second job makes one result of what reached it.  Any step,   *)
(* process, upload or the whole first job can be lost at any point.         *)
(***************************************************************************)
EXTENDS Integers, FiniteSets

CONSTANTS
    MaxCrashes  \* bound: steps, calls and processes that fail

ASSUME ModelCallAssumption == MaxCrashes \in Nat

VARIABLES
    lane,        \* the adapter of the task
    mjob,        \* the model job's step
    attemptFile, \* the checkpoint, on disk and as an artifact
    worker,      \* the sandboxed worker process
    superv,      \* what the supervisor did to the worker, and whether it failed
    action,      \* what the action left behind
    output,      \* what the model job wrote, and whether it was uploaded
    verdict,     \* the normalized result of job finalize
    sent,        \* history: the prompt reached the model
    sealed,      \* history: the supervisor failed before it had the worker's files
    crashes

callVars == <<lane, mjob, attemptFile, worker, superv, action, output, verdict,
              sent, sealed, crashes>>

\* spend: what a result says of spendStarted; status "none" is no result.
Result0 == [status: {"none", "succeeded", "failed", "cancelled", "rejected"},
            spend: BOOLEAN]
NoAnswer == [status |-> "none", spend |-> FALSE]
Failed(spend) == [status |-> "failed", spend |-> spend]
Rejected == [status |-> "rejected", spend |-> FALSE]

\* mem: the worker's own spend_started; saved: worker-state.json says so;
\* result: worker-result.json.
WorkerProc == [at: {"off", "auth", "started", "saved", "prompted", "ended"},
               mem: BOOLEAN, saved: BOOLEAN, result: Result0]
NoWorker == [at |-> "off", mem |-> FALSE, saved |-> FALSE, result |-> NoAnswer]

\* full: the enforcement proof was made from the checkpoint; intact: the inputs
\* were observed unchanged after the call.
Output == [result: Result0, proof: BOOLEAN, full: BOOLEAN, intact: BOOLEAN,
           transcript: BOOLEAN, uploaded: BOOLEAN]
NoOutput == [result |-> NoAnswer, proof |-> FALSE, full |-> FALSE,
             intact |-> FALSE, transcript |-> FALSE, uploaded |-> FALSE]

CallInit ==
    /\ lane \in {"direct", "action"}
    /\ mjob = "hydrate"
    /\ attemptFile = [local |-> FALSE, durable |-> FALSE]
    /\ worker = NoWorker
    /\ superv = [cancel |-> FALSE, killed |-> FALSE, raised |-> FALSE]
    /\ action = [transcript |-> FALSE, intact |-> TRUE]
    /\ output = NoOutput
    /\ verdict = [at |-> "wait", result |-> NoAnswer]
    /\ sent = FALSE /\ sealed = FALSE
    /\ crashes = MaxCrashes

Runs0 == {o \in {"well", "fails"} : o = "well" \/ crashes > 0}
Crash(o) == crashes' = IF o = "well" THEN crashes ELSE crashes - 1

-----------------------------------------------------------------------------
(* The model job up to the invocation *)

\* A step that fails skips the rest but the last ones: the capture, which the
\* direct lane has only when nothing was hydrated, and the upload.
LastSteps == IF lane = "direct" /\ mjob # "hydrate" THEN "publish" ELSE "capture"

\* hydrate verifies the whole handoff before anything is run.
Hydrate ==
    /\ mjob = "hydrate"
    /\ \E o \in Runs0 :
          /\ Crash(o)
          /\ mjob' = IF o = "well"
                     THEN IF lane = "direct" THEN "install" ELSE "checkpoint"
                     ELSE LastSteps
    /\ UNCHANGED <<lane, attemptFile, worker, superv, action, output, verdict, sent,
                   sealed>>

\* Sandbox and runtime: a failure is a result that denies spend, when that can
\* be written, and there is no checkpoint.
InstallRuntime ==
    /\ mjob = "install"
    /\ \E o \in Runs0 :
          /\ Crash(o)
          /\ IF o = "well" THEN mjob' = "checkpoint" /\ UNCHANGED output
             ELSE /\ mjob' = LastSteps
                  /\ \E r \in {Rejected, NoAnswer} :
                        output' = [output EXCEPT !.result = r]
    /\ UNCHANGED <<lane, attemptFile, worker, superv, action, verdict, sent, sealed>>

WriteCheckpoint ==
    /\ mjob = "checkpoint"
    /\ \E o \in Runs0 :
          /\ Crash(o)
          /\ IF o = "well"
             THEN mjob' = "upload" /\ attemptFile' = [attemptFile EXCEPT !.local = TRUE]
             ELSE mjob' = LastSteps /\ UNCHANGED attemptFile
    /\ UNCHANGED <<lane, worker, superv, action, output, verdict, sent, sealed>>

\* The upload, then its stage record; a failure of either skips the call.
UploadCheckpoint ==
    /\ mjob = "upload"
    /\ \E o \in Runs0, durable \in BOOLEAN :
          /\ Crash(o) /\ (o = "well" => durable)
          /\ attemptFile' = [attemptFile EXCEPT !.durable = durable]
          /\ mjob' = IF o = "well" THEN "invoke" ELSE LastSteps
    /\ UNCHANGED <<lane, worker, superv, action, output, verdict, sent, sealed>>

\* The steps that invoke the model run only after the checkpoint's upload.
Invocable == mjob = "invoke"

-----------------------------------------------------------------------------
(* The direct lane: supervisor and worker *)

\* supervisor._run up to Popen.  What fails before is rejected without spend,
\* or leaves no result when even that cannot be written.
StartWorker ==
    /\ lane = "direct" /\ Invocable /\ worker = NoWorker
    /\ \E o \in Runs0 :
          /\ Crash(o)
          /\ IF o = "well"
             THEN /\ worker' = [NoWorker EXCEPT !.at = "auth"]
                  /\ mjob' = "invoke" /\ UNCHANGED output
             ELSE /\ \E written \in BOOLEAN :
                        output' = [output EXCEPT
                                     !.result = IF written THEN Rejected ELSE @]
                  /\ mjob' = "publish" /\ UNCHANGED worker
    /\ UNCHANGED <<lane, attemptFile, superv, action, verdict, sent, sealed>>

\* The worker ends by itself with this result, "none" when it died without.
EndsWith(r) == worker' = [worker EXCEPT !.at = "ended", !.result = r]

\* Credential, plan and proxy are checked, then the model process starts.
WorkerStartsModel ==
    /\ worker.at = "auth"
    /\ \E o \in Runs0 :
          /\ Crash(o)
          /\ IF o = "well" THEN worker' = [worker EXCEPT !.at = "started", !.mem = TRUE]
                           ELSE EndsWith(Failed(FALSE))
    /\ UNCHANGED <<lane, mjob, attemptFile, superv, action, output, verdict, sent,
                   sealed>>

\* _checkpoint comes before the prompt; an exception of no known kind ends in a
\* result that denies spend.
WorkerSaves ==
    /\ worker.at = "started"
    /\ \E o \in Runs0 :
          /\ Crash(o)
          /\ IF o = "well" THEN worker' = [worker EXCEPT !.at = "saved", !.saved = TRUE]
                           ELSE EndsWith(Failed(FALSE))
    /\ UNCHANGED <<lane, mjob, attemptFile, superv, action, output, verdict, sent,
                   sealed>>

\* The prompt is written; a broken pipe may follow what the model already read.
WorkerPrompts ==
    /\ worker.at = "saved"
    /\ sent' = TRUE
    /\ \E o \in Runs0 :
          /\ Crash(o)
          /\ IF o = "well" THEN worker' = [worker EXCEPT !.at = "prompted"]
                           ELSE EndsWith(Failed(FALSE))
    /\ UNCHANGED <<lane, mjob, attemptFile, superv, action, output, verdict, sealed>>

\* The stream ends: a final value, a classified failure (which knows of the
\* spend), the cancellation it was asked for, an exception of no known kind.
WorkerEnds ==
    /\ worker.at = "prompted"
    /\ \/ /\ ~superv.cancel
          /\ EndsWith([status |-> "succeeded", spend |-> worker.mem])
          /\ UNCHANGED crashes
       \/ EndsWith(Failed(worker.mem)) /\ UNCHANGED crashes
       \/ /\ superv.cancel
          /\ EndsWith([status |-> "cancelled", spend |-> worker.mem])
          /\ UNCHANGED crashes
       \/ /\ crashes > 0 /\ crashes' = crashes - 1
          /\ EndsWith(Failed(FALSE))
    /\ UNCHANGED <<lane, mjob, attemptFile, superv, action, output, verdict, sent,
                   sealed>>

\* The worker dies at any point without a result.
WorkerDies ==
    /\ worker.at \notin {"off", "ended"}
    /\ crashes > 0 /\ crashes' = crashes - 1
    /\ EndsWith(NoAnswer)
    /\ UNCHANGED <<lane, mjob, attemptFile, superv, action, output, verdict, sent,
                   sealed>>

\* The poll loop of the supervisor turns as long as the worker runs.
Polled == worker.at \notin {"off", "ended"} /\ ~superv.raised

\* The soft deadline or a signal of the runner.
AskToCancel ==
    /\ Polled /\ ~superv.cancel
    /\ superv' = [superv EXCEPT !.cancel = TRUE]
    /\ UNCHANGED <<lane, mjob, attemptFile, worker, action, output, verdict, sent,
                   sealed, crashes>>

\* After the grace, or at the hard deadline; the first signal the worker may
\* survive.  It may have written its result in the moment before it ends.
KillWorker ==
    /\ Polled /\ superv.cancel
    /\ superv' = [superv EXCEPT !.killed = TRUE]
    /\ \/ \E r \in {NoAnswer, [status |-> "cancelled", spend |-> worker.mem]} : EndsWith(r)
       \/ ~superv.killed /\ UNCHANGED worker
    /\ UNCHANGED <<lane, mjob, attemptFile, action, output, verdict, sent, sealed,
                   crashes>>

\* Mutant: the worker's own word counts, its checkpoint does not.
MergedWorkerOnly(r, saved) == r.spend
\* _merge_worker_checkpoint: either file is enough to say that money was spent.
Merged(r, saved) == r.spend \/ saved

\* What _run and _validate_worker make of the worker's files; good is the
\* verdict on the final value.
Collected(good) ==
    IF superv.killed THEN Failed(TRUE)
    ELSE [status |-> CASE worker.result.status = "succeeded" /\ good -> "succeeded"
                       [] worker.result.status = "cancelled" -> "cancelled"
                       [] OTHER -> "failed",
          spend |-> Merged(worker.result, worker.saved)]

\* _write_rejected, after an exception: the worker's checkpoint decides, when it
\* can be read.
AfterException(saved) == IF saved THEN Failed(TRUE) ELSE Rejected

\* The result of _write_rejected, or none when that fails as well.
WritesRejected(saved) ==
    \E r \in {AfterException(saved), NoAnswer} : output' = [output EXCEPT !.result = r]

\* An exception of the poll loop while the worker runs (the cancel request or an
\* event cannot be written, the kill of a root-mapped process is not permitted):
\* its files are still root's, so nothing of its checkpoint can be read.
SupervisorRaises ==
    /\ Polled /\ mjob = "invoke"
    /\ crashes > 0 /\ crashes' = crashes - 1
    /\ WritesRejected(FALSE)
    /\ superv' = [superv EXCEPT !.raised = TRUE]
    /\ sealed' = TRUE
    /\ UNCHANGED <<lane, mjob, attemptFile, worker, action, verdict, sent>>

\* The failed supervisor exits.  Until then the worker went on; now its way to
\* the provider is cut.
SupervisorExits ==
    /\ mjob = "invoke" /\ superv.raised
    /\ worker' = [worker EXCEPT !.at = "ended"]
    /\ mjob' = "publish"
    /\ UNCHANGED <<lane, attemptFile, superv, action, output, verdict, sent, sealed,
                   crashes>>

\* The worker ended: its files are taken back, read and judged, which an
\* exception may end before or after they are the supervisor's own.
CollectWorker ==
    /\ mjob = "invoke" /\ worker.at = "ended" /\ ~superv.raised
    /\ \/ /\ \E good \in BOOLEAN :
                output' = [output EXCEPT !.result = Collected(good)]
          /\ UNCHANGED <<sealed, crashes>>
       \/ /\ crashes > 0 /\ crashes' = crashes - 1
          /\ \/ WritesRejected(worker.saved) /\ UNCHANGED sealed
             \/ WritesRejected(FALSE) /\ sealed' = TRUE
    /\ mjob' = "publish"
    /\ UNCHANGED <<lane, attemptFile, worker, superv, action, verdict, sent>>

-----------------------------------------------------------------------------
(* The other lane: the action and its capture *)

\* The action may end before the model was asked, or after; its transcript may
\* be missing or too large, and what it left of the inputs is observed.
InvokeAction ==
    /\ lane = "action" /\ Invocable
    /\ \E asked, transcript, intact \in BOOLEAN :
          /\ transcript => asked
          /\ sent' = asked
          /\ action' = [transcript |-> transcript, intact |-> intact]
    /\ mjob' = "capture"
    /\ UNCHANGED <<lane, attemptFile, worker, superv, output, verdict, sealed, crashes>>

\* Step capture: without a checkpoint on disk the proof denies spend, with one
\* it states it.
Capture ==
    /\ mjob = "capture"
    /\ \E o \in Runs0 :
          /\ Crash(o)
          /\ output' = IF o = "fails" THEN output
                       ELSE [output EXCEPT !.proof = TRUE, !.full = attemptFile.local,
                                           !.intact = action.intact,
                                           !.transcript = action.transcript]
    /\ mjob' = "publish"
    /\ UNCHANGED <<lane, attemptFile, worker, superv, action, verdict, sent, sealed>>

PublishArtifact ==
    /\ mjob = "publish"
    /\ \E o \in Runs0 :
          /\ Crash(o)
          /\ output' = [output EXCEPT !.uploaded = (o = "well")]
    /\ mjob' = "done"
    /\ UNCHANGED <<lane, attemptFile, worker, superv, action, verdict, sent, sealed>>

\* The job is cancelled or times out, and its last steps still run; or the
\* runner is lost.
JobStops ==
    /\ mjob \notin {"done", "publish"} /\ crashes > 0 /\ crashes' = crashes - 1
    /\ \/ mjob' = "done"
       \/ mjob # "capture" /\ mjob' = LastSteps
    /\ worker' = [worker EXCEPT !.at = IF @ = "off" THEN "off" ELSE "ended"]
    /\ \/ UNCHANGED <<sent, action>>
       \/ /\ lane = "action" /\ mjob = "invoke"
          /\ sent' = TRUE
          /\ \E intact \in BOOLEAN : action' = [action EXCEPT !.intact = intact]
    /\ UNCHANGED <<lane, attemptFile, superv, output, verdict, sealed>>

-----------------------------------------------------------------------------
(* Job finalize *)

\* _enforcement: the proof of the capture counts when it was made from the
\* checkpoint and the inputs were seen unchanged; the bare checkpoint counts.
EnforcementHolds(raw) == raw => output.full /\ output.intact

\* bridge: a transcript or a proof that counts states the spend.
Bridged(raw, good) ==
    [status |-> IF raw /\ EnforcementHolds(raw) /\ output.transcript /\ good
                THEN "succeeded" ELSE "failed",
     spend |-> (raw /\ output.transcript) \/ EnforcementHolds(raw)]

\* write_revision_mismatch_result: under another commit than the caller's, the
\* spend is assumed.
RevisionMismatch == Failed(TRUE)

\* supervisor.write_controller_failure_result: the durable checkpoint of the
\* direct lane stands for a call.
ControllerFailure == Failed(TRUE)

\* What the model job uploaded, else its durable checkpoint, else no result.
Normalize ==
    /\ verdict.at = "wait" /\ mjob = "done"
    /\ \E same, got, good \in BOOLEAN :
          LET raw == output.uploaded /\ got
          IN verdict' = [at |-> "done", result |->
               IF ~same THEN RevisionMismatch
               ELSE IF lane = "direct"
               THEN IF raw /\ output.result # NoAnswer THEN output.result
                    ELSE IF attemptFile.durable THEN ControllerFailure ELSE NoAnswer
               ELSE IF raw /\ output.proof THEN Bridged(TRUE, good)
               ELSE IF attemptFile.durable THEN Bridged(FALSE, good) ELSE NoAnswer]
    /\ UNCHANGED <<lane, mjob, attemptFile, worker, superv, action, output, sent,
                   sealed, crashes>>

-----------------------------------------------------------------------------
CallNext ==
    \/ Hydrate \/ InstallRuntime \/ WriteCheckpoint \/ UploadCheckpoint
    \/ StartWorker \/ WorkerStartsModel \/ WorkerSaves \/ WorkerPrompts
    \/ WorkerEnds \/ WorkerDies \/ AskToCancel \/ KillWorker
    \/ SupervisorRaises \/ SupervisorExits \/ CollectWorker
    \/ InvokeAction \/ Capture \/ PublishArtifact \/ JobStops \/ Normalize

CallSpec == CallInit /\ [][CallNext]_callVars

\* Every variable keeps its type.
CallTypeOK ==
    /\ lane \in {"direct", "action"}
    /\ mjob \in {"hydrate", "install", "checkpoint", "upload", "invoke", "capture",
                 "publish", "done"}
    /\ attemptFile \in [local: BOOLEAN, durable: BOOLEAN]
    /\ worker \in WorkerProc
    /\ superv \in [cancel: BOOLEAN, killed: BOOLEAN, raised: BOOLEAN]
    /\ action \in [transcript: BOOLEAN, intact: BOOLEAN]
    /\ output \in Output
    /\ verdict \in [at: {"wait", "done"}, result: Result0]
    /\ {sent, sealed} \subseteq BOOLEAN /\ crashes \in 0..MaxCrashes

\* The result denies a spend although the prompt reached the model.
SpendDenied == verdict.result.status # "none" /\ ~verdict.result.spend /\ sent

\* A result that denies a spend that happened comes from one of two losses and
\* from no other, whatever failed on the way: the supervisor failed before it
\* had taken the worker's files back (and the result is a rejection), or the
\* action changed its inputs and left no transcript.
SpendIsNeverDenied ==
    SpendDenied =>
        \/ lane = "direct" /\ sealed /\ verdict.result = Rejected
        \/ /\ lane = "action" /\ verdict.result.status = "failed"
           /\ output.proof /\ ~output.intact /\ ~output.transcript

\* "Cancellation or a harness crash cannot downgrade a possibly spent attempt"
\* (docs/AGENT_RUNTIME.md:71), of the direct lane: no result of it denies a
\* spend that happened.
CrashKeepsSpend == lane = "direct" => ~SpendDenied

=============================================================================
