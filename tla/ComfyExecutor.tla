--------------------------- MODULE ComfyExecutor ----------------------------
(***************************************************************************)
(* ComfyUIExecutor (adapters/comfyui/executor.py) and the calls of         *)
(* ComfyUIClient (client.py) it is made of, against a ComfyUI server that  *)
(* runs prompts on its own, loses requests and replies, and restarts.      *)
(*                                                                         *)
(* The worker executes one Job at a time.  Each await of the coroutine is  *)
(* a step of its own: a cancel request, the shutdown of the process or the *)
(* server may act in between.  A call that fails is a loss: the server may *)
(* or may not have acted on it.                                            *)
(***************************************************************************)
EXTENDS Naturals

CONSTANTS
  Jobs,        \* Jobs the worker hands to the executor
  Outputs,     \* files a prompt produces
  MaxLosses    \* bound: failed calls, exceptions and server restarts

ASSUME OutputsAssumption == Outputs # {}
ASSUME LossesAssumption == MaxLosses \in Nat

\* ComfyUI's view of a prompt.  done, empty and error have a history entry.
PromptStates == {"absent", "pending", "running", "done", "empty", "error",
                 "removed", "lost"}
Recorded == {"done", "empty", "error"}
Stray == {"pending", "running"}

\* failure_code of the reports, those found before submitting under one name.
Failures == {"PREFLIGHT", "UNAVAILABLE", "REJECTED", "EXECUTION_FAILED",
             "TIMEOUT", "DISCONNECTED", "INTERRUPT_FAILED", "OUTPUT_NOT_FOUND",
             "WRITE_FAILED"}
Reports == Failures \cup {"succeeded", "stopped", "EXECUTOR_ERROR"}

\* How wait_for_completion ends.
Verdicts == {"completed", "cancelled", "TIMEOUT", "EXECUTION_FAILED",
             "DISCONNECTED"}

Connected == {"preflight", "uploading", "submitting", "waiting", "closing",
              "interrupting", "dequeuing", "confirming", "collecting"}
Pcs == {"idle", "loading", "storing", "finishing", "ended"} \cup Connected

VARIABLES
  pc,          \* [Jobs -> Pcs]: where the executor stands with each Job
  verdict,     \* how the current wait ended
  report,      \* what _execute returned
  stored,      \* outputs of the current Job written so far
  outcome,     \* [Jobs -> Reports or "none"]: the ExecutionOutcome
  cancel,      \* [Jobs -> BOOLEAN]: the cancel event
  prompt,      \* [Jobs -> PromptStates]: the server's side
  files,       \* [Jobs -> SUBSET Outputs]: whole files under artifacts/<job>
  debris,      \* Jobs a failed write or unlink has left a useless file of
  rows,        \* [Jobs -> SUBSET Outputs]: committed Artifact rows
  process,     \* "up", "stopping" (worker.stop awaits the worker) or "down"
  losses       \* failures so far

data == <<files, debris, rows>>
vars == <<pc, verdict, report, stored, outcome, cancel, prompt, data, process,
          losses>>

TypeOK ==
  /\ pc \in [Jobs -> Pcs]
  /\ verdict \in Verdicts
  /\ report \in Reports
  /\ stored \in SUBSET Outputs
  /\ outcome \in [Jobs -> Reports \cup {"none"}]
  /\ cancel \in [Jobs -> BOOLEAN]
  /\ prompt \in [Jobs -> PromptStates]
  /\ files \in [Jobs -> SUBSET Outputs]
  /\ debris \in SUBSET Jobs
  /\ rows \in [Jobs -> SUBSET Outputs]
  /\ process \in {"up", "stopping", "down"}
  /\ losses \in Nat

Init ==
  /\ pc = [j \in Jobs |-> "idle"]
  /\ verdict = "completed"
  /\ report = "succeeded"
  /\ stored = {}
  /\ outcome = [j \in Jobs |-> "none"]
  /\ cancel = [j \in Jobs |-> FALSE]
  /\ prompt = [j \in Jobs |-> "absent"]
  /\ files = [j \in Jobs |-> {}]
  /\ debris = {}
  /\ rows = [j \in Jobs |-> {}]
  /\ process = "up"
  /\ losses = 0

Executing(j) == pc[j] \notin {"idle", "ended"}
Serving == process # "down"
Goto(j, p) == pc' = [pc EXCEPT ![j] = p]
Loss == losses < MaxLosses /\ losses' = losses + 1

-----------------------------------------------------------------------------
(* The coroutine.  A return leaves through the finally clause of run, which *)
(* closes the client.                                                       *)

Finish(j, o) == Goto(j, "finishing") /\ report' = o

\* A step of the coroutine that only moves on, or returns.
Proceed(j, from, to) ==
  /\ pc[j] = from
  /\ Goto(j, to)
  /\ UNCHANGED <<verdict, report, stored, outcome, cancel, prompt, data,
                 process, losses>>

ReturnAs(j, from, o) ==
  /\ pc[j] = from
  /\ Finish(j, o)
  /\ UNCHANGED <<verdict, stored, outcome, cancel, prompt, data, process>>

\* The worker calls run for its next Job.
Begin(j) ==
  /\ Serving
  /\ pc[j] = "idle"
  /\ \A k \in Jobs : ~Executing(k)
  /\ Goto(j, "loading")
  /\ stored' = {}
  /\ UNCHANGED <<verdict, report, outcome, cancel, prompt, data, process, losses>>

\* _load_context: without its records the Job fails before there is a client.
LoadContext(j) ==
  \/ Proceed(j, "loading", "preflight")
  \/ /\ pc[j] = "loading"
     /\ Goto(j, "ended")
     /\ outcome' = [outcome EXCEPT ![j] = "PREFLIGHT"]
     /\ UNCHANGED <<verdict, report, stored, cancel, prompt, data, process, losses>>

\* The server answers and has the models.  A cancel request that came before
\* this point ends the Job with nothing sent.
Preflight(j) ==
  \/ ~cancel[j] /\ Proceed(j, "preflight", "uploading")
  \/ cancel[j] /\ ReturnAs(j, "preflight", "stopped") /\ UNCHANGED losses
  \/ ReturnAs(j, "preflight", "PREFLIGHT") /\ UNCHANGED losses

UploadInputs(j) ==
  \/ Proceed(j, "uploading", "submitting")
  \/ ReturnAs(j, "uploading", "PREFLIGHT") /\ UNCHANGED losses

Submit(j) ==
  \/ /\ pc[j] = "submitting"
     /\ Goto(j, "waiting")
     /\ prompt' = [prompt EXCEPT ![j] = "pending"]
     /\ UNCHANGED <<verdict, report, stored, outcome, cancel, data,
                    process, losses>>
  \/ ReturnAs(j, "submitting", "REJECTED") /\ UNCHANGED losses

\* Mutant: the completion message of any prompt is taken for one's own.
AnyCompletion(j) == \E k \in Jobs : prompt[k] \in {"done", "empty"}

\* The monitor has seen the prompt's own completion, by message or by history.
Completion(j) == prompt[j] \in {"done", "empty"}

\* Mutant: the wait has no time limit.
NoTimeLimit(j) == {}

\* Mutant: a wait that ran out of time is handled like a cancel request.
TimeLimitCancels(j) == {"cancelled"}

\* Mutant: a wait that ran out of time falls off the end and returns nothing.
TimeLimitUnhandled(j) == {"none"}

\* comfyui_timeout_seconds: the time limit may pass at any moment.
TimeLimit(j) == {"TIMEOUT"}

\* What asyncio.wait may end with; a finished monitor comes first.
WaitEnds(j) ==
  IF Completion(j) THEN {"completed"}
  ELSE IF prompt[j] = "error" THEN {"EXECUTION_FAILED"} \cup TimeLimit(j)
  ELSE TimeLimit(j) \cup (IF cancel[j] THEN {"cancelled"} ELSE {})

WaitForCompletion(j) ==
  /\ pc[j] = "waiting"
  /\ verdict' \in WaitEnds(j)
  /\ Goto(j, "closing")
  /\ UNCHANGED <<report, stored, outcome, cancel, prompt, data, process, losses>>

\* _cancel_task of the helper tasks is awaited before the verdict is acted on.
\* A timeout leaves the prompt with the server.
AfterWait(j) ==
  /\ pc[j] = "closing"
  /\ CASE verdict = "completed" -> Goto(j, "collecting") /\ UNCHANGED report
       [] verdict = "cancelled" -> Goto(j, "interrupting") /\ UNCHANGED report
       [] OTHER -> Finish(j, verdict)
  /\ UNCHANGED <<verdict, stored, outcome, cancel, prompt, data, process, losses>>

\* What /interrupt can do to the server: it stops a prompt that is running,
\* unless it comes too late, and does nothing to one that waits.
Halted(j) ==
  IF prompt[j] = "running" THEN {prompt, [prompt EXCEPT ![j] = "error"]} ELSE {prompt}

Interrupt(j) ==
  /\ pc[j] = "interrupting"
  /\ Goto(j, "dequeuing")
  /\ prompt' \in Halted(j)
  /\ UNCHANGED <<verdict, report, stored, outcome, cancel, data, process, losses>>

\* What /queue delete does to the server: only a waiting prompt is removed.
Dequeued(j) ==
  IF prompt[j] = "pending" THEN [prompt EXCEPT ![j] = "removed"] ELSE prompt

Dequeue(j) ==
  /\ pc[j] = "dequeuing"
  /\ Goto(j, "confirming")
  /\ prompt' = Dequeued(j)
  /\ UNCHANGED <<verdict, report, stored, outcome, cancel, data,
                 process, losses>>

\* fetch_outputs has found outputs.
HasOutputs(j) == prompt[j] = "done"

\* No entry, an error or no outputs: the Job counts as stopped.
ConfirmStop(j) ==
  \/ HasOutputs(j) /\ Proceed(j, "confirming", "storing")
  \/ ~HasOutputs(j) /\ ReturnAs(j, "confirming", "stopped") /\ UNCHANGED losses

CollectOutputs(j) ==
  \/ HasOutputs(j) /\ Proceed(j, "collecting", "storing")
  \/ ~HasOutputs(j) /\ ReturnAs(j, "collecting", "OUTPUT_NOT_FOUND") /\ UNCHANGED losses

\* Download one output and write it to a new file of the Job.
StoreOutput(j) ==
  /\ pc[j] = "storing"
  /\ \E f \in Outputs \ stored :
       /\ stored' = stored \cup {f}
       /\ files' = [files EXCEPT ![j] = @ \cup {f}]
  /\ UNCHANGED <<pc, verdict, report, outcome, cancel, prompt, debris, rows,
                 process, losses>>

\* One transaction for all outputs; closing the session cannot undo it.
CreateArtifacts(j) ==
  /\ pc[j] = "storing"
  /\ stored = Outputs
  /\ rows' = [rows EXCEPT ![j] = stored]
  /\ Finish(j, "succeeded")
  /\ UNCHANGED <<verdict, stored, outcome, cancel, prompt, files, debris, process,
                 losses>>

CloseClient(j) ==
  /\ pc[j] = "finishing"
  /\ outcome' = [outcome EXCEPT ![j] = report]
  /\ Goto(j, "ended")
  /\ UNCHANGED <<verdict, report, stored, cancel, prompt, data, process, losses>>

-----------------------------------------------------------------------------
(* Calls that fail.                                                        *)

\* A refused or broken connection before, during or after the wait.
ConnectionLost(j) ==
  /\ Loss
  /\ \/ ReturnAs(j, "preflight", "UNAVAILABLE")
     \/ ReturnAs(j, "uploading", "UNAVAILABLE")
     \/ ReturnAs(j, "confirming", "DISCONNECTED")
     \/ ReturnAs(j, "collecting", "DISCONNECTED")

\* The reply to /prompt is lost: the prompt may be in the server's queue.
SubmitLost(j) ==
  /\ pc[j] = "submitting"
  /\ Loss
  /\ Finish(j, "UNAVAILABLE")
  /\ \E s \in {"absent", "pending"} : prompt' = [prompt EXCEPT ![j] = s]
  /\ UNCHANGED <<verdict, stored, outcome, cancel, data, process>>

\* Neither the WebSocket nor the history can be read.
MonitorLost(j) ==
  /\ pc[j] = "waiting"
  /\ Loss
  /\ verdict' = "DISCONNECTED"
  /\ Goto(j, "closing")
  /\ UNCHANGED <<report, stored, outcome, cancel, prompt, data, process>>

InterruptLost(j) ==
  /\ pc[j] = "interrupting"
  /\ Loss
  /\ Finish(j, "INTERRUPT_FAILED")
  /\ prompt' \in Halted(j)
  /\ UNCHANGED <<verdict, stored, outcome, cancel, data, process>>

\* The failure of /queue delete is logged and ignored.
DequeueLost(j) ==
  /\ pc[j] = "dequeuing"
  /\ Loss
  /\ Goto(j, "confirming")
  /\ prompt' \in {prompt, Dequeued(j)}
  /\ UNCHANGED <<verdict, report, stored, outcome, cancel, data, process>>

\* Mutant: what was stored before the failure is left on disk.
KeepStored(j) == files

\* _discard removes the files that were stored for this Job.
DiscardStored(j) == [files EXCEPT ![j] = @ \ stored]

\* A download or a write fails, or the commit does.  A write may leave half a
\* file, which is not among those stored, and unlinking one may fail (logged).
StoreFails(j) ==
  /\ pc[j] = "storing"
  /\ Loss
  /\ files' = DiscardStored(j)
  /\ \/ /\ stored # Outputs
        /\ \E o \in {"DISCONNECTED", "OUTPUT_NOT_FOUND"} : Finish(j, o)
     \/ Finish(j, "WRITE_FAILED")
  /\ debris' \in {debris, debris \cup {j}}
  /\ UNCHANGED <<verdict, stored, outcome, cancel, prompt, rows, process>>

\* An exception no clause expects, also one of the closing of the client.
Breaks(j) ==
  /\ pc[j] \in Connected \cup {"loading", "finishing"}
  /\ Loss
  /\ outcome' = [outcome EXCEPT ![j] = "EXECUTOR_ERROR"]
  /\ Goto(j, "ended")
  /\ UNCHANGED <<verdict, report, stored, cancel, prompt, data, process>>

-----------------------------------------------------------------------------
(* The server, which other clients use too: a prompt waits as long as it   *)
(* likes, and an interrupt may come too late.                              *)

StartPrompt(j) ==
  /\ prompt[j] = "pending"
  /\ \A k \in Jobs : prompt[k] # "running"
  /\ prompt' = [prompt EXCEPT ![j] = "running"]
  /\ UNCHANGED <<pc, verdict, report, stored, outcome, cancel, data,
                 process, losses>>

EndPrompt(j) ==
  /\ prompt[j] = "running"
  /\ \E s \in Recorded : prompt' = [prompt EXCEPT ![j] = s]
  /\ UNCHANGED <<pc, verdict, report, stored, outcome, cancel, data,
                 process, losses>>

\* A restart forgets the queue and the history.
ServerRestart ==
  /\ Loss
  /\ prompt' = [j \in Jobs |-> IF prompt[j] = "absent" THEN "absent" ELSE "lost"]
  /\ UNCHANGED <<pc, verdict, report, stored, outcome, cancel, data, process>>

-----------------------------------------------------------------------------
(* The process.                                                            *)

\* request_cancel: the event exists while the Job is being executed.
RequestCancel(j) ==
  /\ Serving
  /\ Executing(j)
  /\ cancel' = [cancel EXCEPT ![j] = TRUE]
  /\ UNCHANGED <<pc, verdict, report, stored, outcome, prompt, data, process, losses>>

\* worker.stop cancels the worker task and waits for it.  While the helper
\* tasks are being closed, _cancel_task takes the CancelledError for theirs:
\* the executor goes on, and the worker with it.
Shutdown ==
  /\ process = "up"
  /\ IF \E j \in Jobs : pc[j] = "closing"
     THEN process' = "stopping" /\ UNCHANGED pc
     ELSE /\ process' = "down"
          /\ pc' = [j \in Jobs |-> IF Executing(j) THEN "ended" ELSE pc[j]]
  /\ UNCHANGED <<verdict, report, stored, outcome, cancel, prompt, data, losses>>

\* The process is killed, or its task is cancelled while the commit runs in
\* the database thread: what is on disk stays.
Crash ==
  /\ Serving
  /\ process' = "down"
  /\ pc' = [j \in Jobs |-> IF Executing(j) THEN "ended" ELSE pc[j]]
  /\ \/ UNCHANGED rows
     \/ \E j \in Jobs : /\ pc[j] = "storing" /\ stored = Outputs
                        /\ rows' = [rows EXCEPT ![j] = stored]
  /\ UNCHANGED <<verdict, report, stored, outcome, cancel, prompt, files, debris,
                 losses>>

-----------------------------------------------------------------------------
ExecutorStep(j) ==
  \/ LoadContext(j)
  \/ Preflight(j)
  \/ UploadInputs(j)
  \/ Submit(j)
  \/ WaitForCompletion(j)
  \/ AfterWait(j)
  \/ Interrupt(j)
  \/ Dequeue(j)
  \/ ConfirmStop(j)
  \/ CollectOutputs(j)
  \/ StoreOutput(j)
  \/ CreateArtifacts(j)
  \/ CloseClient(j)

Failure(j) ==
  \/ ConnectionLost(j)
  \/ SubmitLost(j)
  \/ MonitorLost(j)
  \/ InterruptLost(j)
  \/ DequeueLost(j)
  \/ StoreFails(j)
  \/ Breaks(j)

Next ==
  \/ \E j \in Jobs :
       \/ Begin(j)
       \/ ExecutorStep(j)
       \/ Failure(j)
       \/ StartPrompt(j)
       \/ EndPrompt(j)
       \/ RequestCancel(j)
  \/ ServerRestart
  \/ Shutdown
  \/ Crash

\* The event loop keeps the coroutine going: every HTTP call and the wait have
\* a time limit.  Nothing obliges the server to run a prompt.
Fairness == \A j \in Jobs : WF_vars(Serving /\ ExecutorStep(j))

Spec == Init /\ [][Next]_vars

FairSpec == Spec /\ Fairness

-----------------------------------------------------------------------------
(* Properties.                                                             *)

\* What the queue relies on: JobExecution, for every Job.
Contract(o) == IF o \in Failures THEN "BACKEND" ELSE o

Execution == INSTANCE JobExecution WITH
  committed <- [j \in Jobs |-> rows[j] # {}],
  outcome <- [j \in Jobs |-> Contract(outcome[j])]

ImplementsExecution == Execution!Spec

\* No Artifact row without its file, whatever failed before or after the
\* commit; and once a Job has been reported, no whole file without its row.
FilesMatchRows ==
  \A j \in Jobs :
    /\ rows[j] \subseteq files[j]
    /\ outcome[j] # "none" => files[j] = rows[j]

\* The reports of a Job that lost touch with the server, ran out of time, was
\* stopped, or broke.
MayLeaveStray == {"UNAVAILABLE", "TIMEOUT", "DISCONNECTED", "INTERRUPT_FAILED",
                  "stopped", "EXECUTOR_ERROR"}

\* A prompt may outlive its Job on the GPU, but only that of such a Job: a
\* success, a failure of the execution or of the storing never leaves one.
StraysAccounted ==
  \A j \in Jobs : prompt[j] \in Stray /\ outcome[j] # "none" =>
    outcome[j] \in MayLeaveStray

\* The executor always returns: the queue behind it is never stuck.
ExecutionEnds == \A j \in Jobs : Executing(j) ~> ~Executing(j)

\* A shutdown that has begun ends.
ShutdownEnds == process = "stopping" ~> process = "down"
=============================================================================
