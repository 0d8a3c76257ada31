--------------------------- MODULE ExecutorProofs ---------------------------
(***************************************************************************)
(* Machine-checked proofs about the executors, for every set of Jobs, of   *)
(* outputs and of lines and any number of losses: ComfyExecutor, then      *)
(* VoiceExecutor, then ComposeExecutor.                                    *)
(***************************************************************************)
EXTENDS ComfyExecutor, LocalExecutors, TLAPS

-----------------------------------------------------------------------------
(* The inductive invariant: the worker executes one Job at a time; what    *)
(* the files, the rows and the prompt of a Job are where it stands; a      *)
(* cancel request precedes everything on the way to a reported stop.       *)

Serial == \A j, k \in Jobs : Executing(j) /\ Executing(k) => j = k

Unsubmitted == {"idle", "loading", "preflight", "uploading", "submitting"}

Reported(j, o) ==
  /\ files[j] = rows[j]
  /\ o = "succeeded" => rows[j] # {}
  /\ o \in Failures \cup {"stopped"} => rows[j] = {}
  /\ o = "stopped" => cancel[j]
  /\ prompt[j] \in Stray => o \in MayLeaveStray

Progress(j) ==
  /\ outcome[j] # "none" => pc[j] = "ended" /\ Reported(j, outcome[j])
  /\ pc[j] \in Connected \cup {"idle", "loading"} => files[j] = {} /\ rows[j] = {}
  /\ pc[j] \in Connected \cup {"loading"} => stored = {}
  /\ pc[j] \in Unsubmitted => prompt[j] \notin Stray
  /\ pc[j] = "closing" /\ verdict = "cancelled" => cancel[j]
  /\ pc[j] = "closing" /\ prompt[j] \in Stray =>
       verdict \in {"cancelled", "TIMEOUT", "DISCONNECTED"}
  /\ pc[j] \in {"interrupting", "dequeuing", "confirming"} => cancel[j]
  /\ pc[j] = "collecting" => prompt[j] \notin Stray
  /\ pc[j] = "storing" => /\ prompt[j] \notin Stray
                          /\ files[j] = stored /\ rows[j] = {}
  /\ pc[j] = "finishing" => Reported(j, report)
  /\ rows[j] \subseteq files[j]

IInv == TypeOK /\ Serial /\ \A j \in Jobs : Progress(j)

LEMMA IInvInit == Init => IInv
BY DEF Init, IInv, TypeOK, Serial, Executing, Progress, Reported, Connected, Pcs,
       Unsubmitted, Verdicts, Reports, Failures, PromptStates, Stray

LEMMA TypeNext == TypeOK /\ [Next]_vars => TypeOK'
<1> SUFFICES ASSUME TypeOK, [Next]_vars PROVE TypeOK'
  OBVIOUS
<1> USE DEF TypeOK, Pcs, Connected, Verdicts, Reports, Failures, PromptStates,
            Recorded, data, Goto, Finish
<1>1. ASSUME NEW j \in Jobs, Begin(j) PROVE TypeOK'
  BY <1>1, LossesAssumption DEF Begin, Serving
<1>2. ASSUME NEW j \in Jobs, LoadContext(j) PROVE TypeOK'
  BY <1>2, LossesAssumption DEF LoadContext, Proceed
<1>3. ASSUME NEW j \in Jobs, Preflight(j) PROVE TypeOK'
  BY <1>3, LossesAssumption DEF Preflight, Proceed, ReturnAs
<1>4. ASSUME NEW j \in Jobs, UploadInputs(j) PROVE TypeOK'
  BY <1>4, LossesAssumption DEF UploadInputs, Proceed, ReturnAs
<1>5. ASSUME NEW j \in Jobs, Submit(j) PROVE TypeOK'
  BY <1>5, LossesAssumption DEF Submit, ReturnAs
<1>6. ASSUME NEW j \in Jobs, WaitForCompletion(j) PROVE TypeOK'
  BY <1>6, LossesAssumption DEF WaitForCompletion, WaitEnds, Completion, TimeLimit
<1>7. ASSUME NEW j \in Jobs, AfterWait(j) PROVE TypeOK'
  BY <1>7, LossesAssumption DEF AfterWait
<1>8. ASSUME NEW j \in Jobs, Interrupt(j) PROVE TypeOK'
  BY <1>8, LossesAssumption DEF Interrupt, Halted
<1>9. ASSUME NEW j \in Jobs, Dequeue(j) PROVE TypeOK'
  BY <1>9, LossesAssumption DEF Dequeue, Dequeued
<1>10. ASSUME NEW j \in Jobs, ConfirmStop(j) PROVE TypeOK'
  BY <1>10, LossesAssumption DEF ConfirmStop, HasOutputs, Proceed, ReturnAs
<1>11. ASSUME NEW j \in Jobs, CollectOutputs(j) PROVE TypeOK'
  BY <1>11, LossesAssumption DEF CollectOutputs, HasOutputs, Proceed, ReturnAs
<1>12. ASSUME NEW j \in Jobs, StoreOutput(j) PROVE TypeOK'
  BY <1>12, LossesAssumption DEF StoreOutput
<1>13. ASSUME NEW j \in Jobs, CreateArtifacts(j) PROVE TypeOK'
  BY <1>13, LossesAssumption DEF CreateArtifacts
<1>14. ASSUME NEW j \in Jobs, CloseClient(j) PROVE TypeOK'
  BY <1>14, LossesAssumption DEF CloseClient
<1>15. ASSUME NEW j \in Jobs, ConnectionLost(j) PROVE TypeOK'
  BY <1>15, LossesAssumption DEF ConnectionLost, ReturnAs, Loss
<1>16. ASSUME NEW j \in Jobs, SubmitLost(j) PROVE TypeOK'
  BY <1>16, LossesAssumption DEF SubmitLost, Loss
<1>17. ASSUME NEW j \in Jobs, MonitorLost(j) PROVE TypeOK'
  BY <1>17, LossesAssumption DEF MonitorLost, Loss
<1>18. ASSUME NEW j \in Jobs, InterruptLost(j) PROVE TypeOK'
  BY <1>18, LossesAssumption DEF InterruptLost, Halted, Loss
<1>19. ASSUME NEW j \in Jobs, DequeueLost(j) PROVE TypeOK'
  BY <1>19, LossesAssumption DEF DequeueLost, Dequeued, Loss
<1>20. ASSUME NEW j \in Jobs, StoreFails(j) PROVE TypeOK'
  BY <1>20, LossesAssumption DEF StoreFails, DiscardStored, Loss
<1>21. ASSUME NEW j \in Jobs, Breaks(j) PROVE TypeOK'
  BY <1>21, LossesAssumption DEF Breaks, Loss
<1>22. ASSUME NEW j \in Jobs, StartPrompt(j) PROVE TypeOK'
  BY <1>22, LossesAssumption DEF StartPrompt
<1>23. ASSUME NEW j \in Jobs, EndPrompt(j) PROVE TypeOK'
  BY <1>23, LossesAssumption DEF EndPrompt
<1>24. ASSUME NEW j \in Jobs, RequestCancel(j) PROVE TypeOK'
  BY <1>24, LossesAssumption DEF RequestCancel, Serving
<1>25. CASE ServerRestart
  BY <1>25, LossesAssumption DEF ServerRestart, Loss
<1>26. CASE Shutdown
  BY <1>26 DEF Shutdown, Executing
<1>27. CASE Crash
  BY <1>27 DEF Crash, Executing, Serving
<1>28. CASE UNCHANGED vars
  BY <1>28 DEF vars
<1> QED
  BY <1>1, <1>2, <1>3, <1>4, <1>5, <1>6, <1>7, <1>8, <1>9, <1>10, <1>11, <1>12,
     <1>13, <1>14, <1>15, <1>16, <1>17, <1>18, <1>19, <1>20, <1>21, <1>22,
     <1>23, <1>24, <1>25, <1>26, <1>27, <1>28
     DEF Next, ExecutorStep, Failure

LEMMA SerialNext == TypeOK /\ Serial /\ [Next]_vars => Serial'
<1> SUFFICES ASSUME TypeOK, Serial, [Next]_vars PROVE Serial'
  OBVIOUS
<1> USE DEF TypeOK, Serial, Executing, Goto, Finish
<1>1. ASSUME NEW j \in Jobs, Begin(j) PROVE Serial'
  BY <1>1 DEF Begin, Serving
<1>2. ASSUME NEW j \in Jobs, LoadContext(j) PROVE Serial'
  BY <1>2 DEF LoadContext, Proceed
<1>3. ASSUME NEW j \in Jobs, Preflight(j) PROVE Serial'
  BY <1>3 DEF Preflight, Proceed, ReturnAs
<1>4. ASSUME NEW j \in Jobs, UploadInputs(j) PROVE Serial'
  BY <1>4 DEF UploadInputs, Proceed, ReturnAs
<1>5. ASSUME NEW j \in Jobs, Submit(j) PROVE Serial'
  BY <1>5 DEF Submit, ReturnAs
<1>6. ASSUME NEW j \in Jobs, WaitForCompletion(j) PROVE Serial'
  BY <1>6 DEF WaitForCompletion, WaitEnds, Completion, TimeLimit
<1>7. ASSUME NEW j \in Jobs, AfterWait(j) PROVE Serial'
  BY <1>7 DEF AfterWait
<1>8. ASSUME NEW j \in Jobs, Interrupt(j) PROVE Serial'
  BY <1>8 DEF Interrupt, Halted
<1>9. ASSUME NEW j \in Jobs, Dequeue(j) PROVE Serial'
  BY <1>9 DEF Dequeue, Dequeued
<1>10. ASSUME NEW j \in Jobs, ConfirmStop(j) PROVE Serial'
  BY <1>10 DEF ConfirmStop, HasOutputs, Proceed, ReturnAs
<1>11. ASSUME NEW j \in Jobs, CollectOutputs(j) PROVE Serial'
  BY <1>11 DEF CollectOutputs, HasOutputs, Proceed, ReturnAs
<1>12. ASSUME NEW j \in Jobs, StoreOutput(j) PROVE Serial'
  BY <1>12 DEF StoreOutput
<1>13. ASSUME NEW j \in Jobs, CreateArtifacts(j) PROVE Serial'
  BY <1>13 DEF CreateArtifacts
<1>14. ASSUME NEW j \in Jobs, CloseClient(j) PROVE Serial'
  BY <1>14 DEF CloseClient
<1>15. ASSUME NEW j \in Jobs, ConnectionLost(j) PROVE Serial'
  BY <1>15 DEF ConnectionLost, ReturnAs, Loss
<1>16. ASSUME NEW j \in Jobs, SubmitLost(j) PROVE Serial'
  BY <1>16 DEF SubmitLost, Loss
<1>17. ASSUME NEW j \in Jobs, MonitorLost(j) PROVE Serial'
  BY <1>17 DEF MonitorLost, Loss
<1>18. ASSUME NEW j \in Jobs, InterruptLost(j) PROVE Serial'
  BY <1>18 DEF InterruptLost, Halted, Loss
<1>19. ASSUME NEW j \in Jobs, DequeueLost(j) PROVE Serial'
  BY <1>19 DEF DequeueLost, Dequeued, Loss
<1>20. ASSUME NEW j \in Jobs, StoreFails(j) PROVE Serial'
  BY <1>20 DEF StoreFails, DiscardStored, Loss
<1>21. ASSUME NEW j \in Jobs, Breaks(j) PROVE Serial'
  BY <1>21 DEF Breaks, Loss
<1>22. ASSUME NEW j \in Jobs, StartPrompt(j) PROVE Serial'
  BY <1>22 DEF StartPrompt
<1>23. ASSUME NEW j \in Jobs, EndPrompt(j) PROVE Serial'
  BY <1>23 DEF EndPrompt
<1>24. ASSUME NEW j \in Jobs, RequestCancel(j) PROVE Serial'
  BY <1>24 DEF RequestCancel, Serving
<1>25. CASE ServerRestart
  BY <1>25, LossesAssumption DEF ServerRestart, Loss
<1>26. CASE Shutdown
  BY <1>26 DEF Shutdown, Executing
<1>27. CASE Crash
  BY <1>27 DEF Crash, Executing, Serving
<1>28. CASE UNCHANGED vars
  BY <1>28 DEF vars
<1> QED
  BY <1>1, <1>2, <1>3, <1>4, <1>5, <1>6, <1>7, <1>8, <1>9, <1>10, <1>11, <1>12,
     <1>13, <1>14, <1>15, <1>16, <1>17, <1>18, <1>19, <1>20, <1>21, <1>22,
     <1>23, <1>24, <1>25, <1>26, <1>27, <1>28
     DEF Next, ExecutorStep, Failure

LEMMA ProgressNext ==
  IInv /\ [Next]_vars => \A k \in Jobs : Progress(k)'
<1> SUFFICES ASSUME IInv, [Next]_vars, NEW k \in Jobs PROVE Progress(k)'
  OBVIOUS
<1> USE DEF IInv, TypeOK, Serial, Executing, Progress, Reported, Connected, Pcs,
            Unsubmitted, Verdicts, Reports, Failures, PromptStates, Stray,
            Recorded, MayLeaveStray, data, Goto, Finish
<1>1. ASSUME NEW j \in Jobs, Begin(j) PROVE Progress(k)'
  BY <1>1, OutputsAssumption DEF Begin, Serving
<1>2. ASSUME NEW j \in Jobs, LoadContext(j) PROVE Progress(k)'
  <2>1. CASE Proceed(j, "loading", "preflight")
    BY <2>1 DEF Proceed
  <2>2. CASE /\ pc[j] = "loading"
             /\ Goto(j, "ended")
             /\ outcome' = [outcome EXCEPT ![j] = "PREFLIGHT"]
             /\ UNCHANGED <<verdict, report, stored, cancel, prompt, data, process,
                            losses>>
    BY <2>2
  <2> QED
    BY <1>2, <2>1, <2>2 DEF LoadContext
<1>3. ASSUME NEW j \in Jobs, Preflight(j) PROVE Progress(k)'
  <2>1. CASE Proceed(j, "preflight", "uploading")
    BY <2>1 DEF Proceed
  <2>2. CASE cancel[j] /\ ReturnAs(j, "preflight", "stopped") /\ UNCHANGED losses
    BY <2>2 DEF ReturnAs
  <2>3. CASE ReturnAs(j, "preflight", "PREFLIGHT")
    BY <2>3 DEF ReturnAs
  <2> QED
    BY <1>3, <2>1, <2>2, <2>3 DEF Preflight
<1>4. ASSUME NEW j \in Jobs, UploadInputs(j) PROVE Progress(k)'
  <2>1. CASE Proceed(j, "uploading", "submitting")
    BY <2>1 DEF Proceed
  <2>2. CASE ReturnAs(j, "uploading", "PREFLIGHT")
    BY <2>2 DEF ReturnAs
  <2> QED
    BY <1>4, <2>1, <2>2 DEF UploadInputs
<1>5. ASSUME NEW j \in Jobs, Submit(j) PROVE Progress(k)'
  <2>1. CASE pc[j] = "submitting" /\ pc'[j] = "waiting"
    BY <1>5, <2>1 DEF Submit, ReturnAs
  <2>2. CASE ReturnAs(j, "submitting", "REJECTED")
    BY <2>2 DEF ReturnAs
  <2> QED
    BY <1>5, <2>1, <2>2 DEF Submit
<1>6. ASSUME NEW j \in Jobs, WaitForCompletion(j) PROVE Progress(k)'
  BY <1>6, OutputsAssumption DEF WaitForCompletion, WaitEnds, Completion, TimeLimit
<1>7. ASSUME NEW j \in Jobs, AfterWait(j) PROVE Progress(k)'
  BY <1>7, OutputsAssumption DEF AfterWait
<1>8. ASSUME NEW j \in Jobs, Interrupt(j) PROVE Progress(k)'
  BY <1>8, OutputsAssumption DEF Interrupt, Halted
<1>9. ASSUME NEW j \in Jobs, Dequeue(j) PROVE Progress(k)'
  BY <1>9, OutputsAssumption DEF Dequeue, Dequeued
<1>10. ASSUME NEW j \in Jobs, ConfirmStop(j) PROVE Progress(k)'
  <2>1. CASE HasOutputs(j) /\ Proceed(j, "confirming", "storing")
    BY <2>1 DEF HasOutputs, Proceed
  <2>2. CASE ReturnAs(j, "confirming", "stopped")
    BY <2>2 DEF ReturnAs
  <2> QED
    BY <1>10, <2>1, <2>2 DEF ConfirmStop
<1>11. ASSUME NEW j \in Jobs, CollectOutputs(j) PROVE Progress(k)'
  <2>1. CASE Proceed(j, "collecting", "storing")
    BY <2>1 DEF Proceed
  <2>2. CASE ReturnAs(j, "collecting", "OUTPUT_NOT_FOUND")
    BY <2>2 DEF ReturnAs
  <2> QED
    BY <1>11, <2>1, <2>2 DEF CollectOutputs
<1>12. ASSUME NEW j \in Jobs, StoreOutput(j) PROVE Progress(k)'
  BY <1>12, OutputsAssumption DEF StoreOutput
<1>13. ASSUME NEW j \in Jobs, CreateArtifacts(j) PROVE Progress(k)'
  BY <1>13, OutputsAssumption DEF CreateArtifacts
<1>14. ASSUME NEW j \in Jobs, CloseClient(j) PROVE Progress(k)'
  BY <1>14, OutputsAssumption DEF CloseClient
<1>15. ASSUME NEW j \in Jobs, ConnectionLost(j) PROVE Progress(k)'
  <2>1. CASE ReturnAs(j, "preflight", "UNAVAILABLE")
    BY <2>1 DEF ReturnAs
  <2>2. CASE ReturnAs(j, "uploading", "UNAVAILABLE")
    BY <2>2 DEF ReturnAs
  <2>3. CASE ReturnAs(j, "confirming", "DISCONNECTED")
    BY <2>3 DEF ReturnAs
  <2>4. CASE ReturnAs(j, "collecting", "DISCONNECTED")
    BY <2>4 DEF ReturnAs
  <2> QED
    BY <1>15, <2>1, <2>2, <2>3, <2>4 DEF ConnectionLost
<1>16. ASSUME NEW j \in Jobs, SubmitLost(j) PROVE Progress(k)'
  <2>1. CASE j = k
    BY <1>16, <2>1 DEF SubmitLost
  <2>2. CASE j # k
    <3>1. pc[k] \in {"idle", "ended"} /\ prompt'[k] = prompt[k]
      BY <1>16, <2>2 DEF SubmitLost
    <3>2. /\ pc'[k] = pc[k]
          /\ UNCHANGED <<outcome, stored, verdict, cancel, files, rows>>
      BY <1>16, <2>2 DEF SubmitLost
    <3> QED
      BY <3>1, <3>2
  <2> QED
    BY <2>1, <2>2
<1>17. ASSUME NEW j \in Jobs, MonitorLost(j) PROVE Progress(k)'
  BY <1>17, OutputsAssumption DEF MonitorLost, Loss
<1>18. ASSUME NEW j \in Jobs, InterruptLost(j) PROVE Progress(k)'
  <2>1. prompt'[k] = prompt[k] \/ prompt'[k] \notin Stray
    BY <1>18 DEF InterruptLost, Halted
  <2>2. CASE j = k
    <3>1. files'[k] = {} /\ rows'[k] = {} /\ outcome'[k] = "none"
      BY <1>18, <2>2 DEF InterruptLost
    <3>2. pc'[k] = "finishing" /\ report' = "INTERRUPT_FAILED"
      BY <1>18, <2>2 DEF InterruptLost
    <3> QED
      BY <3>1, <3>2
  <2>3. CASE j # k
    <3>1. pc[k] \in {"idle", "ended"}
      BY <1>18, <2>3 DEF InterruptLost
    <3>2. pc'[k] = pc[k] /\ outcome'[k] = outcome[k] /\ UNCHANGED <<stored, verdict, cancel, files, rows>>
      BY <1>18, <2>3 DEF InterruptLost
    <3> QED
      BY <2>1, <3>1, <3>2
  <2> QED
    BY <2>2, <2>3
<1>19. ASSUME NEW j \in Jobs, DequeueLost(j) PROVE Progress(k)'
  BY <1>19, OutputsAssumption DEF DequeueLost, Dequeued, Loss
<1>20. ASSUME NEW j \in Jobs, StoreFails(j) PROVE Progress(k)'
  <2>1. CASE j = k
    <3>1. files'[k] = {} /\ rows'[k] = {} /\ prompt'[k] \notin Stray
      BY <1>20, <2>1 DEF StoreFails, DiscardStored
    <3>2. pc'[k] = "finishing" /\ report' \in Failures /\ outcome'[k] = "none"
      BY <1>20, <2>1 DEF StoreFails
    <3> QED
      BY <3>1, <3>2
  <2>2. CASE j # k
    <3>1. pc[k] \in {"idle", "ended"} /\ files'[k] = files[k]
      BY <1>20, <2>2 DEF StoreFails, DiscardStored
    <3>2. pc'[k] = pc[k] /\ UNCHANGED <<outcome, stored, verdict, cancel, prompt, rows>>
      BY <1>20, <2>2 DEF StoreFails
    <3> QED
      BY <3>1, <3>2
  <2> QED
    BY <2>1, <2>2
<1>21. ASSUME NEW j \in Jobs, Breaks(j) PROVE Progress(k)'
  BY <1>21, OutputsAssumption DEF Breaks, Loss
<1>22. ASSUME NEW j \in Jobs, StartPrompt(j) PROVE Progress(k)'
  BY <1>22, OutputsAssumption DEF StartPrompt
<1>23. ASSUME NEW j \in Jobs, EndPrompt(j) PROVE Progress(k)'
  BY <1>23, OutputsAssumption DEF EndPrompt
<1>24. ASSUME NEW j \in Jobs, RequestCancel(j) PROVE Progress(k)'
  BY <1>24, OutputsAssumption DEF RequestCancel, Serving
<1>25. CASE ServerRestart
  BY <1>25, LossesAssumption DEF ServerRestart, Loss
<1>26. CASE Shutdown
  BY <1>26 DEF Shutdown, Executing
<1>27. CASE Crash
  BY <1>27 DEF Crash, Executing, Serving
<1>28. CASE UNCHANGED vars
  BY <1>28 DEF vars
<1> QED
  BY <1>1, <1>2, <1>3, <1>4, <1>5, <1>6, <1>7, <1>8, <1>9, <1>10, <1>11, <1>12,
     <1>13, <1>14, <1>15, <1>16, <1>17, <1>18, <1>19, <1>20, <1>21, <1>22,
     <1>23, <1>24, <1>25, <1>26, <1>27, <1>28
     DEF Next, ExecutorStep, Failure

LEMMA Invariance == Spec => []IInv
<1>1. IInv /\ [Next]_vars => IInv'
  BY TypeNext, SerialNext, ProgressNext DEF IInv
<1> QED
  BY <1>1, IInvInit, PTL DEF Spec

\* Every variable of the executor keeps its type.
THEOREM TypeCorrect == Spec => []TypeOK
BY Invariance, PTL DEF IInv

\* No Artifact row without its file and, of a reported Job, no file without
\* its row, whatever call fails and wherever the process ends.
THEOREM FilesAndRows == Spec => []FilesMatchRows
<1>1. IInv => FilesMatchRows
  BY DEF IInv, Progress, Reported, FilesMatchRows
<1> QED
  BY <1>1, Invariance, PTL

\* Only the Jobs that lost touch, ran out of time, were stopped or broke can
\* leave a prompt on the GPU.
THEOREM StraysOnlyWhereAllowed == Spec => []StraysAccounted
<1>1. IInv => StraysAccounted
  BY DEF IInv, Progress, Reported, StraysAccounted
<1> QED
  BY <1>1, Invariance, PTL

-----------------------------------------------------------------------------
(* The contract of the queue.                                              *)

LEMMA ContractInit == Init => Execution!Init
BY DEF Init, Execution!Init, Contract, Failures

LEMMA ContractStep == IInv /\ [Next]_vars => [Execution!Next]_(Execution!vars)
<1> SUFFICES ASSUME IInv, [Next]_vars
             PROVE Execution!Next \/ UNCHANGED Execution!vars
  OBVIOUS
<1> DEFINE Quiet == UNCHANGED <<cancel, rows, outcome>>
<1>0. Quiet => UNCHANGED Execution!vars
  BY DEF Execution!vars
<1>1. ASSUME NEW j \in Jobs, NEW o \in Reports, outcome[j] = "none",
             outcome' = [outcome EXCEPT ![j] = o], UNCHANGED <<cancel, rows>>,
             o = "succeeded" => rows[j] # {},
             o \in Failures \cup {"stopped"} => rows[j] = {},
             o = "stopped" => cancel[j]
      PROVE Execution!Report(j)
  <2>1. Contract(o) \in Execution!Truthful(j)
    BY <1>1 DEF Execution!Truthful, Contract, Reports, Failures
  <2>2. [k \in Jobs |-> Contract(outcome'[k])] =
          [[k \in Jobs |-> Contract(outcome[k])] EXCEPT ![j] = Contract(o)]
    BY <1>1 DEF IInv, TypeOK
  <2>3. Contract("none") = "none"
    BY DEF Contract, Failures
  <2> QED
    BY <1>1, <2>1, <2>2, <2>3 DEF Execution!Report
<1>2. ASSUME NEW j \in Jobs, pc[j] = "storing", rows' = [rows EXCEPT ![j] = Outputs],
             UNCHANGED <<cancel, outcome>>
      PROVE Execution!CommitOutputs(j)
  <2>1. rows[j] = {} /\ outcome[j] = "none"
    BY <1>2 DEF IInv, Progress
  <2>2. [k \in Jobs |-> rows'[k] # {}] =
          [[k \in Jobs |-> rows[k] # {}] EXCEPT ![j] = TRUE]
    BY <1>2, OutputsAssumption DEF IInv, TypeOK
  <2>3. Contract("none") = "none"
    BY DEF Contract, Failures
  <2> QED
    BY <1>2, <2>1, <2>2, <2>3 DEF Execution!CommitOutputs
<1>3. ASSUME NEW j \in Jobs, RequestCancel(j) PROVE Execution!Ask(j)
  BY <1>3 DEF RequestCancel, Execution!Ask, data
<1>4. ASSUME NEW j \in Jobs, LoadContext(j) PROVE Execution!Report(j) \/ Quiet
  <2>1. CASE Proceed(j, "loading", "preflight")
    BY <2>1 DEF Proceed, data
  <2>2. CASE /\ pc[j] = "loading"
             /\ outcome' = [outcome EXCEPT ![j] = "PREFLIGHT"]
             /\ UNCHANGED <<cancel, data>>
    <3>1. outcome[j] = "none" /\ rows[j] = {}
      BY <2>2 DEF IInv, Progress
    <3> QED
      BY <1>1, <2>2, <3>1 DEF Reports, Failures, data
  <2> QED
    BY <1>4, <2>1, <2>2 DEF LoadContext
<1>5. ASSUME NEW j \in Jobs, CloseClient(j) PROVE Execution!Report(j)
  <2>1. outcome[j] = "none" /\ Reported(j, report) /\ report \in Reports
    BY <1>5 DEF CloseClient, IInv, Progress, TypeOK
  <2> QED
    BY <1>1, <1>5, <2>1 DEF CloseClient, Reported, data
<1>6. ASSUME NEW j \in Jobs, Breaks(j) PROVE Execution!Report(j)
  <2>1. outcome[j] = "none"
    BY <1>6 DEF Breaks, Connected, IInv, Progress
  <2> QED
    BY <1>1, <1>6, <2>1 DEF Breaks, Reports, Failures, data
<1>7. ASSUME NEW j \in Jobs, CreateArtifacts(j) PROVE Execution!CommitOutputs(j)
  BY <1>2, <1>7 DEF CreateArtifacts
<1>8. CASE Crash
  <2>1. CASE UNCHANGED rows
    BY <1>8, <2>1, <1>0 DEF Crash
  <2>2. ASSUME NEW j \in Jobs, pc[j] = "storing", rows' = [rows EXCEPT ![j] = Outputs]
        PROVE Execution!CommitOutputs(j)
    BY <1>8, <1>2, <2>2 DEF Crash
  <2> QED
    BY <1>8, <1>0, <2>1, <2>2 DEF Crash, Execution!Next
<1>9. ASSUME NEW j \in Jobs, ExecutorStep(j), ~LoadContext(j), ~CloseClient(j),
             ~CreateArtifacts(j)
      PROVE Quiet
  <2>1. CASE Preflight(j) \/ UploadInputs(j) \/ Submit(j) \/ WaitForCompletion(j)
    BY <2>1 DEF Preflight, UploadInputs, Submit, WaitForCompletion, Proceed,
                ReturnAs, data
  <2>2. CASE AfterWait(j) \/ Interrupt(j) \/ Dequeue(j)
    BY <2>2 DEF AfterWait, Interrupt, Dequeue, data
  <2>3. CASE ConfirmStop(j) \/ CollectOutputs(j) \/ StoreOutput(j)
    BY <2>3 DEF ConfirmStop, CollectOutputs, StoreOutput, Proceed, ReturnAs, data
  <2> QED
    BY <1>9, <2>1, <2>2, <2>3 DEF ExecutorStep
<1>10. ASSUME NEW j \in Jobs, Failure(j), ~Breaks(j) PROVE Quiet
  BY <1>10 DEF Failure, ConnectionLost, SubmitLost, MonitorLost, InterruptLost,
               DequeueLost, StoreFails, ReturnAs, data
<1>11. ASSUME NEW j \in Jobs, Begin(j) \/ StartPrompt(j) \/ EndPrompt(j) PROVE Quiet
  BY <1>11 DEF Begin, StartPrompt, EndPrompt, data
<1>12. CASE ServerRestart \/ Shutdown \/ UNCHANGED vars
  BY <1>12, <1>0 DEF ServerRestart, Shutdown, vars, data
<1> QED
  BY <1>0, <1>3, <1>4, <1>5, <1>6, <1>7, <1>8, <1>9, <1>10, <1>11, <1>12
     DEF Next, ExecutorStep, Failure, Execution!Next

\* The executor keeps the contract JobQueue is written against: one report for
\* each Job, success only of committed outputs, a stop only when one was asked
\* for, and no outputs behind a stop or a named failure.
THEOREM ExecutorKeepsContract == Spec => ImplementsExecution
<1>1. Spec => Execution!Init /\ [][Execution!Next]_(Execution!vars)
  BY Invariance, ContractInit, ContractStep, PTL DEF Spec
<1> QED
  BY <1>1 DEF ImplementsExecution, Execution!Spec

-----------------------------------------------------------------------------
(* The voice executor.  The files of a Job follow the lines it has spoken  *)
(* until one transaction gives all of them their rows; the processes that  *)
(* run are those of BackendsAccounted.                                     *)

VoiceSerial == \A j, k \in VoiceJobs : Voicing(j) /\ Voicing(k) => j = k

\* What may be reported of j.
VoiceTruth(j, o) ==
  /\ wavs[j] = voiceRows[j]
  /\ o = "succeeded" => voiceRows[j] # {}
  /\ o \in VoiceFailures \cup {"stopped"} => voiceRows[j] = {}
  /\ o = "stopped" => vcancel[j]

VoiceProgress(j) ==
  /\ voutcome[j] # "none" => vpc[j] = "ended"
  /\ voutcome[j] \notin {"none", "EXECUTOR_ERROR"} => VoiceTruth(j, voutcome[j])
  /\ voiceRows[j] \in {{}, 1 .. Lines} /\ voiceRows[j] \subseteq wavs[j]
  /\ vpc[j] \notin {"finishing", "ended"} => voiceRows[j] = {}
  /\ vpc[j] \in {"idle", "loading", "health"} => spoken[j] = 0
  /\ vpc[j] \in {"idle", "loading", "health", "between", "speaking", "persisting"} =>
       wavs[j] = 1 .. spoken[j]
  /\ vpc[j] = "verifying" => wavs[j] = 1 .. (spoken[j] + 1)
  /\ vpc[j] \in {"speaking", "verifying"} => spoken[j] < Lines
  /\ vpc[j] = "persisting" => spoken[j] = Lines
  /\ vpc[j] = "finishing" => VoiceTruth(j, vreport) /\ vreport # "EXECUTOR_ERROR"

VoiceInv ==
  VoiceTypeOK /\ VoiceSerial /\ BackendsAccounted /\ \A j \in VoiceJobs : VoiceProgress(j)

LEMMA VoiceInitInv == VoiceInit => VoiceInv
BY LinesAssumption, VoiceLossesAssumption
   DEF VoiceInit, VoiceInv, VoiceTypeOK, VoiceSerial, Voicing, BackendsAccounted, VoiceProgress,
       VoicePcs, VoiceReports, VoiceFailures, Processes

LEMMA VoiceTypeNext == VoiceInv /\ [VoiceNext]_voiceVars => VoiceTypeOK'
<1> SUFFICES ASSUME VoiceTypeOK, \A j \in VoiceJobs : VoiceProgress(j), [VoiceNext]_voiceVars
             PROVE  VoiceTypeOK'
  BY DEF VoiceInv
<1> USE LinesAssumption, VoiceLossesAssumption
    DEF VoiceTypeOK, VoicePcs, VoiceReports, VoiceFailures, SnapshotFailures, BindingFailures,
        RunnerFailures, LineFailures, VoiceGoto, VoiceReturns
<1>1. ASSUME NEW j \in VoiceJobs, VoiceBegin(j) \/ LoadVoices(j) \/ CheckRunner(j) PROVE VoiceTypeOK'
  BY <1>1 DEF VoiceBegin, LoadVoices, CheckRunner
<1>2. ASSUME NEW j \in VoiceJobs, StopBetweenLines(j) PROVE VoiceTypeOK'
  BY <1>2 DEF StopBetweenLines, Discard, DiscardProduced
<1>3. ASSUME NEW j \in VoiceJobs, Speak(j) PROVE VoiceTypeOK'
  BY <1>3 DEF Speak, Line, Processes
<1>4. ASSUME NEW j \in VoiceJobs, Spoken(j) PROVE VoiceTypeOK'
  BY <1>4 DEF Spoken, Line, Call, Processes
<1>5. ASSUME NEW j \in VoiceJobs, Verified(j) PROVE VoiceTypeOK'
  BY <1>5 DEF Verified, Line, Call, Processes
<1>6. ASSUME NEW j \in VoiceJobs, AllSpoken(j) \/ CloseBackend(j) PROVE VoiceTypeOK'
  BY <1>6 DEF AllSpoken, CloseBackend
<1>7. ASSUME NEW j \in VoiceJobs, PersistLines(j) PROVE VoiceTypeOK'
  BY <1>7 DEF PersistLines, CloseSession
<1>8. ASSUME NEW j \in VoiceJobs, SpeechFails(j) PROVE VoiceTypeOK'
  BY <1>8 DEF SpeechFails, VoiceLoss, ReapProcess, Discard, DiscardProduced, Refusals
<1>9. ASSUME NEW j \in VoiceJobs, SpeechGivenUp(j) PROVE VoiceTypeOK'
  BY <1>9 DEF SpeechGivenUp, VoiceLoss, Discard, DiscardProduced
<1>10. ASSUME NEW j \in VoiceJobs, AsrFails(j) PROVE VoiceTypeOK'
  <2>1. spoken[j] < Lines
    BY <1>10 DEF AsrFails, VoiceProgress
  <2> QED
    BY <1>10, <2>1 DEF AsrFails, VoiceLoss, Line
<1>11. ASSUME NEW j \in VoiceJobs, PersistFails(j) PROVE VoiceTypeOK'
  BY <1>11 DEF PersistFails, VoiceLoss, Discard, DiscardProduced
<1>12. ASSUME NEW j \in VoiceJobs, VoiceBreaks(j) PROVE VoiceTypeOK'
  BY <1>12 DEF VoiceBreaks, VoiceLoss
<1>16. ASSUME NEW j \in VoiceJobs, AskVoice(j) PROVE VoiceTypeOK'
  BY <1>16 DEF AskVoice
<1>13. CASE OrphanEnds
  BY <1>13 DEF OrphanEnds
<1>14. CASE VoiceShutdown
  <2>1. vpc' \in [VoiceJobs -> VoicePcs]
    BY <1>14 DEF VoiceShutdown, Voicing
  <2>2. voiceRows' \in [VoiceJobs -> SUBSET (1 .. Lines)]
    <3>1. CASE UNCHANGED voiceRows
      BY <3>1
    <3>2. CASE \E j \in VoiceJobs : voiceRows' = [voiceRows EXCEPT ![j] = 1 .. spoken[j]]
      BY <3>2
    <3> QED
      BY <1>14, <3>1, <3>2 DEF VoiceShutdown
  <2> QED
    BY <1>14, <2>1, <2>2 DEF VoiceShutdown
<1>15. CASE UNCHANGED voiceVars
  BY <1>15 DEF voiceVars
<1> QED
  BY <1>1, <1>2, <1>3, <1>4, <1>5, <1>6, <1>7, <1>8, <1>9, <1>10, <1>11, <1>12, <1>13, <1>14, <1>15, <1>16
     DEF VoiceNext

LEMMA VoiceSerialNext == VoiceTypeOK /\ VoiceSerial /\ [VoiceNext]_voiceVars => VoiceSerial'
<1> SUFFICES ASSUME VoiceTypeOK, VoiceSerial, [VoiceNext]_voiceVars PROVE VoiceSerial'
  OBVIOUS
<1> USE DEF VoiceTypeOK, VoiceSerial, Voicing, VoiceGoto, VoiceReturns
<1>1. ASSUME NEW j \in VoiceJobs, VoiceBegin(j) PROVE VoiceSerial'
  BY <1>1 DEF VoiceBegin
<1>2. ASSUME NEW j \in VoiceJobs, vpc[j] \notin {"idle", "ended"},
             \E p \in VoicePcs : vpc' = [vpc EXCEPT ![j] = p]
      PROVE  VoiceSerial'
  BY <1>2
<1>3. ASSUME NEW j \in VoiceJobs,
             LoadVoices(j) \/ CheckRunner(j) \/ StopBetweenLines(j) \/ Speak(j) \/ Spoken(j)
             \/ Verified(j) \/ AllSpoken(j) \/ PersistLines(j) \/ CloseBackend(j)
      PROVE  VoiceSerial'
  BY <1>2, <1>3 DEF LoadVoices, CheckRunner, StopBetweenLines, Discard, Speak, Spoken, Verified,
                    AllSpoken, PersistLines, CloseSession, CloseBackend, VoicePcs
<1>4. ASSUME NEW j \in VoiceJobs,
             SpeechFails(j) \/ SpeechGivenUp(j) \/ AsrFails(j) \/ PersistFails(j) \/ VoiceBreaks(j)
      PROVE  VoiceSerial'
  BY <1>2, <1>4 DEF SpeechFails, SpeechGivenUp, Discard, AsrFails, PersistFails, VoiceBreaks, VoicePcs
<1>5. ASSUME NEW j \in VoiceJobs, AskVoice(j) PROVE VoiceSerial'
  BY <1>5 DEF AskVoice
<1>6. CASE OrphanEnds \/ VoiceShutdown \/ UNCHANGED voiceVars
  BY <1>6 DEF OrphanEnds, VoiceShutdown, voiceVars
<1> QED
  BY <1>1, <1>3, <1>4, <1>5, <1>6 DEF VoiceNext

LEMMA VoiceProgressNext ==
  VoiceInv /\ [VoiceNext]_voiceVars => \A j \in VoiceJobs : VoiceProgress(j)'
<1> SUFFICES ASSUME VoiceInv, [VoiceNext]_voiceVars, NEW k \in VoiceJobs PROVE VoiceProgress(k)'
  OBVIOUS
<1> USE LinesAssumption
    DEF VoiceProgress, VoiceTruth, VoiceGoto, VoiceReturns, VoicePcs, VoiceReports, VoiceFailures,
        SnapshotFailures, BindingFailures, RunnerFailures, LineFailures
<1>0. VoiceTypeOK /\ VoiceProgress(k)
  BY DEF VoiceInv
<1>1. ASSUME NEW j \in VoiceJobs, VoiceBegin(j) PROVE VoiceProgress(k)'
  <2>1. VoiceProgress(j)
    BY DEF VoiceInv
  <2>2. k # j => ~Voicing(k)
    BY <1>1 DEF VoiceInv, VoiceSerial, Voicing, VoiceBegin
  <2>3. CASE k = j
    BY <1>0, <1>1, <2>1, <2>3 DEF VoiceTypeOK, VoiceBegin
  <2>4. CASE k # j
    BY <1>0, <1>1, <2>2, <2>4 DEF VoiceTypeOK, Voicing, VoiceBegin
  <2> QED
    BY <2>3, <2>4
<1>2. ASSUME NEW j \in VoiceJobs, LoadVoices(j) PROVE VoiceProgress(k)'
  <2>1. VoiceProgress(j)
    BY DEF VoiceInv
  <2>2. k # j => ~Voicing(k)
    BY <1>2 DEF VoiceInv, VoiceSerial, Voicing, LoadVoices
  <2>3. CASE k = j
    BY <1>0, <1>2, <2>1, <2>3 DEF VoiceTypeOK, LoadVoices
  <2>4. CASE k # j
    BY <1>0, <1>2, <2>2, <2>4 DEF VoiceTypeOK, Voicing, LoadVoices
  <2> QED
    BY <2>3, <2>4
<1>3. ASSUME NEW j \in VoiceJobs, CheckRunner(j) PROVE VoiceProgress(k)'
  <2>1. VoiceProgress(j)
    BY DEF VoiceInv
  <2>2. k # j => ~Voicing(k)
    BY <1>3 DEF VoiceInv, VoiceSerial, Voicing, CheckRunner
  <2>3. CASE k = j
    BY <1>0, <1>3, <2>1, <2>3 DEF VoiceTypeOK, CheckRunner
  <2>4. CASE k # j
    BY <1>0, <1>3, <2>2, <2>4 DEF VoiceTypeOK, Voicing, CheckRunner
  <2> QED
    BY <2>3, <2>4
<1>4. ASSUME NEW j \in VoiceJobs, StopBetweenLines(j) PROVE VoiceProgress(k)'
  <2>1. VoiceProgress(j)
    BY DEF VoiceInv
  <2>2. k # j => ~Voicing(k)
    BY <1>4 DEF VoiceInv, VoiceSerial, Voicing, StopBetweenLines
  <2>3. CASE k = j
    BY <1>0, <1>4, <2>1, <2>3 DEF VoiceTypeOK, StopBetweenLines, Discard, DiscardProduced
  <2>4. CASE k # j
    BY <1>0, <1>4, <2>2, <2>4 DEF VoiceTypeOK, Voicing, StopBetweenLines, Discard, DiscardProduced
  <2> QED
    BY <2>3, <2>4
<1>5. ASSUME NEW j \in VoiceJobs, Speak(j) PROVE VoiceProgress(k)'
  <2>1. VoiceProgress(j)
    BY DEF VoiceInv
  <2>2. k # j => ~Voicing(k)
    BY <1>5 DEF VoiceInv, VoiceSerial, Voicing, Speak
  <2>3. CASE k = j
    BY <1>0, <1>5, <2>1, <2>3 DEF VoiceTypeOK, Speak
  <2>4. CASE k # j
    BY <1>0, <1>5, <2>2, <2>4 DEF VoiceTypeOK, Voicing, Speak
  <2> QED
    BY <2>3, <2>4
<1>6. ASSUME NEW j \in VoiceJobs, Spoken(j) PROVE VoiceProgress(k)'
  <2>1. VoiceProgress(j)
    BY DEF VoiceInv
  <2>2. k # j => ~Voicing(k)
    BY <1>6 DEF VoiceInv, VoiceSerial, Voicing, Spoken
  <2>3. CASE k = j
    BY <1>0, <1>6, <2>1, <2>3 DEF VoiceTypeOK, Spoken, Line
  <2>4. CASE k # j
    BY <1>0, <1>6, <2>2, <2>4 DEF VoiceTypeOK, Voicing, Spoken, Line
  <2> QED
    BY <2>3, <2>4
<1>7. ASSUME NEW j \in VoiceJobs, Verified(j) PROVE VoiceProgress(k)'
  <2>1. VoiceProgress(j)
    BY DEF VoiceInv
  <2>2. k # j => ~Voicing(k)
    BY <1>7 DEF VoiceInv, VoiceSerial, Voicing, Verified
  <2>3. CASE k = j
    BY <1>0, <1>7, <2>1, <2>3 DEF VoiceTypeOK, Verified, Line
  <2>4. CASE k # j
    BY <1>0, <1>7, <2>2, <2>4 DEF VoiceTypeOK, Voicing, Verified, Line
  <2> QED
    BY <2>3, <2>4
<1>8. ASSUME NEW j \in VoiceJobs, AllSpoken(j) PROVE VoiceProgress(k)'
  <2>1. VoiceProgress(j)
    BY DEF VoiceInv
  <2>2. k # j => ~Voicing(k)
    BY <1>8 DEF VoiceInv, VoiceSerial, Voicing, AllSpoken
  <2>3. CASE k = j
    BY <1>0, <1>8, <2>1, <2>3 DEF VoiceTypeOK, AllSpoken
  <2>4. CASE k # j
    BY <1>0, <1>8, <2>2, <2>4 DEF VoiceTypeOK, Voicing, AllSpoken
  <2> QED
    BY <2>3, <2>4
<1>9. ASSUME NEW j \in VoiceJobs, PersistLines(j) PROVE VoiceProgress(k)'
  <2>1. VoiceProgress(j)
    BY DEF VoiceInv
  <2>2. k # j => ~Voicing(k)
    BY <1>9 DEF VoiceInv, VoiceSerial, Voicing, PersistLines
  <2>3. CASE k = j
    BY <1>0, <1>9, <2>1, <2>3 DEF VoiceTypeOK, PersistLines, CloseSession
  <2>4. CASE k # j
    BY <1>0, <1>9, <2>2, <2>4 DEF VoiceTypeOK, Voicing, PersistLines, CloseSession
  <2> QED
    BY <2>3, <2>4
<1>10. ASSUME NEW j \in VoiceJobs, CloseBackend(j) PROVE VoiceProgress(k)'
  <2>1. VoiceProgress(j)
    BY DEF VoiceInv
  <2>2. k # j => ~Voicing(k)
    BY <1>10 DEF VoiceInv, VoiceSerial, Voicing, CloseBackend
  <2>3. CASE k = j
    BY <1>0, <1>10, <2>1, <2>3 DEF VoiceTypeOK, CloseBackend
  <2>4. CASE k # j
    BY <1>0, <1>10, <2>2, <2>4 DEF VoiceTypeOK, Voicing, CloseBackend
  <2> QED
    BY <2>3, <2>4
<1>11. ASSUME NEW j \in VoiceJobs, SpeechFails(j) PROVE VoiceProgress(k)'
  <2>1. VoiceProgress(j)
    BY DEF VoiceInv
  <2>2. k # j => ~Voicing(k)
    BY <1>11 DEF VoiceInv, VoiceSerial, Voicing, SpeechFails
  <2>3. CASE k = j
    BY <1>0, <1>11, <2>1, <2>3 DEF VoiceTypeOK, SpeechFails, VoiceLoss, Discard, DiscardProduced, Refusals
  <2>4. CASE k # j
    BY <1>0, <1>11, <2>2, <2>4 DEF VoiceTypeOK, Voicing, SpeechFails, VoiceLoss, Discard, DiscardProduced, Refusals
  <2> QED
    BY <2>3, <2>4
<1>12. ASSUME NEW j \in VoiceJobs, SpeechGivenUp(j) PROVE VoiceProgress(k)'
  <2>1. VoiceProgress(j)
    BY DEF VoiceInv
  <2>2. k # j => ~Voicing(k)
    BY <1>12 DEF VoiceInv, VoiceSerial, Voicing, SpeechGivenUp
  <2>3. CASE k = j
    BY <1>0, <1>12, <2>1, <2>3 DEF VoiceTypeOK, SpeechGivenUp, VoiceLoss, Discard, DiscardProduced
  <2>4. CASE k # j
    BY <1>0, <1>12, <2>2, <2>4 DEF VoiceTypeOK, Voicing, SpeechGivenUp, VoiceLoss, Discard, DiscardProduced
  <2> QED
    BY <2>3, <2>4
<1>13. ASSUME NEW j \in VoiceJobs, AsrFails(j) PROVE VoiceProgress(k)'
  <2>1. VoiceProgress(j)
    BY DEF VoiceInv
  <2>2. k # j => ~Voicing(k)
    BY <1>13 DEF VoiceInv, VoiceSerial, Voicing, AsrFails
  <2>3. CASE k = j
    BY <1>0, <1>13, <2>1, <2>3 DEF VoiceTypeOK, AsrFails, VoiceLoss
  <2>4. CASE k # j
    BY <1>0, <1>13, <2>2, <2>4 DEF VoiceTypeOK, Voicing, AsrFails, VoiceLoss
  <2> QED
    BY <2>3, <2>4
<1>14. ASSUME NEW j \in VoiceJobs, PersistFails(j) PROVE VoiceProgress(k)'
  <2>1. VoiceProgress(j)
    BY DEF VoiceInv
  <2>2. k # j => ~Voicing(k)
    BY <1>14 DEF VoiceInv, VoiceSerial, Voicing, PersistFails
  <2>3. CASE k = j
    BY <1>0, <1>14, <2>1, <2>3 DEF VoiceTypeOK, PersistFails, VoiceLoss, Discard, DiscardProduced
  <2>4. CASE k # j
    BY <1>0, <1>14, <2>2, <2>4 DEF VoiceTypeOK, Voicing, PersistFails, VoiceLoss, Discard, DiscardProduced
  <2> QED
    BY <2>3, <2>4
<1>15. ASSUME NEW j \in VoiceJobs, VoiceBreaks(j) PROVE VoiceProgress(k)'
  <2>1. VoiceProgress(j)
    BY DEF VoiceInv
  <2>2. k # j => ~Voicing(k)
    BY <1>15 DEF VoiceInv, VoiceSerial, Voicing, VoiceBreaks
  <2>3. CASE k = j
    BY <1>0, <1>15, <2>1, <2>3 DEF VoiceTypeOK, VoiceBreaks, VoiceLoss, Voicing
  <2>4. CASE k # j
    BY <1>0, <1>15, <2>2, <2>4 DEF VoiceTypeOK, Voicing, VoiceBreaks, VoiceLoss
  <2> QED
    BY <2>3, <2>4
<1>16. ASSUME NEW j \in VoiceJobs, AskVoice(j) PROVE VoiceProgress(k)'
  <2>1. VoiceProgress(j)
    BY DEF VoiceInv
  <2>2. k # j => ~Voicing(k)
    BY <1>16 DEF VoiceInv, VoiceSerial, Voicing, AskVoice
  <2>3. CASE k = j
    BY <1>0, <1>16, <2>1, <2>3 DEF VoiceTypeOK, AskVoice, Voicing
  <2>4. CASE k # j
    BY <1>0, <1>16, <2>2, <2>4 DEF VoiceTypeOK, Voicing, AskVoice
  <2> QED
    BY <2>3, <2>4
<1>17. CASE OrphanEnds \/ UNCHANGED voiceVars
  BY <1>0, <1>17 DEF OrphanEnds, voiceVars
<1>18. CASE VoiceShutdown
  BY <1>0, <1>18 DEF VoiceShutdown, Voicing, VoiceTypeOK
<1> QED
  BY <1>1, <1>2, <1>3, <1>4, <1>5, <1>6, <1>7, <1>8, <1>9, <1>10, <1>11, <1>12, <1>13, <1>14, <1>15, <1>16, <1>17, <1>18 DEF VoiceNext

\* Which processes run, for the requests of one Job or after the program went down.
AccountedFor(p) ==
  \/ Calling(p[1]) /\ p = Call(p[1])
  \/ p[3] = "asr" /\ <<p[1], p[2]>> \in unverified
  \/ vpc[p[1]] = "finishing" /\ vreport \in MayLeaveBackend
  \/ voutcome[p[1]] \in MayLeaveBackend
  \/ vprocess = "down"

LEMMA BackendsNext == VoiceInv /\ [VoiceNext]_voiceVars => BackendsAccounted'
<1> SUFFICES ASSUME VoiceInv, [VoiceNext]_voiceVars, NEW p \in procs' PROVE AccountedFor(p)'
  BY DEF BackendsAccounted, AccountedFor
<1>0. /\ VoiceTypeOK /\ VoiceTypeOK'
      /\ \A q \in procs : q[1] \in VoiceJobs /\ AccountedFor(q) /\ VoiceProgress(q[1])
  BY VoiceTypeNext DEF VoiceInv, BackendsAccounted, AccountedFor, VoiceTypeOK, Processes
<1>0a. p[1] \in VoiceJobs
  BY <1>0 DEF VoiceTypeOK, Processes
<1> USE DEF AccountedFor, Calling, Call, Line, VoiceGoto, VoiceReturns, MayLeaveBackend, VoiceProgress
<1>1. ASSUME NEW j \in VoiceJobs, VoiceBegin(j) PROVE AccountedFor(p)'
  <2>1. p[1] # j => ~Voicing(p[1])
    BY <1>0a, <1>1 DEF VoiceInv, VoiceSerial, Voicing, VoiceBegin
  <2> QED
    BY <1>0, <1>0a, <1>1, <2>1 DEF VoiceTypeOK, Voicing, VoiceBegin
<1>2. ASSUME NEW j \in VoiceJobs, LoadVoices(j) PROVE AccountedFor(p)'
  <2>1. p[1] # j => ~Voicing(p[1])
    BY <1>0a, <1>2 DEF VoiceInv, VoiceSerial, Voicing, LoadVoices
  <2> QED
    BY <1>0, <1>0a, <1>2, <2>1 DEF VoiceTypeOK, Voicing, LoadVoices
<1>3. ASSUME NEW j \in VoiceJobs, CheckRunner(j) PROVE AccountedFor(p)'
  <2>1. p[1] # j => ~Voicing(p[1])
    BY <1>0a, <1>3 DEF VoiceInv, VoiceSerial, Voicing, CheckRunner
  <2> QED
    BY <1>0, <1>0a, <1>3, <2>1 DEF VoiceTypeOK, Voicing, CheckRunner
<1>4. ASSUME NEW j \in VoiceJobs, StopBetweenLines(j) PROVE AccountedFor(p)'
  <2>1. p[1] # j => ~Voicing(p[1])
    BY <1>0a, <1>4 DEF VoiceInv, VoiceSerial, Voicing, StopBetweenLines
  <2> QED
    BY <1>0, <1>0a, <1>4, <2>1 DEF VoiceTypeOK, Voicing, StopBetweenLines, Discard
<1>5. ASSUME NEW j \in VoiceJobs, Speak(j) PROVE AccountedFor(p)'
  <2>1. p[1] # j => ~Voicing(p[1])
    BY <1>0a, <1>5 DEF VoiceInv, VoiceSerial, Voicing, Speak
  <2> QED
    BY <1>0, <1>0a, <1>5, <2>1 DEF VoiceTypeOK, Voicing, Speak
<1>6. ASSUME NEW j \in VoiceJobs, Spoken(j) PROVE AccountedFor(p)'
  <2>1. p[1] # j => ~Voicing(p[1])
    BY <1>0a, <1>6 DEF VoiceInv, VoiceSerial, Voicing, Spoken
  <2> QED
    BY <1>0, <1>0a, <1>6, <2>1 DEF VoiceTypeOK, Voicing, Spoken
<1>7. ASSUME NEW j \in VoiceJobs, Verified(j) PROVE AccountedFor(p)'
  <2>1. p[1] # j => ~Voicing(p[1])
    BY <1>0a, <1>7 DEF VoiceInv, VoiceSerial, Voicing, Verified
  <2> QED
    BY <1>0, <1>0a, <1>7, <2>1 DEF VoiceTypeOK, Voicing, Verified
<1>8. ASSUME NEW j \in VoiceJobs, AllSpoken(j) PROVE AccountedFor(p)'
  <2>1. p[1] # j => ~Voicing(p[1])
    BY <1>0a, <1>8 DEF VoiceInv, VoiceSerial, Voicing, AllSpoken
  <2> QED
    BY <1>0, <1>0a, <1>8, <2>1 DEF VoiceTypeOK, Voicing, AllSpoken
<1>9. ASSUME NEW j \in VoiceJobs, PersistLines(j) PROVE AccountedFor(p)'
  <2>1. p[1] # j => ~Voicing(p[1])
    BY <1>0a, <1>9 DEF VoiceInv, VoiceSerial, Voicing, PersistLines
  <2> QED
    BY <1>0, <1>0a, <1>9, <2>1 DEF VoiceTypeOK, Voicing, PersistLines, CloseSession
<1>10. ASSUME NEW j \in VoiceJobs, CloseBackend(j) PROVE AccountedFor(p)'
  <2>1. p[1] # j => ~Voicing(p[1])
    BY <1>0a, <1>10 DEF VoiceInv, VoiceSerial, Voicing, CloseBackend
  <2> QED
    BY <1>0, <1>0a, <1>10, <2>1 DEF VoiceTypeOK, Voicing, CloseBackend
<1>11. ASSUME NEW j \in VoiceJobs, SpeechFails(j) PROVE AccountedFor(p)'
  <2>1. p[1] # j => ~Voicing(p[1])
    BY <1>0a, <1>11 DEF VoiceInv, VoiceSerial, Voicing, SpeechFails
  <2> QED
    BY <1>0, <1>0a, <1>11, <2>1 DEF VoiceTypeOK, Voicing, SpeechFails, ReapProcess, Discard
<1>12. ASSUME NEW j \in VoiceJobs, SpeechGivenUp(j) PROVE AccountedFor(p)'
  <2>1. p[1] # j => ~Voicing(p[1])
    BY <1>0a, <1>12 DEF VoiceInv, VoiceSerial, Voicing, SpeechGivenUp
  <2> QED
    BY <1>0, <1>0a, <1>12, <2>1 DEF VoiceTypeOK, Voicing, SpeechGivenUp, Discard
<1>13. ASSUME NEW j \in VoiceJobs, AsrFails(j) PROVE AccountedFor(p)'
  <2>1. p[1] # j => ~Voicing(p[1])
    BY <1>0a, <1>13 DEF VoiceInv, VoiceSerial, Voicing, AsrFails
  <2> QED
    BY <1>0, <1>0a, <1>13, <2>1 DEF VoiceTypeOK, Voicing, AsrFails
<1>14. ASSUME NEW j \in VoiceJobs, PersistFails(j) PROVE AccountedFor(p)'
  <2>1. p[1] # j => ~Voicing(p[1])
    BY <1>0a, <1>14 DEF VoiceInv, VoiceSerial, Voicing, PersistFails
  <2> QED
    BY <1>0, <1>0a, <1>14, <2>1 DEF VoiceTypeOK, Voicing, PersistFails, Discard
<1>15. ASSUME NEW j \in VoiceJobs, VoiceBreaks(j) PROVE AccountedFor(p)'
  <2>1. p[1] # j => ~Voicing(p[1])
    BY <1>0a, <1>15 DEF VoiceInv, VoiceSerial, Voicing, VoiceBreaks
  <2> QED
    BY <1>0, <1>0a, <1>15, <2>1 DEF VoiceTypeOK, Voicing, VoiceBreaks
<1>16. ASSUME NEW j \in VoiceJobs, AskVoice(j) PROVE AccountedFor(p)'
  <2>1. p[1] # j => ~Voicing(p[1])
    BY <1>0a, <1>16 DEF VoiceInv, VoiceSerial, Voicing, AskVoice
  <2> QED
    BY <1>0, <1>0a, <1>16, <2>1 DEF VoiceTypeOK, Voicing, AskVoice
<1>17. CASE OrphanEnds \/ VoiceShutdown \/ UNCHANGED voiceVars
  BY <1>0, <1>0a, <1>17 DEF OrphanEnds, VoiceShutdown, voiceVars
<1> QED
  BY <1>1, <1>2, <1>3, <1>4, <1>5, <1>6, <1>7, <1>8, <1>9, <1>10, <1>11, <1>12, <1>13, <1>14, <1>15, <1>16, <1>17 DEF VoiceNext

LEMMA VoiceInvNext == VoiceInv /\ [VoiceNext]_voiceVars => VoiceInv'
BY VoiceTypeNext, VoiceSerialNext, VoiceProgressNext, BackendsNext DEF VoiceInv

\* The voice executor's files, rows and runner processes fit together at every step.
THEOREM VoiceInvariance == VoiceSpec => []VoiceInv
BY VoiceInitInv, VoiceInvNext, PTL DEF VoiceSpec

\* A Shot is spoken as a whole or not at all, and a process of the runner that
\* nobody waits for is explained by the Job that gave it up.
THEOREM VoiceIsSafe == VoiceSpec => []VoiceSafe
<1>1. VoiceInv => VoiceSafe
  BY DEF VoiceInv, VoiceProgress, VoiceTruth, VoiceSafe, SpokenAsAWhole
<1> QED
  BY <1>1, VoiceInvariance, PTL

LEMMA VoiceContractInit == VoiceInit => VoiceExecution!Init
BY DEF VoiceInit, VoiceExecution!Init, VoiceContract, VoiceFailures, SnapshotFailures,
       BindingFailures, RunnerFailures, LineFailures

LEMMA VoiceContractStep == VoiceInv /\ [VoiceNext]_voiceVars => [VoiceExecution!Next]_(VoiceExecution!vars)
<1> SUFFICES ASSUME VoiceInv, [VoiceNext]_voiceVars
             PROVE  VoiceExecution!Next \/ UNCHANGED VoiceExecution!vars
  OBVIOUS
<1> DEFINE Quiet == UNCHANGED <<vcancel, voiceRows, voutcome>>
<1>0. Quiet => UNCHANGED VoiceExecution!vars
  BY DEF VoiceExecution!vars
<1>1. ASSUME NEW j \in VoiceJobs, NEW o \in VoiceReports, vpc[j] # "ended",
             voutcome' = [voutcome EXCEPT ![j] = o], UNCHANGED <<vcancel, voiceRows>>,
             o # "EXECUTOR_ERROR" => VoiceTruth(j, o)
      PROVE  VoiceExecution!Report(j)
  <2>1. voutcome[j] = "none"
    BY <1>1 DEF VoiceInv, VoiceProgress
  <2>2. VoiceContract(o) \in VoiceExecution!Truthful(j)
    BY <1>1 DEF VoiceExecution!Truthful, VoiceTruth, VoiceContract, VoiceReports, VoiceFailures,
                SnapshotFailures, BindingFailures, RunnerFailures, LineFailures
  <2>3. [k \in VoiceJobs |-> VoiceContract(voutcome'[k])] =
          [[k \in VoiceJobs |-> VoiceContract(voutcome[k])] EXCEPT ![j] = VoiceContract(o)]
    BY <1>1 DEF VoiceInv, VoiceTypeOK
  <2>4. VoiceContract("none") = "none"
    BY DEF VoiceContract, VoiceFailures, SnapshotFailures, BindingFailures, RunnerFailures, LineFailures
  <2> QED
    BY <1>1, <2>1, <2>2, <2>3, <2>4 DEF VoiceExecution!Report
<1>2. ASSUME NEW j \in VoiceJobs, vpc[j] = "persisting",
             voiceRows' = [voiceRows EXCEPT ![j] = 1 .. spoken[j]], UNCHANGED <<vcancel, voutcome>>
      PROVE  VoiceExecution!CommitOutputs(j)
  <2>1. voiceRows[j] = {} /\ voutcome[j] = "none" /\ spoken[j] = Lines
    BY <1>2 DEF VoiceInv, VoiceProgress
  <2>0. 1 \in 1 .. Lines
    BY LinesAssumption
  <2>2. [k \in VoiceJobs |-> voiceRows'[k] # {}] =
          [[k \in VoiceJobs |-> voiceRows[k] # {}] EXCEPT ![j] = TRUE]
    BY <1>2, <2>0, <2>1 DEF VoiceInv, VoiceTypeOK
  <2>3. VoiceContract("none") = "none"
    BY DEF VoiceContract, VoiceFailures, SnapshotFailures, BindingFailures, RunnerFailures, LineFailures
  <2> QED
    BY <1>2, <2>1, <2>2, <2>3 DEF VoiceExecution!CommitOutputs
<1>3. ASSUME NEW j \in VoiceJobs, AskVoice(j) PROVE VoiceExecution!Ask(j)
  BY <1>3 DEF AskVoice, VoiceExecution!Ask
<1>4. ASSUME NEW j \in VoiceJobs, LoadVoices(j) PROVE VoiceExecution!Report(j) \/ Quiet
  <2>1. CASE UNCHANGED voutcome
    BY <1>4, <2>1 DEF LoadVoices
  <2>2. ASSUME NEW o \in SnapshotFailures \cup BindingFailures, voutcome' = [voutcome EXCEPT ![j] = o]
        PROVE  VoiceExecution!Report(j)
    <3>0. vpc[j] = "loading" /\ voiceRows[j] = {} /\ wavs[j] = {}
      <4>1. vpc[j] = "loading" /\ voiceRows[j] = {} /\ spoken[j] = 0 /\ wavs[j] = 1 .. spoken[j]
        BY <1>4 DEF LoadVoices, VoiceInv, VoiceProgress
      <4> QED
        BY <4>1
    <3>1. VoiceTruth(j, o) /\ o \in VoiceReports /\ vpc[j] # "ended"
      BY <2>2, <3>0 DEF VoiceTruth, VoiceReports, VoiceFailures,
                        SnapshotFailures, BindingFailures
    <3> QED
      BY <1>1, <1>4, <2>2, <3>1 DEF LoadVoices
  <2> QED
    BY <1>4, <2>1, <2>2 DEF LoadVoices
<1>5. ASSUME NEW j \in VoiceJobs, CloseBackend(j) PROVE VoiceExecution!Report(j)
  <2>1. vpc[j] # "ended" /\ VoiceTruth(j, vreport) /\ vreport \in VoiceReports
    BY <1>5 DEF CloseBackend, VoiceInv, VoiceProgress, VoiceTypeOK
  <2> QED
    BY <1>1, <1>5, <2>1 DEF CloseBackend
<1>6. ASSUME NEW j \in VoiceJobs, VoiceBreaks(j) PROVE VoiceExecution!Report(j)
  BY <1>1, <1>6 DEF VoiceBreaks, Voicing, VoiceReports
<1>7. ASSUME NEW j \in VoiceJobs, PersistLines(j) PROVE VoiceExecution!CommitOutputs(j)
  BY <1>2, <1>7 DEF PersistLines
<1>8. CASE VoiceShutdown
  <2>1. CASE UNCHANGED voiceRows
    BY <1>0, <1>8, <2>1 DEF VoiceShutdown
  <2>2. ASSUME NEW j \in VoiceJobs, vpc[j] = "persisting", voiceRows' = [voiceRows EXCEPT ![j] = 1 .. spoken[j]]
        PROVE  VoiceExecution!CommitOutputs(j)
    BY <1>2, <1>8, <2>2 DEF VoiceShutdown
  <2> QED
    BY <1>0, <1>8, <2>1, <2>2 DEF VoiceShutdown, VoiceExecution!Next
<1>9. ASSUME NEW j \in VoiceJobs,
             \/ VoiceBegin(j) \/ CheckRunner(j) \/ StopBetweenLines(j) \/ Speak(j) \/ Spoken(j)
             \/ Verified(j) \/ AllSpoken(j) \/ SpeechFails(j) \/ SpeechGivenUp(j) \/ AsrFails(j)
             \/ PersistFails(j)
      PROVE  Quiet
  BY <1>9 DEF VoiceBegin, CheckRunner, StopBetweenLines, Speak, Spoken, Verified, AllSpoken, SpeechFails,
              SpeechGivenUp, AsrFails, PersistFails
<1>10. CASE OrphanEnds \/ UNCHANGED voiceVars
  BY <1>0, <1>10 DEF OrphanEnds, voiceVars
<1> QED
  BY <1>0, <1>3, <1>4, <1>5, <1>6, <1>7, <1>8, <1>9, <1>10 DEF VoiceNext, VoiceExecution!Next

\* The voice executor reports each Job once, truthfully about its committed lines.
THEOREM VoiceKeeps == VoiceSpec => VoiceKeepsContract
<1>1. VoiceSpec => VoiceExecution!Init /\ [][VoiceExecution!Next]_(VoiceExecution!vars)
  BY VoiceInvariance, VoiceContractInit, VoiceContractStep, PTL DEF VoiceSpec
<1> QED
  BY <1>1 DEF VoiceKeepsContract, VoiceExecution!Spec

-----------------------------------------------------------------------------
(* The compose executor.  What the step of a Job says about its commands,  *)
(* its output and its row.                                                 *)

ComposeSerial == \A j, k \in ComposeJobs : Composing(j) /\ Composing(k) => j = k

ComposeProgress(j) ==
  /\ coutcome[j] # "none" => cpc[j] = "ended"
  /\ j \in probes => cpc[j] = "probing"
  /\ encoder[j] # "absent" => cpc[j] \in {"rendering", "terminating"}
  /\ cpc[j] \in {"idle", "loading", "probing"} => video[j] = "absent"
  /\ j \in videoRows => cpc[j] \in {"closing", "ended"}
  /\ cpc[j] = "rendering" /\ encoder[j] = "ok" => video[j] = "whole"
  /\ cpc[j] = "terminating" /\ reason = "stopped" => ccancel[j]
  /\ cpc[j] \in {"recording", "closing"} => video[j] = "whole"
  /\ cpc[j] = "closing" => j \in videoRows
  /\ j \in videoRows /\ coutcome[j] # "ARTIFACT_WRITE_FAILED" => video[j] = "whole"
  /\ coutcome[j] \in ComposeReports \ {"ARTIFACT_WRITE_FAILED"} =>
       (video[j] # "absent" <=> j \in videoRows)

ComposeInv == ComposeTypeOK /\ ComposeSerial /\ \A j \in ComposeJobs : ComposeProgress(j)

LEMMA ComposeInitInv == ComposeInit => ComposeInv
BY ComposeLossesAssumption
   DEF ComposeInit, ComposeInv, ComposeTypeOK, ComposeSerial, Composing, ComposeProgress,
       ComposePcs, Reasons, ComposeReports, ComposeFailures, InputFailures, CommandFailures,
       ProbeFailures, LengthFailures, RenderFailures

LEMMA ComposeTypeNext == ComposeTypeOK /\ [ComposeNext]_composeVars => ComposeTypeOK'
<1> SUFFICES ASSUME ComposeTypeOK, [ComposeNext]_composeVars PROVE ComposeTypeOK'
  OBVIOUS
<1> USE ComposeLossesAssumption
    DEF ComposeTypeOK, ComposePcs, Reasons, ComposeReports, ComposeFailures, InputFailures,
        CommandFailures, ProbeFailures, LengthFailures, RenderFailures, ComposeGoto, ComposeReturns
<1>1. ASSUME NEW j \in ComposeJobs, ComposeBegin(j) PROVE ComposeTypeOK'
  BY <1>1 DEF ComposeBegin
<1>2. ASSUME NEW j \in ComposeJobs, LoadTracks(j) PROVE ComposeTypeOK'
  BY <1>2 DEF LoadTracks
<1>3. ASSUME NEW j \in ComposeJobs, Measure(j) PROVE ComposeTypeOK'
  BY <1>3 DEF Measure
<1>4. ASSUME NEW j \in ComposeJobs, Encoded(j) PROVE ComposeTypeOK'
  BY <1>4 DEF Encoded, RemoveOutput
<1>5. ASSUME NEW j \in ComposeJobs, WaitOver(j) PROVE ComposeTypeOK'
  BY <1>5 DEF WaitOver, WhyOver
<1>6. ASSUME NEW j \in ComposeJobs, Terminate(j) PROVE ComposeTypeOK'
  BY <1>6 DEF Terminate, Terminated, RemoveOutput
<1>7. ASSUME NEW j \in ComposeJobs, PersistVideo(j) PROVE ComposeTypeOK'
  BY <1>7 DEF PersistVideo
<1>8. ASSUME NEW j \in ComposeJobs, LeaveSession(j) PROVE ComposeTypeOK'
  BY <1>8 DEF LeaveSession
<1>9. ASSUME NEW j \in ComposeJobs, RecordFails(j) PROVE ComposeTypeOK'
  BY <1>9 DEF RecordFails, ComposeLoss, RemoveOutput
<1>10. ASSUME NEW j \in ComposeJobs, CloseFails(j) PROVE ComposeTypeOK'
  BY <1>10 DEF CloseFails, ComposeLoss, RemoveOutput
<1>11. ASSUME NEW j \in ComposeJobs, ComposeBreaks(j) PROVE ComposeTypeOK'
  BY <1>11 DEF ComposeBreaks, ComposeLoss
<1>12. ASSUME NEW j \in ComposeJobs, EncoderEnds(j) PROVE ComposeTypeOK'
  BY <1>12 DEF EncoderEnds
<1>13. ASSUME NEW j \in ComposeJobs, AskCompose(j) PROVE ComposeTypeOK'
  BY <1>13 DEF AskCompose
<1>14. CASE ComposeShutdown
  BY <1>14 DEF ComposeShutdown, Composing
<1>15. CASE UNCHANGED composeVars
  BY <1>15 DEF composeVars
<1> QED
  BY <1>1, <1>2, <1>3, <1>4, <1>5, <1>6, <1>7, <1>8, <1>9, <1>10, <1>11, <1>12, <1>13, <1>14, <1>15 DEF ComposeNext

LEMMA ComposeSerialNext == ComposeTypeOK /\ ComposeSerial /\ [ComposeNext]_composeVars => ComposeSerial'
<1> SUFFICES ASSUME ComposeTypeOK, ComposeSerial, [ComposeNext]_composeVars PROVE ComposeSerial'
  OBVIOUS
<1> USE DEF ComposeTypeOK, ComposeSerial, Composing, ComposeGoto, ComposeReturns
<1>1. ASSUME NEW j \in ComposeJobs, ComposeBegin(j) PROVE ComposeSerial'
  BY <1>1 DEF ComposeBegin
<1>2. ASSUME NEW j \in ComposeJobs, cpc[j] \notin {"idle", "ended"},
             \E p \in ComposePcs : cpc' = [cpc EXCEPT ![j] = p]
      PROVE  ComposeSerial'
  BY <1>2
<1>3. ASSUME NEW j \in ComposeJobs,
             LoadTracks(j) \/ Measure(j) \/ Encoded(j) \/ WaitOver(j) \/ Terminate(j)
             \/ PersistVideo(j) \/ LeaveSession(j)
      PROVE  ComposeSerial'
  BY <1>2, <1>3 DEF LoadTracks, Measure, Encoded, WaitOver, Terminate, PersistVideo, LeaveSession, ComposePcs
<1>4. ASSUME NEW j \in ComposeJobs, RecordFails(j) \/ CloseFails(j) \/ ComposeBreaks(j)
      PROVE  ComposeSerial'
  BY <1>2, <1>4 DEF RecordFails, CloseFails, ComposeBreaks, ComposePcs
<1>5. ASSUME NEW j \in ComposeJobs, EncoderEnds(j) \/ AskCompose(j) PROVE ComposeSerial'
  BY <1>5 DEF EncoderEnds, AskCompose
<1>6. CASE ComposeShutdown \/ UNCHANGED composeVars
  BY <1>2, <1>6 DEF ComposeShutdown, composeVars, ComposePcs
<1> QED
  BY <1>1, <1>3, <1>4, <1>5, <1>6 DEF ComposeNext

LEMMA ComposeProgressNext ==
  ComposeInv /\ [ComposeNext]_composeVars => \A j \in ComposeJobs : ComposeProgress(j)'
<1> SUFFICES ASSUME ComposeInv, [ComposeNext]_composeVars, NEW k \in ComposeJobs PROVE ComposeProgress(k)'
  OBVIOUS
<1> USE DEF ComposeProgress, ComposeGoto, ComposeReturns, ComposePcs, ComposeReports, ComposeFailures,
        InputFailures, CommandFailures, ProbeFailures, LengthFailures, RenderFailures
<1>0. ComposeTypeOK /\ ComposeProgress(k)
  BY DEF ComposeInv
<1>1. ASSUME NEW j \in ComposeJobs, ComposeBegin(j) PROVE ComposeProgress(k)'
  <2>1. k # j => ~Composing(k)
    BY <1>1 DEF ComposeInv, ComposeSerial, Composing, ComposeBegin
  <2>2. CASE k = j
    BY <1>0, <1>1, <2>2 DEF ComposeTypeOK, ComposeBegin
  <2>3. CASE k # j
    BY <1>0, <1>1, <2>1, <2>3 DEF ComposeTypeOK, Composing, ComposeBegin
  <2> QED
    BY <2>2, <2>3
<1>2. ASSUME NEW j \in ComposeJobs, LoadTracks(j) PROVE ComposeProgress(k)'
  <2>1. k # j => ~Composing(k)
    BY <1>2 DEF ComposeInv, ComposeSerial, Composing, LoadTracks
  <2>2. CASE k = j
    BY <1>0, <1>2, <2>2 DEF ComposeTypeOK, LoadTracks
  <2>3. CASE k # j
    BY <1>0, <1>2, <2>1, <2>3 DEF ComposeTypeOK, Composing, LoadTracks
  <2> QED
    BY <2>2, <2>3
<1>3. ASSUME NEW j \in ComposeJobs, Measure(j) PROVE ComposeProgress(k)'
  <2>1. k # j => ~Composing(k)
    BY <1>3 DEF ComposeInv, ComposeSerial, Composing, Measure
  <2>2. CASE k = j
    BY <1>0, <1>3, <2>2 DEF ComposeTypeOK, Measure
  <2>3. CASE k # j
    BY <1>0, <1>3, <2>1, <2>3 DEF ComposeTypeOK, Composing, Measure
  <2> QED
    BY <2>2, <2>3
<1>4. ASSUME NEW j \in ComposeJobs, Encoded(j) PROVE ComposeProgress(k)'
  <2>1. k # j => ~Composing(k)
    BY <1>4 DEF ComposeInv, ComposeSerial, Composing, Encoded
  <2>2. CASE k = j
    BY <1>0, <1>4, <2>2 DEF ComposeTypeOK, Encoded, RemoveOutput
  <2>3. CASE k # j
    BY <1>0, <1>4, <2>1, <2>3 DEF ComposeTypeOK, Composing, Encoded, RemoveOutput
  <2> QED
    BY <2>2, <2>3
<1>5. ASSUME NEW j \in ComposeJobs, WaitOver(j) PROVE ComposeProgress(k)'
  <2>1. k # j => ~Composing(k)
    BY <1>5 DEF ComposeInv, ComposeSerial, Composing, WaitOver
  <2>2. CASE k = j
    BY <1>0, <1>5, <2>2 DEF ComposeTypeOK, WaitOver, WhyOver, Reasons
  <2>3. CASE k # j
    BY <1>0, <1>5, <2>1, <2>3 DEF ComposeTypeOK, Composing, WaitOver, WhyOver
  <2> QED
    BY <2>2, <2>3
<1>6. ASSUME NEW j \in ComposeJobs, Terminate(j) PROVE ComposeProgress(k)'
  <2>1. k # j => ~Composing(k)
    BY <1>6 DEF ComposeInv, ComposeSerial, Composing, Terminate
  <2>2. CASE k = j
    BY <1>0, <1>6, <2>2 DEF ComposeTypeOK, Terminate, Terminated, RemoveOutput, Reasons
  <2>3. CASE k # j
    BY <1>0, <1>6, <2>1, <2>3 DEF ComposeTypeOK, Composing, Terminate, Terminated, RemoveOutput
  <2> QED
    BY <2>2, <2>3
<1>7. ASSUME NEW j \in ComposeJobs, PersistVideo(j) PROVE ComposeProgress(k)'
  <2>1. k # j => ~Composing(k)
    BY <1>7 DEF ComposeInv, ComposeSerial, Composing, PersistVideo
  <2>2. CASE k = j
    BY <1>0, <1>7, <2>2 DEF ComposeTypeOK, PersistVideo
  <2>3. CASE k # j
    BY <1>0, <1>7, <2>1, <2>3 DEF ComposeTypeOK, Composing, PersistVideo
  <2> QED
    BY <2>2, <2>3
<1>8. ASSUME NEW j \in ComposeJobs, LeaveSession(j) PROVE ComposeProgress(k)'
  <2>1. k # j => ~Composing(k)
    BY <1>8 DEF ComposeInv, ComposeSerial, Composing, LeaveSession
  <2>2. CASE k = j
    BY <1>0, <1>8, <2>2 DEF ComposeTypeOK, LeaveSession
  <2>3. CASE k # j
    BY <1>0, <1>8, <2>1, <2>3 DEF ComposeTypeOK, Composing, LeaveSession
  <2> QED
    BY <2>2, <2>3
<1>9. ASSUME NEW j \in ComposeJobs, RecordFails(j) PROVE ComposeProgress(k)'
  <2>1. k # j => ~Composing(k)
    BY <1>9 DEF ComposeInv, ComposeSerial, Composing, RecordFails
  <2>2. CASE k = j
    BY <1>0, <1>9, <2>2 DEF ComposeTypeOK, RecordFails, ComposeLoss, RemoveOutput
  <2>3. CASE k # j
    BY <1>0, <1>9, <2>1, <2>3 DEF ComposeTypeOK, Composing, RecordFails, ComposeLoss, RemoveOutput
  <2> QED
    BY <2>2, <2>3
<1>10. ASSUME NEW j \in ComposeJobs, CloseFails(j) PROVE ComposeProgress(k)'
  <2>1. k # j => ~Composing(k)
    BY <1>10 DEF ComposeInv, ComposeSerial, Composing, CloseFails
  <2>2. CASE k = j
    BY <1>0, <1>10, <2>2 DEF ComposeTypeOK, CloseFails, ComposeLoss, RemoveOutput
  <2>3. CASE k # j
    BY <1>0, <1>10, <2>1, <2>3 DEF ComposeTypeOK, Composing, CloseFails, ComposeLoss, RemoveOutput
  <2> QED
    BY <2>2, <2>3
<1>11. ASSUME NEW j \in ComposeJobs, ComposeBreaks(j) PROVE ComposeProgress(k)'
  <2>1. k # j => ~Composing(k)
    BY <1>11 DEF ComposeInv, ComposeSerial, Composing, ComposeBreaks
  <2>2. CASE k = j
    BY <1>0, <1>11, <2>2 DEF ComposeTypeOK, ComposeBreaks, ComposeLoss
  <2>3. CASE k # j
    BY <1>0, <1>11, <2>1, <2>3 DEF ComposeTypeOK, Composing, ComposeBreaks, ComposeLoss
  <2> QED
    BY <2>2, <2>3
<1>12. ASSUME NEW j \in ComposeJobs, EncoderEnds(j) PROVE ComposeProgress(k)'
  <2>1. k # j => ~Composing(k)
    BY <1>12 DEF ComposeInv, ComposeSerial, Composing, EncoderEnds
  <2>2. CASE k = j
    BY <1>0, <1>12, <2>2 DEF ComposeTypeOK, EncoderEnds
  <2>3. CASE k # j
    BY <1>0, <1>12, <2>1, <2>3 DEF ComposeTypeOK, Composing, EncoderEnds
  <2> QED
    BY <2>2, <2>3
<1>13. ASSUME NEW j \in ComposeJobs, AskCompose(j) PROVE ComposeProgress(k)'
  <2>1. k # j => ~Composing(k)
    BY <1>13 DEF ComposeInv, ComposeSerial, Composing, AskCompose
  <2>2. CASE k = j
    BY <1>0, <1>13, <2>2 DEF ComposeTypeOK, AskCompose
  <2>3. CASE k # j
    BY <1>0, <1>13, <2>1, <2>3 DEF ComposeTypeOK, Composing, AskCompose
  <2> QED
    BY <2>2, <2>3
<1>14. CASE ComposeShutdown
  BY <1>0, <1>14 DEF ComposeShutdown, Composing, ComposeTypeOK
<1>15. CASE UNCHANGED composeVars
  BY <1>0, <1>15 DEF composeVars
<1> QED
  BY <1>1, <1>2, <1>3, <1>4, <1>5, <1>6, <1>7, <1>8, <1>9, <1>10, <1>11, <1>12, <1>13, <1>14, <1>15 DEF ComposeNext

LEMMA ComposeInvNext == ComposeInv /\ [ComposeNext]_composeVars => ComposeInv'
BY ComposeTypeNext, ComposeSerialNext, ComposeProgressNext DEF ComposeInv

\* The compose executor's commands, output and row fit together at every step.
THEOREM ComposeInvariance == ComposeSpec => []ComposeInv
BY ComposeInitInv, ComposeInvNext, PTL DEF ComposeSpec

\* No command outlives its Job, and a video is there exactly with its row, but
\* for the two ways a write can fail.
THEOREM ComposeIsSafe == ComposeSpec => []ComposeSafe
<1>1. ComposeInv => ComposeSafe
  BY DEF ComposeInv, ComposeProgress, ComposeSafe, CommandsReaped, VideoMatchesRow, Composing
<1> QED
  BY <1>1, ComposeInvariance, PTL

LEMMA ComposeContractInit == ComposeInit => ComposeExecution!Init
<1> SUFFICES ASSUME ComposeInit PROVE ComposeExecution!Init
  OBVIOUS
<1>1. \A j \in ComposeJobs : (j \in videoRows) = FALSE
  <2>1. \A j \in ComposeJobs : ~(j \in videoRows)
    BY DEF ComposeInit
  <2> QED
    BY <2>1, SMT
<1>2. [j \in ComposeJobs |-> j \in videoRows] = [j \in ComposeJobs |-> FALSE]
  BY <1>1, Zenon
<1>3. [j \in ComposeJobs |-> ComposeContract(j)] = [j \in ComposeJobs |-> "none"]
  BY DEF ComposeInit, ComposeContract, ComposeFailures, InputFailures, CommandFailures,
         ProbeFailures, LengthFailures, RenderFailures
<1> QED
  BY <1>2, <1>3 DEF ComposeInit, ComposeExecution!Init

LEMMA ComposeContractStep ==
  ComposeInv /\ [ComposeNext]_composeVars => [ComposeExecution!Next]_(ComposeExecution!vars)
<1> SUFFICES ASSUME ComposeInv, [ComposeNext]_composeVars
             PROVE  ComposeExecution!Next \/ UNCHANGED ComposeExecution!vars
  OBVIOUS
<1> USE DEF ComposeFailures, InputFailures, CommandFailures, ProbeFailures, LengthFailures, RenderFailures
<1> DEFINE Quiet == UNCHANGED <<ccancel, videoRows, coutcome>>
<1>0. Quiet => UNCHANGED ComposeExecution!vars
  BY DEF ComposeExecution!vars, ComposeContract
<1>1. ASSUME NEW j \in ComposeJobs, NEW o \in ComposeReports, cpc[j] # "ended",
             coutcome' = [coutcome EXCEPT ![j] = o], UNCHANGED <<ccancel, videoRows>>,
             o = "succeeded" => j \in videoRows,
             o = "stopped" => ccancel[j] /\ j \notin videoRows
      PROVE  ComposeExecution!Report(j)
  <2>1. coutcome[j] = "none" /\ ComposeContract(j) = "none"
    BY <1>1 DEF ComposeInv, ComposeProgress, ComposeContract
  <2>2. ComposeContract(j)' \in ComposeExecution!Truthful(j)
    BY <1>1 DEF ComposeExecution!Truthful, ComposeContract, ComposeReports, ComposeInv, ComposeTypeOK
  <2>3. \A k \in ComposeJobs : k # j => ComposeContract(k)' = ComposeContract(k)
    BY <1>1 DEF ComposeContract, ComposeInv, ComposeTypeOK
  <2>4. [k \in ComposeJobs |-> ComposeContract(k)'] =
          [[k \in ComposeJobs |-> ComposeContract(k)] EXCEPT ![j] = ComposeContract(j)']
    BY <2>3
  <2> QED
    BY <1>1, <2>1, <2>2, <2>4 DEF ComposeExecution!Report
<1>2. ASSUME NEW j \in ComposeJobs, cpc[j] = "recording", videoRows' = videoRows \cup {j},
             UNCHANGED <<ccancel, coutcome>>
      PROVE  ComposeExecution!CommitOutputs(j)
  <2>1. j \notin videoRows /\ coutcome[j] = "none"
    BY <1>2 DEF ComposeInv, ComposeProgress
  <2>2. [k \in ComposeJobs |-> k \in videoRows'] =
          [[k \in ComposeJobs |-> k \in videoRows] EXCEPT ![j] = TRUE]
    <3>1. (j \in videoRows') = TRUE
      <4>1. j \in videoRows'
        BY <1>2
      <4> QED
        BY <4>1, SMT
    <3>2. ASSUME NEW k \in ComposeJobs, k # j PROVE (k \in videoRows') = (k \in videoRows)
      <4>1. (k \in videoRows') <=> (k \in videoRows)
        BY <1>2, <3>2
      <4> QED
        BY <4>1, SMT
    <3> DEFINE before == [k \in ComposeJobs |-> k \in videoRows]
    <3>3. \A k \in ComposeJobs : (k \in videoRows') = [before EXCEPT ![j] = TRUE][k]
      BY <3>1, <3>2, Zenon
    <3>4. DOMAIN [before EXCEPT ![j] = TRUE] = ComposeJobs
      BY Zenon
    <3> HIDE DEF before
    <3> QED
      BY <3>3, <3>4 DEF before
  <2>3. [k \in ComposeJobs |-> ComposeContract(k)'] = [k \in ComposeJobs |-> ComposeContract(k)]
    BY <1>2, <2>1 DEF ComposeContract
  <2> QED
    BY <1>2, <2>1, <2>2, <2>3 DEF ComposeExecution!CommitOutputs, ComposeContract
<1>3. ASSUME NEW j \in ComposeJobs, AskCompose(j) PROVE ComposeExecution!Ask(j)
  BY <1>3 DEF AskCompose, ComposeExecution!Ask, ComposeContract
<1>4. ASSUME NEW j \in ComposeJobs, LoadTracks(j) PROVE ComposeExecution!Report(j) \/ Quiet
  BY <1>1, <1>4 DEF LoadTracks, ComposeReturns, ComposeReports
<1>5. ASSUME NEW j \in ComposeJobs, Measure(j) PROVE ComposeExecution!Report(j) \/ Quiet
  <2>1. j \notin videoRows /\ cpc[j] # "ended"
    BY <1>5 DEF Measure, ComposeInv, ComposeProgress
  <2> QED
    BY <1>1, <1>5, <2>1 DEF Measure, ComposeReturns, ComposeReports
<1>6. ASSUME NEW j \in ComposeJobs, Encoded(j) PROVE ComposeExecution!Report(j) \/ Quiet
  BY <1>1, <1>6 DEF Encoded, ComposeReturns, ComposeReports
<1>7. ASSUME NEW j \in ComposeJobs, Terminate(j) PROVE ComposeExecution!Report(j) \/ Quiet
  <2>1. j \notin videoRows /\ cpc[j] # "ended" /\ (reason = "stopped" => ccancel[j]) /\ reason \in Reasons
    BY <1>7 DEF Terminate, ComposeInv, ComposeProgress, ComposeTypeOK
  <2> QED
    BY <1>1, <1>7, <2>1 DEF Terminate, ComposeReturns, ComposeReports, Reasons
<1>8. ASSUME NEW j \in ComposeJobs, LeaveSession(j) PROVE ComposeExecution!Report(j)
  <2>1. j \in videoRows /\ cpc[j] # "ended"
    BY <1>8 DEF LeaveSession, ComposeInv, ComposeProgress
  <2> QED
    BY <1>1, <1>8, <2>1 DEF LeaveSession, ComposeReturns, ComposeReports
<1>9. ASSUME NEW j \in ComposeJobs, RecordFails(j) \/ CloseFails(j) \/ ComposeBreaks(j)
      PROVE  ComposeExecution!Report(j)
  BY <1>1, <1>9 DEF RecordFails, CloseFails, ComposeBreaks, ComposeReturns, ComposeReports
<1>10. ASSUME NEW j \in ComposeJobs, PersistVideo(j) PROVE ComposeExecution!CommitOutputs(j)
  BY <1>2, <1>10 DEF PersistVideo
<1>11. CASE ComposeShutdown
  <2>1. CASE UNCHANGED videoRows
    BY <1>0, <1>11, <2>1 DEF ComposeShutdown
  <2>2. CASE videoRows' = videoRows \cup {j \in ComposeJobs : cpc[j] = "recording"} /\ ~UNCHANGED videoRows
    <3>1. PICK j \in ComposeJobs : cpc[j] = "recording"
      BY <2>2
    <3>2. {k \in ComposeJobs : cpc[k] = "recording"} = {j}
      BY <3>1 DEF ComposeInv, ComposeSerial, Composing
    <3> QED
      BY <1>2, <1>11, <2>2, <3>1, <3>2 DEF ComposeShutdown, ComposeExecution!Next
  <2> QED
    BY <1>11, <2>1, <2>2 DEF ComposeShutdown
<1>12. ASSUME NEW j \in ComposeJobs, ComposeBegin(j) \/ WaitOver(j) \/ EncoderEnds(j) PROVE Quiet
  BY <1>12 DEF ComposeBegin, WaitOver, EncoderEnds
<1>13. CASE UNCHANGED composeVars
  BY <1>0, <1>13 DEF composeVars
<1> QED
  BY <1>0, <1>3, <1>4, <1>5, <1>6, <1>7, <1>8, <1>9, <1>10, <1>11, <1>12, <1>13
     DEF ComposeNext, ComposeExecution!Next

\* The compose executor reports each Job once, truthfully about its committed row,
\* but for a session that cannot be closed, which counts as an executor error.
THEOREM ComposeKeeps == ComposeSpec => ComposeKeepsContract
<1>1. ComposeSpec => ComposeExecution!Init /\ [][ComposeExecution!Next]_(ComposeExecution!vars)
  BY ComposeInvariance, ComposeContractInit, ComposeContractStep, PTL DEF ComposeSpec
<1> QED
  BY <1>1 DEF ComposeKeepsContract, ComposeExecution!Spec

-----------------------------------------------------------------------------
(* Both executors, side by side.                                           *)

\* Whatever fails, is stopped or answers late, files, rows, commands and runner
\* processes of the executors on this host are accounted for.
THEOREM LocalExecutorsAreSafe == VoiceSpec /\ ComposeSpec => []LocalExecutorsSafe
BY VoiceIsSafe, ComposeIsSafe, PTL DEF LocalExecutorsSafe

\* Both keep what the queue relies on.
THEOREM LocalExecutorsKeep == VoiceSpec /\ ComposeSpec => LocalExecutorsKeepContract
BY VoiceKeeps, ComposeKeeps DEF LocalExecutorsKeepContract
=============================================================================
