---------------------------- MODULE MCExecutors ----------------------------
(***************************************************************************)
(* The three executors of Jobs side by side: a behaviour is of one of      *)
(* them, the others stay as they began.                                    *)
(***************************************************************************)
EXTENDS ComfyExecutor, LocalExecutors

CONSTANTS j1, j2, o1, o2

VARIABLE part

ComfyStep == part = "comfy" /\ Next /\ UNCHANGED <<voiceVars, composeVars>>
VoiceStep == part = "voice" /\ VoiceNext /\ UNCHANGED <<vars, composeVars>>
ComposeStep == part = "compose" /\ ComposeNext /\ UNCHANGED <<vars, voiceVars>>

MCInit ==
  /\ part \in {"comfy", "voice", "compose"}
  /\ Init /\ VoiceInit /\ ComposeInit

MCNext == UNCHANGED part /\ (ComfyStep \/ VoiceStep \/ ComposeStep)

\* The fairness of ComfyExecutor, in its part.
MCFairness == \A j \in Jobs : WF_vars(part = "comfy" /\ Serving /\ ExecutorStep(j))

MCSpec ==
  /\ MCInit
  /\ [][MCNext]_<<part, vars, voiceVars, composeVars>>
  /\ MCFairness
=============================================================================
