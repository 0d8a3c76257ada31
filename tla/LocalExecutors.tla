--------------------------- MODULE LocalExecutors ---------------------------
(***************************************************************************)
(* The two executors that run on the host of the API: they share nothing   *)
(* but the contract they owe the queue.                                    *)
(***************************************************************************)
EXTENDS VoiceExecutor, ComposeExecutor

\* Files, rows, commands and the runners' processes of the executors on this host
\* are accounted for, whatever fails, is stopped or answers late.
LocalExecutorsSafe == VoiceSafe /\ ComposeSafe

\* What the queue relies on holds of the two executors that run on this host.
LocalExecutorsKeepContract == VoiceKeepsContract /\ ComposeKeepsContract
=============================================================================
