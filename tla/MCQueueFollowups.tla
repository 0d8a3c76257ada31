-------------------------- MODULE MCQueueFollowups --------------------------
(***************************************************************************)
(* What the worker's loop must bring about, in the queue and in the sweep  *)
(* that follows each of its ticks, side by side: a behaviour is of one of  *)
(* them, the other stays as it began.                                      *)
(***************************************************************************)
EXTENDS JobQueue, Followups

CONSTANT c1

VARIABLE part

MCInit == part \in {"queue", "followups"} /\ Init /\ FollowupInit

MCNext ==
  /\ UNCHANGED part
  /\ \/ part = "queue" /\ Next /\ UNCHANGED followupVars
     \/ part = "followups" /\ FollowupNext /\ UNCHANGED vars

\* The fairness of JobQueue and of Followups, each in its part.
MCFairness ==
  /\ WF_vars(part = "queue" /\ WorkerStep)
  /\ \A c \in Clients : WF_vars(part = "queue" /\ CancelStep(c))
  /\ WF_vars(part = "queue" /\ Restart)
  /\ WF_followupVars(part = "followups" /\ SweepStep)
  /\ WF_followupVars(part = "followups" /\ SourceReady)
  /\ WF_followupVars(part = "followups" /\ RestartApi)

MCSpec == MCInit /\ [][MCNext]_<<part, vars, followupVars>> /\ MCFairness
=============================================================================
