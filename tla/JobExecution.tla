---------------------------- MODULE JobExecution ----------------------------
(***************************************************************************)
(* What the queue relies on in a JobExecutor (queue.py): for each Job one  *)
(* report, and what the report says about the outputs in the database.     *)
(* JobQueue is written against this contract; ComfyExecutor implements it. *)
(***************************************************************************)
CONSTANT Jobs

VARIABLES
  cancel,      \* [Jobs -> BOOLEAN]: the Job's cancel event is set
  committed,   \* [Jobs -> BOOLEAN]: its output Artifacts are committed
  outcome      \* [Jobs -> "none" or the report]

vars == <<cancel, committed, outcome>>

Init ==
  /\ cancel = [j \in Jobs |-> FALSE]
  /\ committed = [j \in Jobs |-> FALSE]
  /\ outcome = [j \in Jobs |-> "none"]

Ask(j) ==
  /\ cancel' = [cancel EXCEPT ![j] = TRUE]
  /\ UNCHANGED <<committed, outcome>>

CommitOutputs(j) ==
  /\ outcome[j] = "none"
  /\ ~committed[j]
  /\ committed' = [committed EXCEPT ![j] = TRUE]
  /\ UNCHANGED <<cancel, outcome>>

\* Success is reported of committed outputs only; a stop only if one was asked
\* for; neither a stop nor a failure the executor names leaves outputs behind.
Truthful(j) ==
  {"EXECUTOR_ERROR"}
    \cup (IF committed[j] THEN {"succeeded"} ELSE {"BACKEND"})
    \cup (IF cancel[j] /\ ~committed[j] THEN {"stopped"} ELSE {})

Report(j) ==
  /\ outcome[j] = "none"
  /\ \E o \in Truthful(j) : outcome' = [outcome EXCEPT ![j] = o]
  /\ UNCHANGED <<cancel, committed>>

Next == \E j \in Jobs : Ask(j) \/ CommitOutputs(j) \/ Report(j)

Spec == Init /\ [][Next]_vars
=============================================================================
