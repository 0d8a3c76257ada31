---------------------------- MODULE JobLifecycle ----------------------------
(***************************************************************************)
(* What the API promises of a Job row: its state moves only along the      *)
(* edges below, a step moves one row, except that a restart fails every    *)
(* interrupted row at once, and a terminal state is never left.            *)
(***************************************************************************)
CONSTANT Jobs

VARIABLES
  state,       \* [Jobs -> state of the row]
  requested    \* [Jobs -> BOOLEAN]: a cancellation was accepted

vars == <<state, requested>>

Init ==
  /\ state = [j \in Jobs |-> "absent"]
  /\ requested = [j \in Jobs |-> FALSE]

Move(j, from, to) ==
  /\ state[j] \in from
  /\ state' = [state EXCEPT ![j] = to]
  /\ UNCHANGED requested

Accept(j, from, to) ==
  /\ state[j] = from
  /\ state' = [state EXCEPT ![j] = to]
  /\ requested' = [requested EXCEPT ![j] = TRUE]

Create(j) == Move(j, {"absent"}, "queued")
Start(j) == Move(j, {"queued"}, "running")
Succeed(j) == Move(j, {"running", "cancelling"}, "succeeded")
Fail(j) == Move(j, {"running", "cancelling"}, "failed")

CancelQueued(j) == Accept(j, "queued", "cancelled")
RequestCancel(j) == Accept(j, "running", "cancelling")

\* A stop is confirmed after a request: the row has passed through cancelling.
ConfirmStop(j) == Move(j, {"cancelling"}, "cancelled")

Interrupt ==
  /\ state' = [j \in Jobs |-> IF state[j] \in {"running", "cancelling"}
                              THEN "failed" ELSE state[j]]
  /\ UNCHANGED requested

Next ==
  \/ Interrupt
  \/ \E j \in Jobs : \/ Create(j) \/ Start(j) \/ Succeed(j) \/ Fail(j)
                     \/ CancelQueued(j) \/ RequestCancel(j) \/ ConfirmStop(j)

Spec == Init /\ [][Next]_vars
=============================================================================
