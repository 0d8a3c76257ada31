---------------------------- MODULE QueueProofs -----------------------------
(***************************************************************************)
(* Machine-checked proofs about JobQueue, for every set of Jobs, every     *)
(* number of cancel requests, exceptions and restarts, and about           *)
(* Followups, for any number of reservations, any sweep limit and any      *)
(* number of failures. The invariants of the queue are stacked: each layer *)
(* is inductive relative to the ones below it.                             *)
(***************************************************************************)
EXTENDS JobQueue, Followups, SequenceTheorems, TLAPS

-----------------------------------------------------------------------------
(* Layer 1: types, and which Job the worker and a request stand on.        *)

Shape ==
  /\ worker.pc \in {"picked"} \cup HeldPcs => worker.job \in Jobs
  /\ worker.pc = "returned" => /\ worker.outcome \in Outcomes
                               /\ worker.outcome = "stopped" => worker.cancel
  /\ process = "down" <=> worker.pc = "down"
  /\ registered = IF worker.pc \in {"loading", "executing", "stored"}
                  THEN {worker.job} ELSE {}
  /\ \A c \in Clients :
       /\ client[c].pc # "idle" => client[c].job \in Jobs
       /\ client[c].pc # "idle" => process = "up"
       /\ client[c].pc = "read" => client[c].seen \in {"queued", "running"}

TypeInv == TypeOK /\ Shape

LEMMA TypeInvInit == Init => TypeInv
BY DEF Init, TypeInv, TypeOK, Shape, IdleWorker, IdleClient, WorkerPcs,
       JobStates, HeldPcs

LEMMA TypeInvNext == TypeInv /\ [Next]_vars => TypeInv'
<1> SUFFICES ASSUME TypeInv, [Next]_vars PROVE TypeInv'
  OBVIOUS
<1> USE DEF TypeInv, TypeOK, Shape, JobStates, Active, Terminal, WorkerPcs,
            HeldPcs, Outcomes, FailureCodes, IdleWorker, IdleClient,
            rows, history, bounds
<1>1. ASSUME NEW j \in Jobs, SubmitNumbered(j) PROVE TypeInv'
  BY <1>1 DEF SubmitNumbered, Insert, Stored
<1>2. ASSUME NEW j \in Jobs, SubmitRequested(j) PROVE TypeInv'
  BY <1>2, RequestedAssumption DEF SubmitRequested, Insert, Stored
<1>3. ASSUME NEW j \in Jobs, PickNext(j) PROVE TypeInv'
  BY <1>3 DEF PickNext
<1>4. CASE NothingQueued
  BY <1>4 DEF NothingQueued
<1>5. CASE Claim
  BY <1>5 DEF Claim, Claimable
<1>6. CASE ClaimMissed
  BY <1>6 DEF ClaimMissed
<1>7. CASE Register
  BY <1>7 DEF Register
<1>8. CASE EnterExecutor
  BY <1>8 DEF EnterExecutor
<1>9. CASE CommitOutputs
  BY <1>9 DEF CommitOutputs
<1>10. ASSUME NEW outcome \in Outcomes, Return(outcome) PROVE TypeInv'
  BY <1>10 DEF Return, PossibleOutcomes
<1>11. CASE Finalize
  <2>1. /\ FinalState \in Terminal
        /\ FinalState = "failed" => worker.outcome \in FailureCodes
    BY <1>11 DEF Finalize, FailureWritten, FinalState
  <2>2. /\ state' \in [Jobs -> JobStates]
        /\ failure' \in [Jobs -> FailureCodes \cup {"none"}]
    BY <1>11, <2>1 DEF Finalize, FailureWritten
  <2> QED
    BY <1>11, <2>2 DEF Finalize, FailureWritten
<1>12. CASE AfterTick
  BY <1>12 DEF AfterTick, DelayOverflows
<1>13. CASE WorkerFault
  <2>1. CASE ClaimFails
    BY <2>1 DEF ClaimFails, Fault
  <2>2. CASE ClaimAbandoned
    BY <2>2 DEF ClaimAbandoned, Fault
  <2>3. CASE FinalizeFails
    BY <2>3 DEF FinalizeFails, Fault
  <2> QED
    BY <1>13, <2>1, <2>2, <2>3 DEF WorkerFault
<1>14. ASSUME NEW c \in Clients, NEW j \in Jobs, CancelRead(c, j) PROVE TypeInv'
  BY <1>14 DEF CancelRead
<1>15. ASSUME NEW c \in Clients, CancelStep(c) \/ CancelSignalFails(c)
       PROVE TypeInv'
  <2>1. CASE CancelUpdate(c)
    BY <2>1 DEF CancelUpdate, Unmoved
  <2>2. CASE CancelConflict(c)
    BY <2>2 DEF CancelConflict
  <2>3. CASE CancelSignal(c)
    BY <2>3 DEF CancelSignal
  <2>4. CASE CancelSignalFails(c)
    BY <2>4 DEF CancelSignalFails, Fault
  <2> QED
    BY <1>15, <2>1, <2>2, <2>3, <2>4 DEF CancelStep
<1>16. CASE Stop
  BY <1>16 DEF Stop
<1>17. CASE Restart
  BY <1>17 DEF Restart, Interrupted, RecoveredState
<1>18. CASE UNCHANGED vars
  BY <1>18 DEF vars
<1> QED
  BY <1>1, <1>2, <1>3, <1>4, <1>5, <1>6, <1>7, <1>8, <1>9, <1>10, <1>11,
     <1>12, <1>13, <1>14, <1>15, <1>16, <1>17, <1>18
     DEF Next, Submit, WorkerStep

LEMMA TypeInvariance == Spec => []TypeInv
BY TypeInvInit, TypeInvNext, PTL DEF Spec

\* Type correctness: every variable of the queue keeps its type.
THEOREM TypeCorrect == Spec => []TypeOK
<1>1. TypeInv => TypeOK
  BY DEF TypeInv
<1> QED
  BY <1>1, TypeInvariance, PTL

-----------------------------------------------------------------------------
(* Layer 2: who owns an active row.  _finalize writes unconditionally, so  *)
(* everything rests on the worker holding the only active row it may write.*)

OwnerInv ==
  /\ ActiveRowsHeld
  /\ HeldRowsActive
  /\ \A j \in abandoned : state[j] \in Active /\ j \notin Held
  /\ worker.cancel => worker.pc \in HeldPcs /\ state[worker.job] = "cancelling"
  /\ \A j \in Jobs : state[j] \in {"cancelling", "cancelled"} => requested[j]

LEMMA OwnerInvInit == Init => OwnerInv
BY DEF Init, OwnerInv, ActiveRowsHeld, HeldRowsActive, Held, HeldPcs, Active,
       IdleWorker

LEMMA OwnerInvNext == TypeInv /\ OwnerInv /\ [Next]_vars => OwnerInv'
<1> SUFFICES ASSUME TypeInv, OwnerInv, [Next]_vars PROVE OwnerInv'
  OBVIOUS
<1> USE DEF TypeInv, TypeOK, Shape, OwnerInv, ActiveRowsHeld, HeldRowsActive,
            Held, HeldPcs, Active, IdleWorker, IdleClient, rows, history, bounds
<1>1. ASSUME NEW j \in Jobs, SubmitNumbered(j) PROVE OwnerInv'
  BY <1>1 DEF SubmitNumbered, Insert
<1>2. ASSUME NEW j \in Jobs, SubmitRequested(j) PROVE OwnerInv'
  BY <1>2 DEF SubmitRequested, Insert
<1>3. ASSUME NEW j \in Jobs, PickNext(j) PROVE OwnerInv'
  BY <1>3 DEF PickNext
<1>4. CASE NothingQueued
  BY <1>4 DEF NothingQueued
<1>5. CASE Claim
  BY <1>5 DEF Claim, Claimable
<1>6. CASE ClaimMissed
  BY <1>6 DEF ClaimMissed
<1>7. CASE Register
  BY <1>7 DEF Register
<1>8. CASE EnterExecutor
  BY <1>8 DEF EnterExecutor
<1>9. CASE CommitOutputs
  BY <1>9 DEF CommitOutputs
<1>10. ASSUME NEW outcome \in Outcomes, Return(outcome) PROVE OwnerInv'
  BY <1>10 DEF Return, PossibleOutcomes
<1>11. CASE Finalize
  BY <1>11 DEF Finalize, FailureWritten, FinalState
<1>12. CASE AfterTick
  BY <1>12 DEF AfterTick, DelayOverflows
<1>13. CASE WorkerFault
  BY <1>13 DEF WorkerFault, ClaimFails, ClaimAbandoned, FinalizeFails
<1>14. ASSUME NEW c \in Clients, NEW j \in Jobs, CancelRead(c, j) PROVE OwnerInv'
  BY <1>14 DEF CancelRead
<1>15. ASSUME NEW c \in Clients, CancelUpdate(c) PROVE OwnerInv'
  BY <1>15 DEF CancelUpdate, Unmoved
<1>16. ASSUME NEW c \in Clients, CancelSignal(c) PROVE OwnerInv'
  BY <1>16 DEF CancelSignal
<1>17. ASSUME NEW c \in Clients, CancelConflict(c) \/ CancelSignalFails(c)
       PROVE OwnerInv'
  BY <1>17 DEF CancelConflict, CancelSignalFails
<1>18. CASE Stop
  BY <1>18 DEF Stop
<1>19. CASE Restart
  BY <1>19 DEF Restart, Interrupted, RecoveredState
<1>20. CASE UNCHANGED vars
  BY <1>20 DEF vars
<1> QED
  BY <1>1, <1>2, <1>3, <1>4, <1>5, <1>6, <1>7, <1>8, <1>9, <1>10, <1>11, <1>12,
     <1>13, <1>14, <1>15, <1>16, <1>17, <1>18, <1>19, <1>20
     DEF Next, Submit, WorkerStep, CancelStep

LEMMA OwnerInvariance == Spec => []OwnerInv
BY OwnerInvInit, OwnerInvNext, TypeInvariance, PTL DEF Spec

\* Serial execution: at any time a row is running or cancelling only while
\* the worker holds it, unless an exception made the worker let go of it.
THEOREM SerialExecution == Spec => [](ActiveRowsHeld /\ HeldRowsActive)
<1>1. OwnerInv => ActiveRowsHeld /\ HeldRowsActive
  BY DEF OwnerInv
<1> QED
  BY <1>1, OwnerInvariance, PTL

-----------------------------------------------------------------------------
(* Layer 3: a Job enters the executor at most once.                        *)

RunInv ==
  /\ ExecutedAtMostOnce
  /\ worker.pc \in {"claimed", "loading"} => runs[worker.job] = 0

LEMMA RunInvNext == TypeInv /\ OwnerInv /\ RunInv /\ [Next]_vars => RunInv'
<1> SUFFICES ASSUME TypeInv, OwnerInv, RunInv, [Next]_vars PROVE RunInv'
  OBVIOUS
<1> USE DEF TypeInv, TypeOK, Shape, RunInv, ExecutedAtMostOnce, HeldPcs,
            IdleWorker, rows, history, bounds
<1>1. ASSUME NEW j \in Jobs, SubmitNumbered(j) \/ SubmitRequested(j) PROVE RunInv'
  BY <1>1 DEF SubmitNumbered, SubmitRequested, Insert
<1>2. ASSUME NEW j \in Jobs, PickNext(j) PROVE RunInv'
  BY <1>2 DEF PickNext
<1>3. CASE Claim
  BY <1>3 DEF Claim, Claimable
<1>4. CASE EnterExecutor
  BY <1>4 DEF EnterExecutor, OwnerInv, HeldRowsActive, Held, Active
<1>5. ASSUME NEW outcome \in Outcomes, Return(outcome) PROVE RunInv'
  BY <1>5 DEF Return, PossibleOutcomes
<1>6. CASE Finalize
  BY <1>6 DEF Finalize, FailureWritten, FinalState
<1>7. CASE NothingQueued \/ ClaimMissed \/ Register \/ CommitOutputs \/ AfterTick
  <2>1. CASE NothingQueued \/ ClaimMissed \/ AfterTick
    BY <2>1 DEF NothingQueued, ClaimMissed, AfterTick
  <2>2. CASE Register \/ CommitOutputs
    BY <2>2 DEF Register, CommitOutputs
  <2> QED
    BY <1>7, <2>1, <2>2
<1>8. CASE WorkerFault
  BY <1>8 DEF WorkerFault, ClaimFails, ClaimAbandoned, FinalizeFails
<1>9. ASSUME NEW c \in Clients, CancelUpdate(c) PROVE RunInv'
  BY <1>9 DEF CancelUpdate, Unmoved
<1>10. ASSUME NEW c \in Clients, CancelSignal(c) PROVE RunInv'
  BY <1>10 DEF CancelSignal
<1>11. ASSUME NEW c \in Clients,
              \/ \E j \in Jobs : CancelRead(c, j)
              \/ CancelConflict(c) \/ CancelSignalFails(c)
       PROVE RunInv'
  BY <1>11 DEF CancelRead, CancelConflict, CancelSignalFails
<1>12. CASE Stop
  BY <1>12 DEF Stop
<1>13. CASE Restart
  BY <1>13 DEF Restart, Interrupted, RecoveredState, Active
<1>14. CASE UNCHANGED vars
  BY <1>14 DEF vars
<1> QED
  BY <1>1, <1>2, <1>3, <1>4, <1>5, <1>6, <1>7, <1>8, <1>9, <1>10, <1>11, <1>12,
     <1>13, <1>14 DEF Next, Submit, WorkerStep, CancelStep

\* No Job is executed twice, whatever cancellations, exceptions and restarts.
THEOREM AtMostOneExecution == Spec => []ExecutedAtMostOnce
<1>1. Init => RunInv
  BY DEF Init, RunInv, ExecutedAtMostOnce, IdleWorker
<1>2. RunInv => ExecutedAtMostOnce
  BY DEF RunInv
<1> QED
  BY <1>1, <1>2, RunInvNext, TypeInvariance, OwnerInvariance, PTL DEF Spec

-----------------------------------------------------------------------------
(* Layer 4: the outputs and the state they end in.                         *)

OutputInv ==
  /\ OutputsAccounted
  /\ \A j \in Jobs : outputs[j] => state[j] \notin {"absent", "queued", "cancelled"}
  /\ worker.pc \in {"claimed", "loading", "executing"} => ~outputs[worker.job]
  /\ worker.pc = "stored" => outputs[worker.job]
  /\ worker.pc = "returned" =>
       CASE worker.outcome = "succeeded" -> outputs[worker.job]
         [] worker.outcome = "EXECUTOR_ERROR" -> TRUE
         [] OTHER -> ~outputs[worker.job]

LEMMA OutputInvNext == TypeInv /\ OwnerInv /\ OutputInv /\ [Next]_vars => OutputInv'
<1> SUFFICES ASSUME TypeInv, OwnerInv, OutputInv, [Next]_vars PROVE OutputInv'
  OBVIOUS
<1> USE DEF TypeInv, TypeOK, Shape, OutputInv, OutputsAccounted, HeldPcs,
            IdleWorker, rows, history, bounds
<1>1. ASSUME NEW j \in Jobs, SubmitNumbered(j) \/ SubmitRequested(j) PROVE OutputInv'
  BY <1>1 DEF SubmitNumbered, SubmitRequested, Insert
<1>2. ASSUME NEW j \in Jobs, PickNext(j) PROVE OutputInv'
  BY <1>2 DEF PickNext
<1>3. CASE Claim
  BY <1>3 DEF Claim, Claimable
<1>4. CASE CommitOutputs
  BY <1>4 DEF CommitOutputs, OwnerInv, HeldRowsActive, Held, Active
<1>5. ASSUME NEW outcome \in Outcomes, Return(outcome) PROVE OutputInv'
  BY <1>5 DEF Return, PossibleOutcomes, Outcomes
<1>6. CASE Finalize
  BY <1>6 DEF Finalize, FailureWritten, FinalState, Outcomes
<1>7. CASE NothingQueued \/ ClaimMissed \/ AfterTick
  BY <1>7 DEF NothingQueued, ClaimMissed, AfterTick
<1>8. CASE Register \/ EnterExecutor
  BY <1>8 DEF Register, EnterExecutor
<1>9. CASE WorkerFault
  BY <1>9 DEF WorkerFault, ClaimFails, ClaimAbandoned, FinalizeFails
<1>10. ASSUME NEW c \in Clients, CancelUpdate(c) PROVE OutputInv'
  BY <1>10 DEF CancelUpdate, Unmoved
<1>11. ASSUME NEW c \in Clients, CancelSignal(c) PROVE OutputInv'
  BY <1>11 DEF CancelSignal
<1>12. ASSUME NEW c \in Clients,
              \/ \E j \in Jobs : CancelRead(c, j)
              \/ CancelConflict(c) \/ CancelSignalFails(c)
       PROVE OutputInv'
  BY <1>12 DEF CancelRead, CancelConflict, CancelSignalFails
<1>13. CASE Stop
  BY <1>13 DEF Stop
<1>14. CASE Restart
  BY <1>14 DEF Restart, Interrupted, RecoveredState, Active
<1>15. CASE UNCHANGED vars
  BY <1>15 DEF vars
<1> QED
  BY <1>1, <1>2, <1>3, <1>4, <1>5, <1>6, <1>7, <1>8, <1>9, <1>10, <1>11, <1>12,
     <1>13, <1>14, <1>15 DEF Next, Submit, WorkerStep, CancelStep

LEMMA OutputInvariance == Spec => []OutputInv
<1>1. Init => OutputInv
  BY DEF Init, OutputInv, OutputsAccounted, IdleWorker
<1> QED
  BY <1>1, OutputInvNext, TypeInvariance, OwnerInvariance, PTL DEF Spec

\* A cancelled Job was asked to be cancelled and left no output; a succeeded
\* Job has its outputs; a backend failure leaves none.
THEOREM OutcomeMatchesOutputs == Spec => [](CancelledCleanly /\ OutputsAccounted)
<1>1. OwnerInv /\ OutputInv => CancelledCleanly /\ OutputsAccounted
  BY DEF OwnerInv, OutputInv, CancelledCleanly
<1> QED
  BY <1>1, OwnerInvariance, OutputInvariance, PTL

-----------------------------------------------------------------------------
(* Layer 5: the order in which Jobs start.                                 *)

OrderInv ==
  /\ \A j \in Jobs : \A k \in earlier[j] : k # j /\ state[k] # "absent"
  /\ \A j \in Jobs : state[j] = "absent" => j \notin numbered
  /\ \A j \in numbered : \A k \in earlier[j] : sequence[k] < sequence[j]
  /\ worker.pc = "picked" => /\ state[worker.job] # "absent"
                             /\ \A k \in earlier[worker.job] :
                                  state[k] = "queued" => Precedes(worker.job, k)

LEMMA OrderInvNext == TypeInv /\ OrderInv /\ [Next]_vars => OrderInv'
<1> SUFFICES ASSUME TypeInv, OrderInv, [Next]_vars PROVE OrderInv'
  OBVIOUS
<1> USE DEF TypeInv, TypeOK, Shape, OrderInv, Precedes, HeldPcs,
            IdleWorker, rows, history, bounds
<1>0. ASSUME NEW j \in Jobs, NEW n \in Nat, Insert(j, n),
             \/ UNCHANGED numbered
             \/ /\ numbered' = numbered \cup {j}
                /\ \A k \in Stored : sequence[k] < n
      PROVE OrderInv'
  <2>1. /\ state[j] = "absent" /\ j \notin numbered
        /\ state' = [state EXCEPT ![j] = "queued"]
        /\ sequence' = [sequence EXCEPT ![j] = n]
        /\ earlier' = [earlier EXCEPT ![j] = Stored]
        /\ worker' = worker
    BY <1>0 DEF Insert
  <2>2. \A i \in Jobs \ {j} : /\ earlier'[i] = earlier[i]
                              /\ sequence'[i] = sequence[i]
                              /\ state'[i] = state[i]
                              /\ j \notin earlier[i]
    BY <2>1
  <2>3. /\ earlier'[j] = Stored /\ j \notin Stored
        /\ sequence'[j] = n /\ state'[j] = "queued"
    BY <2>1 DEF Stored
  <2>4. \A i \in Jobs : \A k \in earlier'[i] : k # i /\ state'[k] # "absent"
    BY <2>1, <2>2, <2>3 DEF Stored
  <2>5. \A i \in numbered' : \A k \in earlier'[i] : sequence'[k] < sequence'[i]
    BY <1>0, <2>1, <2>2, <2>3 DEF Stored
  <2>6. \A i \in Jobs : state'[i] = "absent" => i \notin numbered'
    BY <1>0, <2>1, <2>2, <2>3
  <2>7. worker.pc = "picked" =>
          /\ worker.job \in Jobs \ {j}
          /\ \A k \in earlier[worker.job] : k \in Jobs \ {j}
    BY <2>1, <2>2
  <2> QED
    BY <2>1, <2>2, <2>4, <2>5, <2>6, <2>7
<1>1. ASSUME NEW j \in Jobs, SubmitNumbered(j) PROVE OrderInv'
  <2>1. PICK n \in {1} \cup UNION {{sequence[k], sequence[k] + 1} : k \in Stored} :
          IsNextSequence(n) /\ Insert(j, n)
    BY <1>1 DEF SubmitNumbered
  <2>2. n \in Nat /\ \A k \in Stored : sequence[k] < n
    BY <2>1 DEF IsNextSequence, Stored
  <2> QED
    BY <1>0, <1>1, <2>1, <2>2 DEF SubmitNumbered
<1>2. ASSUME NEW j \in Jobs, SubmitRequested(j) PROVE OrderInv'
  BY <1>0, <1>2, RequestedAssumption DEF SubmitRequested
<1>3. ASSUME NEW j \in Jobs, PickNext(j) PROVE OrderInv'
  BY <1>3 DEF PickNext, Queued
<1>4. CASE Claim
  BY <1>4 DEF Claim, Claimable
<1>5. CASE NothingQueued \/ ClaimMissed \/ AfterTick
  BY <1>5 DEF NothingQueued, ClaimMissed, AfterTick
<1>6. CASE Register \/ EnterExecutor \/ CommitOutputs
  BY <1>6 DEF Register, EnterExecutor, CommitOutputs
<1>7. ASSUME NEW outcome \in Outcomes, Return(outcome) PROVE OrderInv'
  BY <1>7 DEF Return
<1>8. CASE Finalize
  BY <1>8 DEF Finalize, FailureWritten, FinalState
<1>9. CASE WorkerFault
  BY <1>9 DEF WorkerFault, ClaimFails, ClaimAbandoned, FinalizeFails
<1>10. ASSUME NEW c \in Clients, CancelUpdate(c) PROVE OrderInv'
  BY <1>10 DEF CancelUpdate, Unmoved
<1>11. ASSUME NEW c \in Clients, CancelSignal(c) PROVE OrderInv'
  BY <1>11 DEF CancelSignal
<1>12. ASSUME NEW c \in Clients,
              \/ \E j \in Jobs : CancelRead(c, j)
              \/ CancelConflict(c) \/ CancelSignalFails(c)
       PROVE OrderInv'
  BY <1>12 DEF CancelRead, CancelConflict, CancelSignalFails
<1>13. CASE Stop
  BY <1>13 DEF Stop
<1>14. CASE Restart
  BY <1>14 DEF Restart, Interrupted, RecoveredState, Active
<1>15. CASE UNCHANGED vars
  BY <1>15 DEF vars
<1> QED
  BY <1>1, <1>2, <1>3, <1>4, <1>5, <1>6, <1>7, <1>8, <1>9, <1>10, <1>11, <1>12,
     <1>13, <1>14, <1>15 DEF Next, Submit, WorkerStep, CancelStep

LEMMA OrderInvariance == Spec => []OrderInv
<1>1. Init => OrderInv
  BY DEF Init, OrderInv, IdleWorker
<1> QED
  BY <1>1, OrderInvNext, TypeInvariance, PTL DEF Spec

\* Only a Job whose caller chose its queue_sequence can start before a waiting
\* Job that was submitted earlier.
THEOREM StartsInOrder == Spec => StartOrder
<1> DEFINE A == \A j, k \in Jobs :
                  /\ state[j] = "queued" /\ state'[j] = "running"
                  /\ state'[k] = "queued" /\ k \in earlier[j]
                  => j \notin numbered /\ Precedes(j, k)
<1>1. TypeInv /\ OrderInv /\ [Next]_vars => [A]_vars
  <2> SUFFICES ASSUME TypeInv, OrderInv, [Next]_vars, NEW j \in Jobs, NEW k \in Jobs,
                      state[j] = "queued", state'[j] = "running",
                      state'[k] = "queued", k \in earlier[j]
               PROVE  j \notin numbered /\ Precedes(j, k)
    OBVIOUS
  <2> USE DEF TypeInv, TypeOK, Shape, HeldPcs, rows, history, bounds
  <2>1. Claim /\ j = worker.job
    <3>1. CASE Submit
      BY <3>1 DEF Submit, SubmitNumbered, SubmitRequested, Insert
    <3>2. CASE WorkerStep
      <4>1. CASE Claim
        BY <4>1 DEF Claim, Claimable
      <4>2. CASE Finalize
        BY <4>2 DEF Finalize, FailureWritten, FinalState
      <4> QED
        BY <3>2, <4>1, <4>2 DEF WorkerStep, PickNext, NothingQueued, ClaimMissed,
           Register, EnterExecutor, CommitOutputs, Return, AfterTick
    <3>3. CASE WorkerFault
      BY <3>3 DEF WorkerFault, ClaimFails, ClaimAbandoned, FinalizeFails
    <3>4. ASSUME NEW c \in Clients,
                 \/ \E i \in Jobs : CancelRead(c, i)
                 \/ CancelStep(c) \/ CancelSignalFails(c)
          PROVE FALSE
      BY <3>4 DEF CancelStep, CancelRead, CancelUpdate, Unmoved, CancelConflict,
                  CancelSignal, CancelSignalFails
    <3>5. CASE Stop
      BY <3>5 DEF Stop
    <3>6. CASE Restart
      BY <3>6 DEF Restart, Interrupted, RecoveredState
    <3>7. CASE UNCHANGED vars
      BY <3>7 DEF vars
    <3> QED
      BY <3>1, <3>2, <3>3, <3>4, <3>5, <3>6, <3>7 DEF Next
  <2>2. k # j /\ state[k] = "queued"
    BY <2>1 DEF Claim, Claimable, OrderInv
  <2>3. Precedes(j, k)
    BY <2>1, <2>2 DEF Claim, Claimable, OrderInv
  <2>4. j \notin numbered
    BY <2>3, JobsAssumption DEF OrderInv, Precedes
  <2> QED
    BY <2>3, <2>4
<1> QED
  BY <1>1, TypeInvariance, OrderInvariance, PTL DEF Spec, StartOrder

-----------------------------------------------------------------------------
(* Every step of the queue is a step of the row's life, or none.           *)

\* The implementation relation: the queue implements JobLifecycle, so a
\* terminal state is never left and the edges are those of the design.
THEOREM QueueImplementsLifecycle == Spec => ImplementsLifecycle
<1>1. Init => Lifecycle!Init
  BY DEF Init, Lifecycle!Init
<1>2. TypeInv /\ OwnerInv /\ [Next]_vars => [Lifecycle!Next]_(Lifecycle!vars)
  <2> SUFFICES ASSUME TypeInv, OwnerInv, [Next]_vars
               PROVE  Lifecycle!Next \/ UNCHANGED Lifecycle!vars
    OBVIOUS
  <2> USE DEF TypeInv, TypeOK, Shape, HeldPcs, rows, history, bounds,
              Lifecycle!vars, Lifecycle!Move, Lifecycle!Accept
  <2>1. ASSUME NEW j \in Jobs, SubmitNumbered(j) \/ SubmitRequested(j)
        PROVE Lifecycle!Next
    <3>1. Lifecycle!Create(j)
      BY <2>1 DEF SubmitNumbered, SubmitRequested, Insert, Lifecycle!Create
    <3> QED
      BY <3>1 DEF Lifecycle!Next
  <2>2. CASE Claim
    <3>1. worker.job \in Jobs /\ Lifecycle!Start(worker.job)
      BY <2>2 DEF Claim, Claimable, Lifecycle!Start
    <3> QED
      BY <3>1 DEF Lifecycle!Next
  <2>3. CASE Finalize
    <3>1. /\ worker.job \in Jobs /\ state[worker.job] \in Active
          /\ worker.cancel => state[worker.job] = "cancelling"
      BY <2>3 DEF Finalize, FailureWritten, OwnerInv, HeldRowsActive, Held
    <3>2. \/ Lifecycle!Succeed(worker.job) \/ Lifecycle!ConfirmStop(worker.job)
          \/ Lifecycle!Fail(worker.job)
      BY <2>3, <3>1 DEF Finalize, FailureWritten, FinalState, Active, Lifecycle!Succeed,
                        Lifecycle!ConfirmStop, Lifecycle!Fail
    <3> QED
      BY <3>1, <3>2 DEF Lifecycle!Next
  <2>4. ASSUME NEW c \in Clients, CancelUpdate(c) PROVE Lifecycle!Next
    <3>1. /\ client[c].job \in Jobs
          /\ \/ Lifecycle!CancelQueued(client[c].job)
             \/ Lifecycle!RequestCancel(client[c].job)
      BY <2>4 DEF CancelUpdate, Unmoved, Lifecycle!CancelQueued, Lifecycle!RequestCancel
    <3> QED
      BY <3>1 DEF Lifecycle!Next
  <2>5. CASE Restart
    BY <2>5 DEF Restart, Interrupted, RecoveredState, Active, Lifecycle!Interrupt, Lifecycle!Next
  <2>6. ASSUME \/ \E j \in Jobs : PickNext(j)
               \/ NothingQueued \/ ClaimMissed \/ Register \/ EnterExecutor
               \/ CommitOutputs \/ AfterTick
               \/ \E outcome \in Outcomes : Return(outcome)
        PROVE UNCHANGED Lifecycle!vars
    BY <2>6 DEF PickNext, NothingQueued, ClaimMissed, Register, EnterExecutor,
                CommitOutputs, AfterTick, Return
  <2>7. ASSUME WorkerFault \/ Stop \/ UNCHANGED vars
        PROVE UNCHANGED Lifecycle!vars
    BY <2>7 DEF WorkerFault, ClaimFails, ClaimAbandoned, FinalizeFails, Stop, vars
  <2>8. ASSUME NEW c \in Clients,
               \/ \E j \in Jobs : CancelRead(c, j)
               \/ CancelConflict(c) \/ CancelSignal(c) \/ CancelSignalFails(c)
        PROVE UNCHANGED Lifecycle!vars
    BY <2>8 DEF CancelRead, CancelConflict, CancelSignal, CancelSignalFails
  <2> QED
    BY <2>1, <2>2, <2>3, <2>4, <2>5, <2>6, <2>7, <2>8
       DEF Next, Submit, WorkerStep, CancelStep
<1> QED
  BY <1>1, <1>2, TypeInvariance, OwnerInvariance, PTL
     DEF Spec, ImplementsLifecycle, Lifecycle!Spec

-----------------------------------------------------------------------------
(* The inductive invariant: a reservation exists with its image Job, and   *)
(* what is being submitted is a pending one of a succeeded image Job.      *)

BornTogether == \A i \in Images : image[i] = "none" <=> standing[i] = "none"

InFlight ==
  /\ at = "submitting" => image[Current] = "succeeded" /\ standing[Current] = "pending"
  /\ at = "recording" => /\ image[Current] = "succeeded"
                         /\ standing[Current] \in {"pending", "submitted"}

FollowupInv == FollowupTypeOK /\ FollowsImage /\ BornTogether /\ InFlight

LEMMA CurrentIsImage == FollowupTypeOK /\ left # <<>> => Current \in Images /\ Tail(left) \in Seq(Images)
<1> SUFFICES ASSUME left \in Seq(Images), left # <<>>
             PROVE Head(left) \in Images /\ Tail(left) \in Seq(Images)
  BY DEF FollowupTypeOK, Current
<1> QED
  BY HeadTailProperties

LEMMA FollowupInvInit == FollowupInit => FollowupInv
<1> SUFFICES ASSUME FollowupInit PROVE FollowupInv
  OBVIOUS
<1>1. left = <<>> /\ <<>> \in Seq(Images)
  BY DEF FollowupInit
<1>2. FollowupTypeOK
  BY <1>1 DEF FollowupInit, FollowupTypeOK, Places
<1>3. FollowsImage /\ BornTogether /\ InFlight
  BY DEF FollowupInit, FollowsImage, BornTogether, InFlight
<1> QED
  BY <1>2, <1>3 DEF FollowupInv

\* What the reservations of one step need of it to keep the invariant.
LEMMA FinishKeeps ==
  ASSUME FollowupInv, left # <<>>, NEW s \in Decided, FinishFollowup(s), Up,
         standing[Current] = "pending" \/ (standing[Current] = "submitted" /\ s = "submitted"),
         s = "skipped" => image[Current] \in {"failed", "cancelled"},
         s \in {"submitted", "failed"} => image[Current] = "succeeded",
         s = "submitted" => standing[Current] = "submitted"
  PROVE  FollowupInv'
<1>1. Current \in Images /\ Tail(left) \in Seq(Images)
  BY CurrentIsImage DEF FollowupInv
<1>2. FollowupTypeOK'
  BY <1>1 DEF FollowupInv, FollowupTypeOK, FinishFollowup, NextOne, Decided, Places
<1>3. FollowsImage'
  BY <1>1 DEF FollowupInv, FollowupTypeOK, FollowsImage, FinishFollowup, NextOne, Decided
<1>4. BornTogether' /\ InFlight'
  BY <1>1 DEF FollowupInv, FollowupTypeOK, BornTogether, InFlight, FinishFollowup, NextOne, Decided
<1> QED
  BY <1>2, <1>3, <1>4 DEF FollowupInv

LEMMA CommitKeeps ==
  ASSUME FollowupInv, at = "submitting", Commit, UNCHANGED image
  PROVE  /\ standing' \in [Images -> {"none", "pending"} \cup Decided]
         /\ linked' \in [Images -> BOOLEAN] /\ videos' \in [Images -> Nat]
         /\ FollowsImage' /\ BornTogether'
         /\ standing'[Current] = "submitted"
<1>1. Current \in Images
  BY CurrentIsImage DEF FollowupInv, FollowupTypeOK
<1> QED
  BY <1>1 DEF FollowupInv, FollowupTypeOK, FollowsImage, BornTogether, InFlight, Commit, StateWithJob,
              Decided, Ended

LEMMA SelectionIsSequence ==
  ASSUME NEW n \in Nat, NEW s \in [1 .. n -> Images]
  PROVE  s \in Seq(Images)
OBVIOUS

LEMMA FollowupInvNext == FollowupInv /\ [FollowupNext]_followupVars => FollowupInv'
<1> SUFFICES ASSUME FollowupInv, [FollowupNext]_followupVars PROVE FollowupInv'
  OBVIOUS
<1> USE DEF Ended, Decided, Places
<1>1. ASSUME NEW i \in Images, Submission(i) PROVE FollowupInv'
  <2>1. left # <<>> => Current \in Images
    BY CurrentIsImage DEF FollowupInv
  <2> QED
    BY <1>1, <2>1 DEF Submission, FollowupInv, FollowupTypeOK, FollowsImage, BornTogether, InFlight,
                      Current
<1>2. ASSUME NEW i \in Images, CancelQueued(i) PROVE FollowupInv'
  <2>1. left # <<>> => Current \in Images
    BY CurrentIsImage DEF FollowupInv
  <2> QED
    BY <1>2, <2>1 DEF CancelQueued, FollowupInv, FollowupTypeOK, FollowsImage, BornTogether, InFlight,
                      Current, reservations
<1>3. ASSUME NEW i \in Images, Organize(i) PROVE FollowupInv'
  <2>1. output' \in [Images -> {"none", "kept", "trashed"}]
    BY <1>3 DEF Organize, FollowupInv, FollowupTypeOK
  <2>2. UNCHANGED <<image, standing, linked, videos, at, left, source, api, failures>>
    BY <1>3 DEF Organize, reservations
  <2> QED
    BY <2>1, <2>2 DEF FollowupInv, FollowupTypeOK, FollowsImage, BornTogether, InFlight, Current
<1>4. CASE SourceReady
  BY <1>4 DEF SourceReady, FollowupInv, FollowupTypeOK, FollowsImage, BornTogether, InFlight, Current,
              reservations
<1>5. ASSUME NEW i \in Images, ClaimImage(i) PROVE FollowupInv'
  BY <1>5 DEF ClaimImage, FollowupInv, FollowupTypeOK, FollowsImage, BornTogether, InFlight, reservations
<1>6. ASSUME NEW i \in Images, FinalizeImage(i) PROVE FollowupInv'
  BY <1>6 DEF FinalizeImage, FollowupInv, FollowupTypeOK, FollowsImage, BornTogether, InFlight, reservations
<1>7. CASE OtherTick
  BY <1>7 DEF OtherTick, FollowupInv, FollowupTypeOK, FollowsImage, BornTogether, InFlight, reservations
<1>8. CASE Select
  <2>1. left' \in Seq(Images) /\ at' \in {"tick", "next"}
    BY <1>8, SelectionIsSequence, LimitsAssumption DEF Select, FollowupInv, FollowupTypeOK
  <2> QED
    BY <1>8, <2>1 DEF Select, FollowupInv, FollowupTypeOK, FollowsImage, BornTogether, InFlight,
                      reservations
<1>9. CASE SweepEnds
  BY <1>9 DEF SweepEnds, FollowupInv, FollowupTypeOK, FollowsImage, BornTogether, InFlight, reservations
<1>10. CASE Dispatch
  <2>1. left # <<>> /\ Up /\ Current \in Images
    BY <1>10, CurrentIsImage DEF Dispatch, Dispatching, FollowupInv
  <2>2. standing[Current] = "pending" /\ image[Current] \in Ended
    BY <1>10 DEF Dispatch, Due
  <2>3. CASE image[Current] # "succeeded" /\ FinishFollowup(SkipState(Current))
    BY <2>1, <2>2, <2>3, FinishKeeps DEF SkipState
  <2>4. CASE image[Current] = "succeeded" /\ FinishFollowup("failed")
    BY <2>1, <2>2, <2>4, FinishKeeps
  <2>5. CASE /\ image[Current] = "succeeded" /\ at' = "submitting"
             /\ UNCHANGED <<image, output, reservations, left, source, api, failures>>
    BY <2>1, <2>2, <2>5 DEF FollowupInv, FollowupTypeOK, FollowsImage, BornTogether, InFlight, Current,
                            reservations
  <2> QED
    BY <1>10, <2>3, <2>4, <2>5 DEF Dispatch
<1>11. CASE SubmitVideo
  <2>1. at = "submitting" /\ left # <<>> /\ Commit /\ UNCHANGED image
    BY <1>11 DEF SubmitVideo, Dispatching
  <2>2. Current \in Images /\ Tail(left) \in Seq(Images)
    BY <2>1, CurrentIsImage DEF FollowupInv
  <2>3. FollowupTypeOK'
    BY <1>11, <2>1, <2>2, CommitKeeps DEF SubmitVideo, NextOne, FollowupInv, FollowupTypeOK
  <2>4. InFlight'
    BY <1>11, <2>1, <2>2, CommitKeeps DEF SubmitVideo, NextOne, FollowupInv, InFlight, Current
  <2> QED
    BY <2>1, <2>3, <2>4, CommitKeeps DEF FollowupInv
<1>12. CASE SubmitRejected
  BY <1>12 DEF SubmitRejected, Dispatching, FollowupInv, FollowupTypeOK, FollowsImage, BornTogether,
               InFlight, Current, reservations
<1>13. CASE RecordFailure
  <2>1. left # <<>> /\ Up /\ FinishFollowup(AfterFailure(Current))
    BY <1>13 DEF RecordFailure, Dispatching
  <2>2. image[Current] = "succeeded" /\ standing[Current] \in {"pending", "submitted"}
    BY <1>13 DEF RecordFailure, Dispatching, FollowupInv, InFlight
  <2> QED
    BY <2>1, <2>2, FinishKeeps DEF AfterFailure
<1>14. CASE DispatchFails
  <2>1. left # <<>> /\ NextOne /\ UNCHANGED <<image, output, reservations, source, api>>
    BY <1>14 DEF DispatchFails, Dispatching
  <2>2. failures' \in Nat
    BY <1>14, LimitsAssumption DEF DispatchFails, FailureCounted, FollowupInv, FollowupTypeOK
  <2>3. Tail(left) \in Seq(Images)
    BY <2>1, CurrentIsImage DEF FollowupInv
  <2> QED
    BY <2>1, <2>2, <2>3 DEF NextOne, FollowupInv, FollowupTypeOK, FollowsImage, BornTogether, InFlight,
                            reservations
<1>15. CASE StopApi
  <2>1. failures' \in Nat
    BY <1>15, LimitsAssumption DEF StopApi, FailureCounted, FollowupInv, FollowupTypeOK
  <2>2. /\ at' = "tick" /\ left' \in Seq(Images) /\ source' = FALSE /\ api' = "down"
        /\ UNCHANGED <<image, output>>
    BY <1>15 DEF StopApi
  <2>3. CASE UNCHANGED reservations
    BY <2>1, <2>2, <2>3 DEF FollowupInv, FollowupTypeOK, FollowsImage, BornTogether, InFlight,
                            reservations
  <2>4. CASE at = "submitting" /\ Commit
    <3>1. FollowupTypeOK'
      BY <2>1, <2>2, <2>4, CommitKeeps DEF FollowupInv, FollowupTypeOK
    <3>2. InFlight'
      BY <2>2 DEF InFlight
    <3> QED
      BY <2>2, <2>4, <3>1, <3>2, CommitKeeps DEF FollowupInv
  <2> QED
    BY <1>15, <2>3, <2>4 DEF StopApi
<1>16. CASE RestartApi
  <2>1. ~Up /\ UNCHANGED <<output, reservations, at, left, source, failures>>
    BY <1>16 DEF RestartApi
  <2>2. \A i \in Images : image'[i] = IF image[i] = "active" THEN "failed" ELSE image[i]
    BY <1>16 DEF RestartApi
  <2>3. FollowupTypeOK'
    BY <1>16 DEF RestartApi, FollowupInv, FollowupTypeOK, reservations
  <2>4. FollowsImage' /\ BornTogether'
    BY <2>1, <2>2 DEF FollowupInv, FollowupTypeOK, FollowsImage, BornTogether, reservations
  <2>5. InFlight'
    <3>1. left # <<>> => Current \in Images
      BY CurrentIsImage DEF FollowupInv
    <3> QED
      BY <2>1, <2>2, <3>1 DEF FollowupInv, FollowupTypeOK, InFlight, Current, reservations
  <2> QED
    BY <2>3, <2>4, <2>5 DEF FollowupInv
<1>17. CASE UNCHANGED followupVars
  BY <1>17 DEF followupVars, FollowupInv, FollowupTypeOK, FollowsImage, BornTogether, InFlight, Current,
               reservations
<1> QED
  BY <1>1, <1>2, <1>3, <1>4, <1>5, <1>6, <1>7, <1>8, <1>9, <1>10, <1>11, <1>12,
     <1>13, <1>14, <1>15, <1>16, <1>17 DEF FollowupNext, SweepStep

LEMMA Invariance == FollowupSpec => []FollowupInv
BY FollowupInvInit, FollowupInvNext, PTL DEF FollowupSpec

\* How a reservation ended agrees with its image Job, and a submitted one knows
\* its video Job.
THEOREM ReservationsFollowImages == FollowupSpec => []FollowsImage
<1>1. FollowupInv => FollowsImage
  BY DEF FollowupInv
<1> QED
  BY <1>1, Invariance, PTL

-----------------------------------------------------------------------------
(* Exactly one video Job.                                                  *)

LEMMA PromiseStep == FollowupInv /\ [FollowupNext]_followupVars => [Promise!Next]_(Promise!vars)
<1> SUFFICES ASSUME FollowupInv, [FollowupNext]_followupVars
             PROVE Promise!Next \/ UNCHANGED <<standing, videos>>
  BY DEF Promise!vars
<1>1. ASSUME NEW i \in Images, Submission(i) PROVE Promise!Reserve(i)
  BY <1>1 DEF Submission, Promise!Reserve, FollowupInv, BornTogether
<1>2. ASSUME at = "submitting", left # <<>>, Commit PROVE Promise!Submit(Current) /\ Current \in Images
  BY <1>2, CurrentIsImage DEF Commit, StateWithJob, Promise!Submit, FollowupInv, InFlight
<1>3. ASSUME left # <<>>, standing[Current] = "pending", NEW s \in {"skipped", "failed"}, FinishFollowup(s)
      PROVE Promise!GiveUp(Current) /\ Current \in Images
  BY <1>3, CurrentIsImage DEF FinishFollowup, Promise!GiveUp, FollowupInv
<1>4. CASE Dispatch
  <2>1. left # <<>> /\ standing[Current] = "pending"
    BY <1>4 DEF Dispatch, Dispatching, Due
  <2>2. CASE FinishFollowup("skipped") \/ FinishFollowup("failed")
    BY <1>3, <2>1, <2>2 DEF Promise!Next
  <2>3. CASE UNCHANGED reservations
    BY <2>3 DEF reservations
  <2> QED
    BY <1>4, <2>2, <2>3 DEF Dispatch, SkipState
<1>5. CASE SubmitVideo
  BY <1>2, <1>5 DEF SubmitVideo, Dispatching, Promise!Next
<1>6. CASE RecordFailure
  <2>1. left # <<>> /\ FinishFollowup(AfterFailure(Current)) /\ Current \in Images
    BY <1>6, CurrentIsImage DEF RecordFailure, Dispatching, FollowupInv
  <2>2. CASE standing[Current] = "pending"
    BY <1>3, <2>1, <2>2 DEF AfterFailure, Promise!Next
  <2>3. CASE standing[Current] = "submitted"
    BY <2>1, <2>3 DEF AfterFailure, FinishFollowup, FollowupInv, FollowupTypeOK
  <2> QED
    BY <1>6, <2>2, <2>3 DEF RecordFailure, Dispatching, FollowupInv, InFlight
<1>7. CASE StopApi
  <2>1. CASE at = "submitting" /\ Commit
    BY <1>2, <2>1 DEF FollowupInv, FollowupTypeOK, Promise!Next
  <2> QED
    BY <1>7, <2>1 DEF StopApi, reservations
<1>8. ASSUME NEW i \in Images, CancelQueued(i) \/ Organize(i) \/ ClaimImage(i) \/ FinalizeImage(i)
      PROVE UNCHANGED <<standing, videos>>
  BY <1>8 DEF CancelQueued, Organize, ClaimImage, FinalizeImage, reservations
<1>9. CASE SourceReady \/ OtherTick \/ Select \/ SweepEnds \/ SubmitRejected
  BY <1>9 DEF SourceReady, OtherTick, Select, SweepEnds, SubmitRejected, reservations
<1>10. CASE DispatchFails \/ RestartApi \/ UNCHANGED followupVars
  BY <1>10 DEF DispatchFails, RestartApi, followupVars, reservations
<1> QED
  BY <1>1, <1>4, <1>5, <1>6, <1>7, <1>8, <1>9, <1>10
     DEF FollowupNext, SweepStep, Promise!Next

\* A submitted reservation has exactly one video Job, any other has none, and a
\* settled one stays as it is, wherever the process ends.
THEOREM FollowupsKeepPromise == FollowupSpec => ImplementsReservation
<1>1. FollowupInit => Promise!Init
  BY DEF FollowupInit, Promise!Init
<1> QED
  BY <1>1, Invariance, PromiseStep, PTL DEF FollowupSpec, ImplementsReservation, Promise!Spec
=============================================================================
