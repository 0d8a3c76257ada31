------------------------------ MODULE JobQueue ------------------------------
(***************************************************************************)
(* The serial GPU job queue: JobQueueWorker (queue.py), the commit of a    *)
(* submission and the cancel endpoint (routers.py), and the recovery the   *)
(* process runs when it starts (main.py).                                  *)
(*                                                                         *)
(* A row of generation_jobs is one element of Jobs.  Every database        *)
(* transaction is one step; between two awaits of a coroutine the other    *)
(* coroutines of the event loop may run, so the worker and every cancel    *)
(* request carry a program counter.  The executor behind the JobExecutor   *)
(* protocol appears by what it may do to the queue: commit the outputs     *)
(* and return an outcome.  What it says to the backend is the matter of    *)
(* ComfyExecutor.                                                          *)
(***************************************************************************)
EXTENDS Integers

CONSTANTS
  Jobs,            \* ids of Job rows; ids are compared to break ties
  Clients,         \* requests to the cancel endpoint that may overlap
  Requested,       \* queue_sequence values a caller may ask for
  FloatExponent,   \* 2**n no longer converts to a float from here on (1024)
  MaxErrors,       \* bound: exceptions in database steps
  MaxStops         \* bound: process ends (crash or shutdown)

ASSUME JobsAssumption == Jobs \subseteq Nat
ASSUME RequestedAssumption == Requested \subseteq Nat
ASSUME FloatExponentAssumption == FloatExponent \in Nat \ {0}
ASSUME BoundsAssumption == MaxErrors \in Nat /\ MaxStops \in Nat

NoJob == -1

Active == {"running", "cancelling"}
Terminal == {"succeeded", "failed", "cancelled"}
JobStates == {"absent", "queued"} \cup Active \cup Terminal

\* The failure codes of queue.py; "BACKEND" is any code an executor reports.
FailureCodes == {"INTERRUPTED", "CLAIM_LOST", "EXECUTOR_ERROR", "BACKEND"}

\* ExecutionOutcome: a success, a confirmed stop, or a failure with its code.
Outcomes == {"succeeded", "stopped", "CLAIM_LOST", "EXECUTOR_ERROR", "BACKEND"}

VARIABLES
  state,       \* [Jobs -> JobStates]: generation_jobs.state
  sequence,    \* [Jobs -> Nat]: generation_jobs.queue_sequence
  requested,   \* [Jobs -> BOOLEAN]: cancel_requested_at is set
  failure,     \* [Jobs -> FailureCodes or "none"]: failure_code
  outputs,     \* [Jobs -> BOOLEAN]: complete output Artifacts are committed
  worker,      \* the worker task: [pc, job, outcome, cancel, errors]
  registered,  \* keys of JobQueueWorker._cancel_events
  client,      \* [Clients -> [pc, job, seen]]: cancel requests in flight
  process,     \* "up" or "down"
  earlier,     \* history, [Jobs -> SUBSET Jobs]: rows inserted before this one
  numbered,    \* history: Jobs numbered by the API, not by the caller
  runs,        \* history, [Jobs -> Nat]: times the executor was entered
  abandoned,   \* history: Jobs whose claim or finalize ended in an exception
  faults,      \* exceptions so far
  stops        \* process ends so far

rows == <<state, sequence, requested, failure, outputs>>
history == <<earlier, numbered, runs, abandoned>>
bounds == <<faults, stops>>
vars == <<rows, worker, registered, client, process, history, bounds>>

WorkerPcs == {"down", "poll", "picked", "claimed", "loading", "executing",
              "stored", "returned", "after", "dead"}

\* A worker without a Job, after so many consecutive errors.
IdleWorker(pc, n) ==
  [pc |-> pc, job |-> NoJob, outcome |-> "none", cancel |-> FALSE, errors |-> n]

IdleClient == [pc |-> "idle", job |-> NoJob, seen |-> "absent"]

TypeOK ==
  /\ state \in [Jobs -> JobStates]
  /\ sequence \in [Jobs -> Nat]
  /\ requested \in [Jobs -> BOOLEAN]
  /\ failure \in [Jobs -> FailureCodes \cup {"none"}]
  /\ outputs \in [Jobs -> BOOLEAN]
  /\ worker \in [pc: WorkerPcs, job: Jobs \cup {NoJob},
                 outcome: Outcomes \cup {"none"}, cancel: BOOLEAN, errors: Nat]
  /\ registered \in SUBSET Jobs
  /\ client \in [Clients -> [pc: {"idle", "read", "committed"},
                             job: Jobs \cup {NoJob}, seen: JobStates]]
  /\ process \in {"up", "down"}
  /\ earlier \in [Jobs -> SUBSET Jobs]
  /\ numbered \in SUBSET Jobs
  /\ runs \in [Jobs -> Nat]
  /\ abandoned \in SUBSET Jobs
  /\ faults \in Nat
  /\ stops \in Nat

Init ==
  /\ state = [j \in Jobs |-> "absent"]
  /\ sequence = [j \in Jobs |-> 0]
  /\ requested = [j \in Jobs |-> FALSE]
  /\ failure = [j \in Jobs |-> "none"]
  /\ outputs = [j \in Jobs |-> FALSE]
  /\ worker = IdleWorker("poll", 0)
  /\ registered = {}
  /\ client = [c \in Clients |-> IdleClient]
  /\ process = "up"
  /\ earlier = [j \in Jobs |-> {}]
  /\ numbered = {}
  /\ runs = [j \in Jobs |-> 0]
  /\ abandoned = {}
  /\ faults = 0
  /\ stops = 0

Stored == {j \in Jobs : state[j] # "absent"}
Queued == {j \in Jobs : state[j] = "queued"}

-----------------------------------------------------------------------------
(* Submission: the single commit of _submit_generation_job.                *)

Insert(j, n) ==
  /\ process = "up"
  /\ state[j] = "absent"
  /\ state' = [state EXCEPT ![j] = "queued"]
  /\ sequence' = [sequence EXCEPT ![j] = n]
  /\ earlier' = [earlier EXCEPT ![j] = Stored]
  /\ UNCHANGED <<requested, failure, outputs, worker, registered, client,
                 process, runs, abandoned, bounds>>

\* Mutant: MAX(queue_sequence) without the + 1.
RepeatsLastSequence(n) ==
  \/ Stored = {} /\ n = 1
  \/ \E last \in Stored : /\ \A j \in Stored : sequence[j] <= sequence[last]
                          /\ n = sequence[last]

\* COALESCE(MAX(queue_sequence), 0) + 1, evaluated inside the INSERT.
IsNextSequence(n) ==
  \/ Stored = {} /\ n = 1
  \/ \E last \in Stored : /\ \A j \in Stored : sequence[j] <= sequence[last]
                          /\ n = sequence[last] + 1

SubmitNumbered(j) ==
  /\ \E n \in {1} \cup UNION {{sequence[k], sequence[k] + 1} : k \in Stored} :
       IsNextSequence(n) /\ Insert(j, n)
  /\ numbered' = numbered \cup {j}

SubmitRequested(j) ==
  /\ \E n \in Requested : Insert(j, n)
  /\ UNCHANGED numbered

-----------------------------------------------------------------------------
(* The worker.                                                             *)

\* ORDER BY queue_sequence ASC, id ASC.
Precedes(j, k) ==
  \/ sequence[j] < sequence[k]
  \/ sequence[j] = sequence[k] /\ j < k

\* The candidate of _claim_next.  The SELECT runs outside a transaction:
\* other commits may come before the UPDATE.
PickNext(j) ==
  /\ worker.pc = "poll"
  /\ j \in Queued
  /\ \A k \in Queued \ {j} : Precedes(j, k)
  /\ worker' = [worker EXCEPT !.pc = "picked", !.job = j]
  /\ UNCHANGED <<rows, registered, client, process, history, bounds>>

NothingQueued ==
  /\ worker.pc = "poll"
  /\ Queued = {}
  /\ worker' = IdleWorker("after", 0)
  /\ UNCHANGED <<rows, registered, client, process, history, bounds>>

\* Mutant: the UPDATE of _claim_next without its condition on the state.
ClaimableAlways == TRUE

\* WHERE id = :id AND state = 'queued': what decides rowcount.
Claimable == state[worker.job] = "queued"

\* The conditional UPDATE to running and its commit.
Claim ==
  /\ worker.pc = "picked"
  /\ Claimable
  /\ state' = [state EXCEPT ![worker.job] = "running"]
  /\ worker' = [worker EXCEPT !.pc = "claimed"]
  /\ UNCHANGED <<sequence, requested, failure, outputs, registered, client,
                 process, history, bounds>>

\* rowcount 0: a cancel request was first.
ClaimMissed ==
  /\ worker.pc = "picked"
  /\ ~Claimable
  /\ worker' = IdleWorker("after", 0)
  /\ UNCHANGED <<rows, registered, client, process, history, bounds>>

\* _process_next stores the cancel event only after _claim_next has returned.
Register ==
  /\ worker.pc = "claimed"
  /\ registered' = registered \cup {worker.job}
  /\ worker' = [worker EXCEPT !.pc = "loading", !.cancel = FALSE]
  /\ UNCHANGED <<rows, client, process, history, bounds>>

EnterExecutor ==
  /\ worker.pc = "loading"
  /\ runs' = [runs EXCEPT ![worker.job] = @ + 1]
  /\ worker' = [worker EXCEPT !.pc = "executing"]
  /\ UNCHANGED <<rows, registered, client, process, earlier, numbered,
                 abandoned, bounds>>

\* The executor's last commit before it reports success.
CommitOutputs ==
  /\ worker.pc = "executing"
  /\ outputs' = [outputs EXCEPT ![worker.job] = TRUE]
  /\ worker' = [worker EXCEPT !.pc = "stored"]
  /\ UNCHANGED <<state, sequence, requested, failure, registered, client,
                 process, history, bounds>>

\* Mutant: the executor reports success before the outputs are committed.
OutcomesBeforeCommit ==
  IF worker.pc \in {"executing", "stored"} THEN {"succeeded", "BACKEND"} ELSE {}

\* What _run_executor can yield where the worker stands.  A stop is confirmed
\* only to an executor that has seen the event; an exception may also come
\* from closing the client after the outputs are committed.
PossibleOutcomes ==
  CASE worker.pc = "loading" -> {"CLAIM_LOST"}
    [] worker.pc = "executing" /\ worker.cancel ->
         {"BACKEND", "EXECUTOR_ERROR", "stopped"}
    [] worker.pc = "executing" /\ ~worker.cancel -> {"BACKEND", "EXECUTOR_ERROR"}
    [] worker.pc = "stored" -> {"succeeded", "EXECUTOR_ERROR"}
    [] OTHER -> {}

Return(outcome) ==
  /\ outcome \in PossibleOutcomes
  /\ registered' = registered \ {worker.job}
  /\ worker' = [worker EXCEPT !.pc = "returned", !.outcome = outcome]
  /\ UNCHANGED <<rows, client, process, history, bounds>>

\* Mutant: a signalled event wins over a success.
CancelWins ==
  IF worker.cancel THEN "cancelled"
  ELSE IF worker.outcome = "succeeded" THEN "succeeded" ELSE "failed"

\* The state _finalize writes; the write is not conditional on the old state.
FinalState ==
  IF worker.outcome = "succeeded" THEN "succeeded"
  ELSE IF worker.outcome = "stopped" /\ worker.cancel THEN "cancelled"
  ELSE "failed"

\* Mutant: the failure columns are filled whatever the outcome.
FailureAlways == [failure EXCEPT ![worker.job] = worker.outcome]

FailureWritten == IF FinalState = "failed"
                  THEN [failure EXCEPT ![worker.job] = worker.outcome]
                  ELSE failure

Finalize ==
  /\ worker.pc = "returned"
  /\ state' = [state EXCEPT ![worker.job] = FinalState]
  /\ failure' = FailureWritten
  /\ worker' = IdleWorker("after", 0)
  /\ UNCHANGED <<sequence, requested, outputs, registered, client, process,
                 history, bounds>>

\* Mutant: an exception of _process_next ends the loop.
FirstErrorKills == worker.errors > 0

\* _next_delay multiplies a float by 2**errors, outside the try of the loop:
\* OverflowError from the first exponent a float cannot hold.
DelayOverflows == worker.errors >= FloatExponent

\* after_tick, whose exceptions are only logged, and the sleep.
AfterTick ==
  /\ worker.pc = "after"
  /\ worker' = [worker EXCEPT !.pc = IF DelayOverflows THEN "dead" ELSE "poll"]
  /\ UNCHANGED <<rows, registered, client, process, history, bounds>>

-----------------------------------------------------------------------------
(* Exceptions of the worker's database steps.                              *)

Fault == faults < MaxErrors /\ faults' = faults + 1

\* The SELECT or the UPDATE of _claim_next raises: nothing was committed.
ClaimFails ==
  /\ worker.pc \in {"poll", "picked"}
  /\ Fault
  /\ worker' = IdleWorker("after", worker.errors + 1)
  /\ UNCHANGED <<rows, registered, client, process, history, stops>>

\* Leaving _claim_next raises after the commit: the row stays running.
ClaimAbandoned ==
  /\ worker.pc = "claimed"
  /\ Fault
  /\ abandoned' = abandoned \cup {worker.job}
  /\ worker' = IdleWorker("after", worker.errors + 1)
  /\ UNCHANGED <<rows, registered, client, process, earlier, numbered, runs,
                 stops>>

\* _finalize raises: the row keeps its state and the worker goes on.
FinalizeFails ==
  /\ worker.pc = "returned"
  /\ Fault
  /\ abandoned' = abandoned \cup {worker.job}
  /\ worker' = IdleWorker("after", 0)
  /\ UNCHANGED <<rows, registered, client, process, earlier, numbered, runs,
                 stops>>

-----------------------------------------------------------------------------
(* The cancel endpoint: read the row, update it on the condition that it   *)
(* has not moved, commit, read it again, tell the worker.                  *)

CancelRead(c, j) ==
  /\ process = "up"
  /\ client[c].pc = "idle"
  /\ state[j] \in {"queued", "running"}
  /\ client' = [client EXCEPT ![c] = [pc |-> "read", job |-> j, seen |-> state[j]]]
  /\ UNCHANGED <<rows, worker, registered, process, history, bounds>>

\* Mutant: the UPDATE of the cancel endpoint without its condition.
UnmovedAlways(c) == TRUE

\* WHERE id = :id AND state = <the state that was read>.
Unmoved(c) == state[client[c].job] = client[c].seen

CancelUpdate(c) ==
  /\ client[c].pc = "read"
  /\ LET j == client[c].job
     IN /\ Unmoved(c)
        /\ state' = [state EXCEPT ![j] = IF client[c].seen = "queued"
                                         THEN "cancelled" ELSE "cancelling"]
        /\ requested' = [requested EXCEPT ![j] = TRUE]
  /\ client' = [client EXCEPT ![c].pc = "committed"]
  /\ UNCHANGED <<sequence, failure, outputs, worker, registered, process,
                 history, bounds>>

\* rowcount 0: 409, the caller reads again.
CancelConflict(c) ==
  /\ client[c].pc = "read"
  /\ ~Unmoved(c)
  /\ client' = [client EXCEPT ![c] = IdleClient]
  /\ UNCHANGED <<rows, worker, registered, process, history, bounds>>

\* refresh, then request_cancel when the row is still cancelling.  An event
\* that is not registered is not set, and nothing remembers the request.
CancelSignal(c) ==
  /\ client[c].pc = "committed"
  /\ worker' = [worker EXCEPT
                 !.cancel = @ \/ /\ state[client[c].job] = "cancelling"
                                 /\ client[c].job \in registered]
  /\ client' = [client EXCEPT ![c] = IdleClient]
  /\ UNCHANGED <<rows, registered, process, history, bounds>>

\* The refresh raises after the commit: the signal is never sent.
CancelSignalFails(c) ==
  /\ client[c].pc = "committed"
  /\ Fault
  /\ client' = [client EXCEPT ![c] = IdleClient]
  /\ UNCHANGED <<rows, worker, registered, process, history, stops>>

-----------------------------------------------------------------------------
(* The process.                                                            *)

\* A crash, or a shutdown whose CancelledError leaves _process_next without
\* _finalize: all that is not in the database is gone.
Stop ==
  /\ process = "up"
  /\ stops < MaxStops
  /\ stops' = stops + 1
  /\ process' = "down"
  /\ worker' = IdleWorker("down", 0)
  /\ registered' = {}
  /\ client' = [c \in Clients |-> IdleClient]
  /\ UNCHANGED <<rows, history, faults>>

\* Mutant: recovery forgets the rows that were being cancelled.
OnlyRunning == {j \in Jobs : state[j] = "running"}

\* The rows recover_interrupted_jobs selects.
Interrupted == {j \in Jobs : state[j] \in Active}

\* Mutant: recovery puts interrupted rows back into the queue.
Requeued == "queued"

RecoveredState == "failed"

\* lifespan: recover_interrupted_jobs, and only then the worker and requests.
Restart ==
  /\ process = "down"
  /\ process' = "up"
  /\ state' = [j \in Jobs |-> IF j \in Interrupted
                              THEN RecoveredState ELSE state[j]]
  /\ failure' = [j \in Jobs |-> IF j \in Interrupted
                                THEN "INTERRUPTED" ELSE failure[j]]
  /\ worker' = IdleWorker("poll", 0)
  /\ abandoned' = {}
  /\ UNCHANGED <<sequence, requested, outputs, registered, client, earlier,
                 numbered, runs, bounds>>

-----------------------------------------------------------------------------
Submit == \E j \in Jobs : SubmitNumbered(j) \/ SubmitRequested(j)

WorkerStep ==
  \/ \E j \in Jobs : PickNext(j)
  \/ NothingQueued
  \/ Claim
  \/ ClaimMissed
  \/ Register
  \/ EnterExecutor
  \/ CommitOutputs
  \/ \E outcome \in Outcomes : Return(outcome)
  \/ Finalize
  \/ AfterTick

WorkerFault == ClaimFails \/ ClaimAbandoned \/ FinalizeFails

CancelStep(c) == CancelUpdate(c) \/ CancelConflict(c) \/ CancelSignal(c)

Next ==
  \/ Submit
  \/ WorkerStep
  \/ WorkerFault
  \/ \E c \in Clients : \/ \E j \in Jobs : CancelRead(c, j)
                        \/ CancelStep(c)
                        \/ CancelSignalFails(c)
  \/ Stop
  \/ Restart

\* The event loop keeps running the worker (every executor returns: each wait
\* has a timeout) and every accepted request, and an operator starts the
\* process again.  Nobody is obliged to submit or cancel, and nothing to fail.
Fairness ==
  /\ WF_vars(WorkerStep)
  /\ \A c \in Clients : WF_vars(CancelStep(c))
  /\ WF_vars(Restart)

Spec == Init /\ [][Next]_vars

FairSpec == Spec /\ Fairness

-----------------------------------------------------------------------------
(* Properties.                                                             *)

\* The Jobs the worker has claimed and not yet let go.
HeldPcs == {"claimed", "loading", "executing", "stored", "returned"}
Held == IF worker.pc \in HeldPcs THEN {worker.job} ELSE {}

\* GPU work is serial: a row is running or cancelling only while the worker
\* holds it, unless an exception made the worker let go (queue.py logs it and
\* leaves the row to the next start) or the process is down.
ActiveRowsHeld ==
  \A j \in Jobs : state[j] \in Active =>
    j \in Held \cup abandoned \/ process = "down"

\* The worker never executes a Job whose row is queued, cancelled or finished,
\* whatever cancel requests do between its SELECT, its UPDATE and its finalize.
HeldRowsActive == \A j \in Held : state[j] \in Active

\* No Job is executed twice, across conflicts, exceptions and restarts.
ExecutedAtMostOnce ==
  \A j \in Jobs : /\ runs[j] <= 1
                  /\ state[j] \in {"absent", "queued"} => runs[j] = 0

\* cancelled is only ever the user's wish, and never hides finished work:
\* an output that was complete before the stop makes the Job succeed.
CancelledCleanly ==
  \A j \in Jobs : state[j] = "cancelled" => requested[j] /\ ~outputs[j]

\* A Job that succeeded has its outputs, and a failed Job keeps committed
\* outputs only if the process ended, or the executor broke, before the queue
\* heard of them: a failure the backend reported leaves none.
OutputsAccounted ==
  \A j \in Jobs :
    /\ state[j] = "succeeded" => outputs[j]
    /\ state[j] = "failed" /\ outputs[j] =>
         failure[j] \in {"INTERRUPTED", "EXECUTOR_ERROR"}

\* Start order: a Job that is started while one submitted before it still
\* waits asked for its place in the queue, and that place is the earlier one.
StartOrder ==
  [][\A j, k \in Jobs :
       /\ state[j] = "queued" /\ state'[j] = "running"
       /\ state'[k] = "queued" /\ k \in earlier[j]
       => j \notin numbered /\ Precedes(j, k)]_vars

\* Every Job leaves the queue: it is started or cancelled.
QueuedLeaves ==
  \A j \in Jobs : state[j] = "queued" ~> state[j] \in Active \cup Terminal

\* Every started Job ends, also one that is being cancelled and also across a
\* restart, unless an exception made the worker let go of it.
ActiveEnds ==
  \A j \in Jobs : state[j] \in Active ~> state[j] \in Terminal \/ j \in abandoned

\* An accepted cancellation reaches the executor (the cancel endpoint moves
\* running to cancelling "and tells the Executor"): with no cancel request in
\* flight, the event of an executing Job that is being cancelled is set.
CancelReachesExecutor ==
  worker.pc \in {"executing", "stored"} /\ state[worker.job] = "cancelling"
    => worker.cancel \/ \E c \in Clients : client[c].pc = "committed"

-----------------------------------------------------------------------------
(* The queue as its clients see it: the life of each row.                  *)

Lifecycle == INSTANCE JobLifecycle

ImplementsLifecycle == Lifecycle!Spec
=============================================================================
