--------------------------- MODULE UserScriptRuns ---------------------------
(***************************************************************************)
(* Runs of user scripts (user_scripts.py, script_sandbox.py, ADR 0003):    *)
(* preview, approval, execution in a sandbox and its record, by API        *)
(* processes of which only the holder of a file lock may execute.          *)
(*                                                                         *)
(* An execution reserves the process's one slot, stages script and inputs, *)
(* checks what it staged against the approval, marks the row running and   *)
(* hands it to a task.  Whoever gives up frees the slot first and removes  *)
(* the staging directory, which bears the run's name, in a thread later.   *)
(***************************************************************************)
EXTENDS FiniteSets, Naturals

CONSTANTS Runs, Procs,
  Requests,    \* execute requests that may overlap
  MaxSurvivors, \* bound: runs whose scope cannot be stopped
  None

ASSUME NoneAssumption == None \notin Runs \cup Procs

Final == {"succeeded", "failed", "cancelled"}

VARIABLES
  status,      \* [Runs -> the row's status, "absent" before preview]
  altered,     \* runs whose inputs, script or interpreter are not those approved
  up,          \* [Procs -> "down", "up" or "stopping"]
  holder,      \* the process with script-runs.lock, or None
  active,      \* [Procs -> Runs or None]: _active
  asked,       \* runs whose cancel event is set
  request,     \* [Requests -> execute requests]
  staging,     \* [Runs -> "none", "approved" or "altered"]: tmp/script-runs/<run>
  sandbox,     \* runs whose scope has processes
  drive,       \* [Runs -> where _drive is]
  files, rows, \* runs with output files, and with output Artifacts
  ran,         \* history: [Runs -> what the sandbox was given]
  survived,    \* history: runs whose scope could not be stopped
  broken       \* history: runs whose process ended, or whose record failed, midway

vars == <<status, altered, up, holder, active, asked, request, staging,
          sandbox, drive, files, rows, ran, survived, broken>>
rowVars == <<status, rows, altered>>
envVars == <<up, holder>>
histories == <<ran, survived, broken>>

Idle == [stage |-> "idle"]
Executions == {Idle} \cup [stage: {"preparing", "verified", "undo"}, run: Runs, proc: Procs]

NotDriven == [at |-> "none"]
Drives ==
  {NotDriven} \cup [at: {"begin", "watch", "cleanup"}, proc: Procs]
              \cup [at: {"drain"}, proc: Procs, reason: {"none", "limit", "cancelled"}]
              \cup [at: {"record"}, proc: Procs, end: Final]

TypeOK ==
  /\ status \in [Runs -> Final \cup {"absent", "pending_approval", "approved", "running"}]
  /\ altered \in SUBSET Runs
  /\ up \in [Procs -> {"down", "up", "stopping"}]
  /\ holder \in Procs \cup {None}
  /\ active \in [Procs -> Runs \cup {None}]
  /\ asked \in SUBSET Runs
  /\ request \in [Requests -> Executions]
  /\ staging \in [Runs -> {"none", "approved", "altered"}]
  /\ sandbox \in SUBSET Runs
  /\ drive \in [Runs -> Drives]
  /\ files \in SUBSET Runs /\ rows \in SUBSET Runs
  /\ ran \in [Runs -> {"none", "approved", "altered"}]
  /\ survived \in SUBSET Runs /\ broken \in SUBSET Runs

Init ==
  /\ status = [r \in Runs |-> "absent"]
  /\ altered = {}
  /\ up = [p \in Procs |-> "down"] /\ holder = None
  /\ active = [p \in Procs |-> None] /\ asked = {}
  /\ request = [q \in Requests |-> Idle]
  /\ staging = [r \in Runs |-> "none"]
  /\ sandbox = {} /\ drive = [r \in Runs |-> NotDriven]
  /\ files = {} /\ rows = {}
  /\ ran = [r \in Runs |-> "none"] /\ survived = {} /\ broken = {}

-----------------------------------------------------------------------------
(* Preview, approval, cancellation, and what may change meanwhile.         *)

Serving == \E p \in Procs : up[p] = "up"

SetStatus(r, from, to) ==
  /\ status[r] = from
  /\ status' = [status EXCEPT ![r] = to]

Preview(r) ==
  /\ Serving /\ SetStatus(r, "absent", "pending_approval")
  /\ UNCHANGED <<altered, envVars, active, asked, request, staging, sandbox,
                 drive, files, rows, histories>>

\* The token signs run, digest and deadline; the record itself never changes.
\* What has expired is refused: here, and by Reject below.
Approve(r) ==
  /\ Serving /\ SetStatus(r, "pending_approval", "approved")
  /\ UNCHANGED <<altered, envVars, active, asked, request, staging, sandbox,
                 drive, files, rows, histories>>

NotStarted == {"pending_approval", "approved"}

CancelEarly(r) ==
  /\ Serving /\ status[r] \in NotStarted
  /\ status' = [status EXCEPT ![r] = "cancelled"]
  /\ UNCHANGED <<altered, envVars, active, asked, request, staging, sandbox,
                 drive, files, rows, histories>>

\* The event is in the memory of the process that drives the run.
CancelRunning(p, r) ==
  /\ up[p] = "up" /\ status[r] = "running" /\ active[p] = r
  /\ asked' = asked \cup {r}
  /\ UNCHANGED <<rowVars, envVars, active, request, staging, sandbox, drive, files,
                 histories>>

\* An input file, or the interpreter in the settings, is replaced.
Alter(r) ==
  /\ status[r] \in NotStarted /\ altered' = altered \cup {r}
  /\ UNCHANGED <<status, rows, envVars, active, asked, request, staging,
                 sandbox, drive, files, histories>>

-----------------------------------------------------------------------------
(* One execute request.                                                    *)

\* Mutant: any process executes.
AnyProcess(p) == TRUE

IsRunner(p) == holder = p

\* The slot is taken before the first await.
Execute(q, p, r) ==
  /\ up[p] = "up" /\ request[q] = Idle
  /\ status[r] = "approved" /\ IsRunner(p) /\ active[p] = None
  /\ active' = [active EXCEPT ![p] = r]
  /\ request' = [request EXCEPT ![q] = [stage |-> "preparing", run |-> r, proc |-> p]]
  /\ UNCHANGED <<rowVars, envVars, asked, staging, sandbox, drive, files, histories>>

\* The slot is free at once, the directory later.
GiveUp(q) ==
  /\ active' = [active EXCEPT ![request[q].proc] = None]
  /\ request' = [request EXCEPT ![q].stage = "undo"]

Staged(r) == IF r \in altered THEN "altered" ELSE "approved"

\* Mutant: what was staged is not compared with the approval.
Unverified(r) == TRUE

Verified(r) == Staged(r) = "approved"

\* Script and inputs are copied, and the copies compared with the digest.
Stage(q) ==
  /\ request[q].stage = "preparing"
  /\ LET r == request[q].run
     IN /\ staging' = [staging EXCEPT ![r] = Staged(r)]
        /\ IF Verified(r)
           THEN request' = [request EXCEPT ![q].stage = "verified"] /\ UNCHANGED active
           ELSE GiveUp(q)
  /\ UNCHANGED <<rowVars, envVars, asked, sandbox, drive, files, histories>>

\* The approval has the sandbox, key or an input is not available.
Reject(q) ==
  /\ request[q].stage = "preparing"
  /\ GiveUp(q)
  /\ UNCHANGED <<rowVars, envVars, asked, staging, sandbox, drive, files, histories>>

Undo(q) ==
  /\ request[q].stage = "undo"
  /\ staging' = [staging EXCEPT ![request[q].run] = "none"]
  /\ request' = [request EXCEPT ![q] = Idle]
  /\ UNCHANGED <<rowVars, envVars, active, asked, sandbox, drive, files, histories>>

\* Mutant: the row is updated whatever has become of it.
Regardless(r) == TRUE

\* UPDATE ... WHERE status = 'approved', and one running row at most.
MayRun(r) == status[r] = "approved" /\ \A s \in Runs : status[s] # "running"

Start(q) ==
  /\ request[q].stage = "verified" /\ MayRun(request[q].run)
  /\ status' = [status EXCEPT ![request[q].run] = "running"]
  /\ drive' = [drive EXCEPT ![request[q].run] = [at |-> "begin", proc |-> request[q].proc]]
  /\ request' = [request EXCEPT ![q] = Idle]
  /\ UNCHANGED <<rows, altered, envVars, active, asked, staging, sandbox,
                 files, histories>>

\* The row is not approved any more, another runs, or the commit fails.
StartFails(q) ==
  /\ request[q].stage = "verified"
  /\ GiveUp(q)
  /\ UNCHANGED <<rowVars, envVars, asked, staging, sandbox, drive, files, histories>>

-----------------------------------------------------------------------------
(* _drive.                                                                 *)

Goes(r, to) == drive' = [drive EXCEPT ![r] = [at |-> to, proc |-> drive[r].proc]]
Ends(r, end) ==
  drive' = [drive EXCEPT ![r] = [at |-> "record", proc |-> drive[r].proc, end |-> end]]

\* Without its staging directory the sandbox cannot come up.
Launch(r) ==
  /\ drive[r].at = "begin" /\ staging[r] # "none"
  /\ sandbox' = sandbox \cup {r}
  /\ ran' = [ran EXCEPT ![r] = staging[r]]
  /\ Goes(r, "watch")
  /\ UNCHANGED <<rowVars, envVars, active, asked, request, staging, files, survived,
                 broken>>

LaunchFails(r) ==
  /\ drive[r].at = "begin"
  /\ Ends(r, "failed")
  /\ UNCHANGED <<rowVars, envVars, active, asked, request, staging, sandbox, files,
                 histories>>

\* Mutant: a stopped script's scope is left to itself.
ScopeLeft(r) == sandbox

AfterStop(r) == sandbox \ {r}

\* A script that ends by itself has succeeded or failed; a limit (wall time at
\* the latest) stops it, or the cancel event does.
Reasons(r) == {"none", "limit"} \cup (IF r \in asked THEN {"cancelled"} ELSE {})

\* Mutant: the reason is recorded as the status.
AsReason(reason) == reason

StatusOf(reason) == IF reason = "cancelled" THEN reason ELSE "failed"

\* Outputs are read from the staging directory.
Finish(r, reason) ==
  IF reason = "none" /\ staging[r] # "none"
  THEN Ends(r, "succeeded") /\ files' = files \cup {r}
  ELSE Ends(r, StatusOf(reason)) /\ UNCHANGED files

\* In any case the scope is stopped before the outcome is recorded.
Watched(r) ==
  /\ drive[r].at = "watch"
  /\ sandbox' = AfterStop(r)
  /\ \E reason \in Reasons(r) : Finish(r, reason)
  /\ UNCHANGED <<rowVars, envVars, active, asked, request, staging, histories>>

\* systemctl cannot be called, and something has outlived bwrap.
StopFails(r) ==
  /\ drive[r].at = "watch"
  /\ survived' = survived \cup {r} /\ Cardinality(survived') <= MaxSurvivors
  /\ \E reason \in Reasons(r) :
       drive' = [drive EXCEPT ![r] = [at |-> "drain", proc |-> drive[r].proc,
                                      reason |-> reason]]
  /\ UNCHANGED <<rowVars, envVars, active, asked, request, staging, sandbox, files, ran,
                 broken>>

\* The logs are read to their end, which what has survived may hold up.
Drained(r) ==
  /\ drive[r].at = "drain"
  /\ Finish(r, drive[r].reason)
  /\ UNCHANGED <<rowVars, envVars, active, asked, request, staging, sandbox, histories>>

Free(p, r) == IF active[p] = r THEN None ELSE active[p]

\* Mutant: the slot is freed only when the record succeeds.
KeptOnFailure(p, r) == IF r \in broken' THEN active[p] ELSE Free(p, r)

AfterDrive(p, r) == Free(p, r)

Release(r) ==
  /\ active' = [active EXCEPT ![drive[r].proc] = AfterDrive(drive[r].proc, r)]
  /\ asked' = asked \ {r}
  /\ Goes(r, "cleanup")

\* Mutant: Artifacts are recorded for a run that did not succeed.
RowsAnyway(r) == rows \cup {r}

RowsOf(r) == IF drive[r].end = "succeeded" THEN rows \cup {r} ELSE rows

\* Outcome and Artifacts are one commit.
Record(r) ==
  /\ drive[r].at = "record"
  /\ status' = [status EXCEPT ![r] = drive[r].end]
  /\ rows' = RowsOf(r)
  /\ UNCHANGED broken
  /\ Release(r)
  /\ UNCHANGED <<altered, envVars, request, staging, sandbox, files,
                 ran, survived>>

\* The commit fails: _mark_failed, which may fail as well.
RecordFails(r) ==
  /\ drive[r].at = "record"
  /\ broken' = broken \cup {r}
  /\ status' \in {status, [status EXCEPT ![r] = "failed"]}
  /\ Release(r)
  /\ UNCHANGED <<rows, altered, envVars, request, staging, sandbox,
                 files, ran, survived>>

Cleanup(r) ==
  /\ drive[r].at = "cleanup"
  /\ staging' = [staging EXCEPT ![r] = "none"]
  /\ drive' = [drive EXCEPT ![r] = NotDriven]
  /\ UNCHANGED <<rowVars, envVars, active, asked, request, sandbox, files, histories>>

-----------------------------------------------------------------------------
(* Processes.                                                              *)

Driven(p) == {r \in Runs : drive[r] # NotDriven /\ drive[r].proc = p}
Handled(p) == {q \in Requests : request[q] # Idle /\ request[q].proc = p}
Running == {r \in Runs : status[r] = "running"}

\* Mutant: a process that is not the runner recovers too.
EveryProcess(p) == TRUE

Recovers(p) == holder = None

\* The runner stops what the last one left and fails it; a scope it cannot
\* stop is logged.
Boot(p) ==
  /\ up[p] = "down"
  /\ up' = [up EXCEPT ![p] = "up"]
  /\ IF Recovers(p)
     THEN /\ holder' = p
          /\ status' = [r \in Runs |-> IF r \in Running THEN "failed" ELSE status[r]]
          /\ staging' = [r \in Runs |-> IF r \in Running THEN "none" ELSE staging[r]]
          /\ \E left \in SUBSET (Running \cap sandbox) :
               /\ sandbox' = (sandbox \ Running) \cup left
               /\ survived' = survived \cup left
               /\ Cardinality(survived') <= MaxSurvivors
     ELSE UNCHANGED <<holder, status, staging, sandbox, survived>>
  /\ UNCHANGED <<rows, altered, active, asked, request, drive, files, ran, broken>>

\* The process ends; bwrap dies with it unless something escaped.
Crash(p) ==
  /\ up[p] # "down"
  /\ up' = [up EXCEPT ![p] = "down"]
  /\ holder' = IF holder = p THEN None ELSE holder
  /\ active' = [active EXCEPT ![p] = None]
  /\ request' = [q \in Requests |-> IF q \in Handled(p) THEN Idle ELSE request[q]]
  /\ drive' = [r \in Runs |-> IF r \in Driven(p) THEN NotDriven ELSE drive[r]]
  /\ broken' = broken \cup {r \in Driven(p) : drive[r].at # "cleanup"}
  /\ \E left \in SUBSET (Driven(p) \cap sandbox) : sandbox' = (sandbox \ Driven(p)) \cup left
  /\ asked' = asked \ Driven(p)
  /\ UNCHANGED <<rowVars, staging, files, ran, survived>>

\* shutdown(): no request is left; every cancel event is set.
Stop(p) ==
  /\ up[p] = "up" /\ Handled(p) = {}
  /\ up' = [up EXCEPT ![p] = "stopping"]
  /\ asked' = asked \cup {r \in Driven(p) : active[p] = r}
  /\ UNCHANGED <<rowVars, holder, active, request, staging, sandbox, drive, files,
                 histories>>

Down(p) ==
  /\ up[p] = "stopping" /\ Driven(p) = {}
  /\ up' = [up EXCEPT ![p] = "down"]
  /\ holder' = IF holder = p THEN None ELSE holder
  /\ UNCHANGED <<rowVars, active, asked, request, staging, sandbox, drive, files,
                 histories>>

-----------------------------------------------------------------------------
Ask(r) == Preview(r) \/ Approve(r) \/ CancelEarly(r) \/ Alter(r)
Advance(q) == Stage(q) \/ Reject(q) \/ Undo(q) \/ Start(q) \/ StartFails(q)
DriveStep(r) ==
  \/ Launch(r) \/ LaunchFails(r) \/ Watched(r) \/ StopFails(r)
  \/ Record(r) \/ RecordFails(r) \/ Cleanup(r)

Next ==
  \/ \E r \in Runs : Ask(r) \/ DriveStep(r) \/ Drained(r)
  \/ \E p \in Procs, r \in Runs : CancelRunning(p, r)
  \/ \E q \in Requests, p \in Procs, r \in Runs : Execute(q, p, r)
  \/ \E q \in Requests : Advance(q)
  \/ \E p \in Procs : Boot(p) \/ Crash(p) \/ Stop(p) \/ Down(p)

\* Handlers and tasks are scheduled, a script ends by its wall limit; users,
\* time and processes are free, and so is what has survived its stop.
Spec ==
  /\ Init /\ [][Next]_vars
  /\ \A q \in Requests : WF_vars(Advance(q))
  /\ \A r \in Runs : WF_vars(DriveStep(r))

-----------------------------------------------------------------------------
(* Properties.                                                             *)

\* One script at a time, whatever processes are started, unless the scope of
\* an earlier one could not be stopped or waits for the next runner to do it.
OneSandbox == Cardinality(sandbox \ (survived \cup broken)) <= 1
              /\ (survived = {} /\ holder # None => Cardinality(sandbox) <= 1)

\* A sandbox is only ever given what was approved.
RunsWhatWasApproved == \A r \in Runs : ran[r] # "altered"

\* A running row is being driven, and a script runs only under such a row;
\* else a process end, a failed record or a failed stop has come between.
RowsMatchSandboxes ==
  \A r \in Runs \ (broken \cup survived) :
    /\ status[r] = "running" <=> drive[r].at \in {"begin", "watch", "record"}
    /\ r \in sandbox => status[r] = "running" /\ drive[r].at = "watch"

\* Artifacts belong to succeeded runs and have their files; files without them
\* are being recorded, or their record failed.
OutputsAccounted ==
  \A r \in Runs :
    /\ r \in rows <=> status[r] = "succeeded"
    /\ r \in rows => r \in files
    /\ r \in files \ (rows \cup broken) => drive[r].at = "record"

\* A run's row agrees with its sandbox and with its outputs.
RunsAccounted == RowsMatchSandboxes /\ OutputsAccounted

\* How a run ended stays: what was cancelled while it was prepared never starts,
\* what a recovery failed is not recorded again.
EndsOnce == [][\A r \in Runs : status[r] \in Final => status'[r] = status[r]]_vars

\* The slot of the runner is always free again, but for a survivor's run.
SlotFreed == \A p \in Procs : []<>(active[p] \in survived \cup {None})
=============================================================================
