------------------------ MODULE UserScriptRunsProofs ------------------------
(***************************************************************************)
(* Machine-checked proofs about UserScriptRuns, for any number of runs,    *)
(* processes, overlapping requests and surviving scopes.                   *)
(***************************************************************************)
EXTENDS UserScriptRuns, FiniteSetTheorems, TLAPS

-----------------------------------------------------------------------------
(* The inductive invariant.                                                *)

\* Only the holder of the lock has requests or runs in hand, and it is alive.
Runner ==
  /\ \A q \in Requests : request[q] # Idle => holder = request[q].proc /\ up[request[q].proc] = "up"
  /\ \A r \in Runs : drive[r] # NotDriven => holder = drive[r].proc
  /\ \A p \in Procs : holder = p => up[p] # "down"

Preparing == {"preparing", "verified"}
Busy == {"begin", "watch", "drain", "record"}

\* One request is prepared or one run is driven at a time: the one in the slot.
Slot ==
  /\ \A q \in Requests : request[q].stage \in Preparing => active[request[q].proc] = request[q].run
  /\ \A r \in Runs : drive[r].at \in Busy => active[drive[r].proc] = r
  /\ \A q, s \in Requests : request[q].stage \in Preparing /\ request[s].stage \in Preparing => q = s
  /\ \A q \in Requests, r \in Runs : ~(request[q].stage \in Preparing /\ drive[r].at \in Busy)

\* What is about to be launched has been compared with the approval.
Compared ==
  /\ \A q \in Requests : request[q].stage = "verified" => staging[request[q].run] # "altered"
  /\ \A r \in Runs : drive[r].at = "begin" => staging[r] # "altered"
  /\ \A r \in Runs : ran[r] # "altered"

\* Row, drive and sandbox of a run.
Rows ==
  \A r \in Runs :
    /\ drive[r].at \in Busy => status[r] = "running" /\ r \notin broken
    /\ drive[r].at = "drain" => r \in survived
    /\ r \notin broken \cup survived =>
         /\ status[r] = "running" => drive[r].at \in Busy
         /\ r \in sandbox => drive[r].at = "watch"
    /\ r \in broken => status[r] \in Final \cup {"running"}

\* Its files and Artifacts.
Outputs ==
  \A r \in Runs :
    /\ r \in rows <=> status[r] = "succeeded"
    /\ r \in rows => r \in files
    /\ r \in files \ (rows \cup broken) => drive[r].at = "record"
    /\ drive[r].at \in {"begin", "watch", "drain"} => r \notin files
    /\ drive[r].at = "record" => (drive[r].end = "succeeded" <=> r \in files)

\* Until a scope could not be stopped, what has processes waits for its end
\* under the runner, or for the next runner.
Scopes ==
  survived = {} => \A r \in sandbox : status[r] = "running" /\ (holder # None => drive[r].at = "watch")

IInv == TypeOK /\ Runner /\ Slot /\ Compared /\ Rows /\ Outputs /\ Scopes

-----------------------------------------------------------------------------
(* The records.                                                            *)

LEMMA DriveParts ==
  /\ NotDriven.at = "none" /\ NotDriven \in Drives
  /\ \A d \in Drives : d.at \in {"none", "begin", "watch", "cleanup", "drain", "record"}
  /\ \A d \in Drives : d.at # "none" => d # NotDriven /\ d.proc \in Procs
  /\ \A d \in Drives : d # NotDriven => d.at # "none"
  /\ \A d \in Drives : d.at = "record" => d.end \in Final
  /\ \A d \in Drives : d.at = "drain" => d.reason \in {"none", "limit", "cancelled"}
BY DEF Drives, NotDriven

LEMMA RequestParts ==
  /\ Idle.stage = "idle" /\ Idle \in Executions
  /\ \A x \in Executions : x.stage \in {"idle", "preparing", "verified", "undo"}
  /\ \A x \in Executions : x.stage # "idle" => x # Idle /\ x.run \in Runs /\ x.proc \in Procs
  /\ \A x \in Executions : x # Idle => x.stage # "idle"
BY DEF Executions, Idle

\* A request goes to another stage.
Turns(q, stage) == request' = [request EXCEPT ![q].stage = stage]

LEMMA TurnsTo ==
  ASSUME TypeOK, NEW q \in Requests, request[q].stage # "idle", NEW stage \in {"verified", "undo"}, Turns(q, stage)
  PROVE  /\ request' \in [Requests -> Executions] /\ \A s \in Requests : s # q => request'[s] = request[s]
         /\ request'[q].stage = stage /\ request'[q].run = request[q].run /\ request'[q].proc = request[q].proc
<1> DEFINE x == request[q]
           n == [x EXCEPT !.stage = stage]
<1>1. x \in Executions /\ x.stage # "idle"
  BY DEF TypeOK
<1>2. request' = [request EXCEPT ![q] = n]
  BY DEF Turns, TypeOK
<1>3. n \in Executions /\ n.stage = stage /\ n.run = x.run /\ n.proc = x.proc
  <2> HIDE DEF x
  <2>1. x \in [stage: {"preparing", "verified", "undo"}, run: Runs, proc: Procs]
    BY <1>1 DEF Executions, Idle
  <2> QED
    BY <2>1 DEF Executions
<1> HIDE DEF n
<1>4. request'[q] = n /\ request' \in [Requests -> Executions] /\ \A s \in Requests : s # q => request'[s] = request[s]
  BY <1>2, <1>3 DEF TypeOK
<1> QED
  BY <1>3, <1>4

\* Giving up frees the slot and leaves the directory to be removed.
LEMMA GivesUp ==
  ASSUME TypeOK, NEW q \in Requests, request[q].stage # "idle", GiveUp(q)
  PROVE  /\ request' \in [Requests -> Executions] /\ \A s \in Requests : s # q => request'[s] = request[s]
         /\ request'[q].stage = "undo" /\ request'[q].run = request[q].run /\ request'[q].proc = request[q].proc
         /\ active' = [active EXCEPT ![request[q].proc] = None]
<1>1. Turns(q, "undo") /\ active' = [active EXCEPT ![request[q].proc] = None]
  BY DEF GiveUp, Turns
<1> QED
  BY <1>1, TurnsTo

\* Where the drive of a run goes.
LEMMA Going ==
  ASSUME TypeOK, NEW r \in Runs, NEW to \in {"watch", "cleanup"}, drive[r].at # "none", Goes(r, to)
  PROVE  /\ drive' \in [Runs -> Drives] /\ \A s \in Runs : s # r => drive'[s] = drive[s]
         /\ drive'[r].at = to /\ drive'[r].proc = drive[r].proc
<1> DEFINE n == [at |-> to, proc |-> drive[r].proc]
<1>1. drive[r].proc \in Procs
  BY DriveParts DEF TypeOK
<1>2. n \in Drives /\ n.at = to /\ n.proc = drive[r].proc
  BY <1>1 DEF Drives
<1>3. drive' = [drive EXCEPT ![r] = n]
  BY DEF Goes
<1> HIDE DEF n
<1> QED
  BY <1>2, <1>3 DEF TypeOK

LEMMA Ending ==
  ASSUME TypeOK, NEW r \in Runs, NEW end \in Final, drive[r].at # "none", Ends(r, end)
  PROVE  /\ drive' \in [Runs -> Drives] /\ \A s \in Runs : s # r => drive'[s] = drive[s]
         /\ drive'[r].at = "record" /\ drive'[r].proc = drive[r].proc /\ drive'[r].end = end
<1> DEFINE n == [at |-> "record", proc |-> drive[r].proc, end |-> end]
<1>1. drive[r].proc \in Procs
  BY DriveParts DEF TypeOK
<1>2. n \in Drives /\ n.at = "record" /\ n.proc = drive[r].proc /\ n.end = end
  BY <1>1 DEF Drives
<1>3. drive' = [drive EXCEPT ![r] = n]
  BY DEF Ends
<1> HIDE DEF n
<1> QED
  BY <1>2, <1>3 DEF TypeOK

\* A finished run succeeds with its files, or fails without.
LEMMA Finishing ==
  ASSUME TypeOK, NEW r \in Runs, NEW reason \in {"none", "limit", "cancelled"}, drive[r].at # "none",
         Finish(r, reason)
  PROVE  /\ drive' \in [Runs -> Drives] /\ \A s \in Runs : s # r => drive'[s] = drive[s]
         /\ drive'[r].at = "record" /\ drive'[r].proc = drive[r].proc
         /\ \/ drive'[r].end = "succeeded" /\ files' = files \cup {r}
            \/ drive'[r].end # "succeeded" /\ files' = files
<1>1. CASE reason = "none" /\ staging[r] # "none"
  <2>1. Ends(r, "succeeded") /\ files' = files \cup {r}
    BY <1>1 DEF Finish
  <2>2. "succeeded" \in Final
    BY DEF Final
  <2> QED
    BY <2>1, <2>2, Ending
<1>2. CASE ~(reason = "none" /\ staging[r] # "none")
  <2> DEFINE end == StatusOf(reason)
  <2>1. Ends(r, end) /\ files' = files
    BY <1>2 DEF Finish
  <2>2. end \in Final /\ end # "succeeded"
    BY DEF StatusOf, Final
  <2> HIDE DEF end
  <2> QED
    BY <2>1, <2>2, Ending
<1> QED
  BY <1>1, <1>2

-----------------------------------------------------------------------------
LEMMA IInvInit == Init => IInv
<1> SUFFICES ASSUME Init PROVE IInv
  OBVIOUS
<1>1. TypeOK
  BY DriveParts, RequestParts DEF Init, TypeOK
<1>2. Runner /\ Slot /\ Compared
  BY NoneAssumption, DriveParts, RequestParts DEF Init, Runner, Slot, Compared, Preparing, Busy
<1>3. Rows /\ Outputs /\ Scopes
  BY DriveParts DEF Init, Rows, Outputs, Scopes, Busy
<1> QED
  BY <1>1, <1>2, <1>3 DEF IInv

-----------------------------------------------------------------------------
(* Users.                                                                  *)

LEMMA AskKeeps ==
  ASSUME IInv, NEW r \in Runs, Ask(r)
  PROVE  IInv'
<1> USE DEF IInv
<1>1. /\ UNCHANGED <<up, holder, active, asked, request, staging, sandbox, drive, files, rows, ran, survived, broken>>
      /\ status[r] \in {"absent", "pending_approval", "approved"}
      /\ status' \in [Runs -> Final \cup {"absent", "pending_approval", "approved", "running"}]
      /\ status'[r] # "running" /\ status'[r] # "succeeded"
      /\ \A s \in Runs : s # r => status'[s] = status[s]
      /\ altered' \in SUBSET Runs
  BY DEF Ask, Preview, Approve, CancelEarly, Alter, SetStatus, NotStarted, envVars, histories, TypeOK, Final
<1>2. TypeOK'
  BY <1>1 DEF TypeOK
<1>3. Runner' /\ Slot' /\ Compared'
  BY <1>1 DEF Runner, Slot, Compared
<1>4. Rows'
  BY <1>1 DEF Rows, Final
<1>5. Outputs'
  BY <1>1 DEF Outputs
<1>6. Scopes'
  BY <1>1 DEF Scopes, TypeOK
<1> QED
  BY <1>2, <1>3, <1>4, <1>5, <1>6

LEMMA CancelRunningKeeps ==
  ASSUME IInv, NEW p \in Procs, NEW r \in Runs, CancelRunning(p, r)
  PROVE  IInv'
<1> USE DEF IInv
<1>1. /\ UNCHANGED <<status, altered, up, holder, active, request, staging, sandbox, drive, files, rows, ran, survived,
                     broken>>
      /\ asked' \in SUBSET Runs
  BY DEF CancelRunning, rowVars, envVars, histories, TypeOK
<1>2. TypeOK'
  BY <1>1 DEF TypeOK
<1> QED
  BY <1>1, <1>2 DEF Runner, Slot, Compared, Rows, Outputs, Scopes

-----------------------------------------------------------------------------
(* Requests.                                                               *)

LEMMA ExecuteKeeps ==
  ASSUME IInv, NEW q \in Requests, NEW p \in Procs, NEW r \in Runs, Execute(q, p, r)
  PROVE  IInv'
<1> USE DEF IInv
<1> DEFINE n == [stage |-> "preparing", run |-> r, proc |-> p]
<1>1. /\ up[p] = "up" /\ request[q] = Idle /\ holder = p /\ active[p] = None
      /\ active' = [active EXCEPT ![p] = r] /\ request' = [request EXCEPT ![q] = n]
      /\ UNCHANGED <<status, altered, up, holder, asked, staging, sandbox, drive, files, rows, ran, survived, broken>>
  BY DEF Execute, IsRunner, rowVars, envVars, histories
<1>2. n \in Executions /\ n.stage = "preparing" /\ n.run = r /\ n.proc = p
  BY DEF Executions
<1> HIDE DEF n
<1>3. /\ request' \in [Requests -> Executions] /\ active' \in [Procs -> Runs \cup {None}]
      /\ request'[q] = n /\ \A s \in Requests : s # q => request'[s] = request[s]
      /\ active'[p] = r
  BY <1>1, <1>2 DEF TypeOK
<1>4. TypeOK'
  BY <1>1, <1>3 DEF TypeOK
<1>5. Runner'
  BY <1>1, <1>2, <1>3 DEF Runner
<1>6. \A s \in Requests : request[s].stage \notin Preparing
  BY <1>1, NoneAssumption, RequestParts DEF Slot, Runner, TypeOK, Preparing
<1>7. \A s \in Runs : drive[s].at \notin Busy
  BY <1>1, NoneAssumption, DriveParts DEF Slot, Runner, TypeOK, Busy
<1>8. Slot'
  BY <1>1, <1>2, <1>3, <1>6, <1>7 DEF Slot
<1>9. Compared'
  BY <1>1, <1>2, <1>3 DEF Compared
<1>10. Rows' /\ Outputs' /\ Scopes'
  BY <1>1 DEF Rows, Outputs, Scopes
<1> QED
  BY <1>4, <1>5, <1>8, <1>9, <1>10

\* A request that gives up keeps the invariant, whatever it has staged for its run.
LEMMA GivingUpKeeps ==
  ASSUME IInv, NEW q \in Requests, request[q].stage \in Preparing, GiveUp(q),
         UNCHANGED <<status, altered, up, holder, asked, sandbox, drive, files, rows, ran, survived, broken>>,
         staging' \in [Runs -> {"none", "approved", "altered"}]
  PROVE  IInv'
<1> USE DEF IInv
<1>1. request[q].stage # "idle" /\ request[q].proc \in Procs
  BY RequestParts DEF Preparing, TypeOK
<1>2. /\ request' \in [Requests -> Executions] /\ \A s \in Requests : s # q => request'[s] = request[s]
      /\ request'[q].stage = "undo" /\ request'[q].run = request[q].run /\ request'[q].proc = request[q].proc
      /\ active' = [active EXCEPT ![request[q].proc] = None]
  BY <1>1, GivesUp
<1>3. \A s \in Requests : request'[s].stage \notin Preparing
  BY <1>2 DEF Slot, Preparing
<1>4. \A r \in Runs : drive[r].at \notin Busy
  BY DEF Slot
<1>5. TypeOK'
  <2>1. active' \in [Procs -> Runs \cup {None}]
    BY <1>2 DEF TypeOK
  <2> QED
    BY <1>2, <2>1 DEF TypeOK
<1>6. Runner'
  BY <1>1, <1>2, RequestParts DEF Runner, TypeOK
<1>7. Slot'
  BY <1>3, <1>4 DEF Slot
<1>8. Compared'
  BY <1>3, <1>4 DEF Compared, Preparing, Busy
<1>9. Rows' /\ Outputs' /\ Scopes'
  BY DEF Rows, Outputs, Scopes
<1> QED
  BY <1>5, <1>6, <1>7, <1>8, <1>9

LEMMA StageKeeps ==
  ASSUME IInv, NEW q \in Requests, Stage(q)
  PROVE  IInv'
<1> DEFINE r == request[q].run
<1>1. /\ request[q].stage = "preparing" /\ staging' = [staging EXCEPT ![r] = Staged(r)]
      /\ UNCHANGED <<status, altered, up, holder, asked, sandbox, drive, files, rows, ran, survived, broken>>
      /\ \/ Staged(r) = "approved" /\ Turns(q, "verified") /\ UNCHANGED active
         \/ GiveUp(q)
  BY DEF Stage, Verified, Turns, rowVars, envVars, histories
<1>2. r \in Runs /\ Staged(r) \in {"approved", "altered"}
  BY <1>1, RequestParts DEF IInv, TypeOK, Staged
<1>3. staging' \in [Runs -> {"none", "approved", "altered"}]
  BY <1>1, <1>2 DEF IInv, TypeOK
<1>4. CASE GiveUp(q)
  BY <1>1, <1>3, <1>4, GivingUpKeeps DEF Preparing
<1>5. CASE Staged(r) = "approved" /\ Turns(q, "verified") /\ UNCHANGED active
  <2> USE DEF IInv
  <2>1. /\ request' \in [Requests -> Executions] /\ \A s \in Requests : s # q => request'[s] = request[s]
        /\ request'[q].stage = "verified" /\ request'[q].run = r /\ request'[q].proc = request[q].proc
    BY <1>1, <1>5, TurnsTo
  <2>2. staging'[r] = "approved"
    BY <1>1, <1>2, <1>5 DEF TypeOK
  <2>3. TypeOK'
    BY <1>1, <1>3, <1>5, <2>1 DEF TypeOK
  <2>4. request[q] # Idle
    BY <1>1, RequestParts
  <2>5. Runner'
    BY <1>1, <2>1, <2>4 DEF Runner
  <2>6. Slot'
    BY <1>1, <1>5, <2>1 DEF Slot, Preparing
  <2>7. \A s \in Requests : request'[s].stage = "verified" => s = q
    BY <1>1, <2>1 DEF Slot, Preparing
  <2>8. \A s \in Runs : drive[s].at # "begin"
    BY <1>1 DEF Slot, Preparing, Busy
  <2>9. Compared'
    BY <1>1, <2>1, <2>2, <2>7, <2>8 DEF Compared
  <2>10. Rows' /\ Outputs' /\ Scopes'
    BY <1>1 DEF Rows, Outputs, Scopes
  <2> QED
    BY <2>3, <2>5, <2>6, <2>9, <2>10
<1> QED
  BY <1>1, <1>4, <1>5

LEMMA RejectKeeps ==
  ASSUME IInv, NEW q \in Requests, Reject(q) \/ StartFails(q)
  PROVE  IInv'
<1>1. /\ request[q].stage \in Preparing /\ GiveUp(q)
      /\ UNCHANGED <<status, altered, up, holder, asked, sandbox, drive, files, rows, ran, survived, broken, staging>>
  BY DEF Reject, StartFails, Preparing, rowVars, envVars, histories
<1>2. staging' \in [Runs -> {"none", "approved", "altered"}]
  BY <1>1 DEF IInv, TypeOK
<1> QED
  BY <1>1, <1>2, GivingUpKeeps

LEMMA UndoKeeps ==
  ASSUME IInv, NEW q \in Requests, Undo(q)
  PROVE  IInv'
<1> USE DEF IInv
<1>1. /\ request[q].stage = "undo" /\ staging' = [staging EXCEPT ![request[q].run] = "none"]
      /\ request' = [request EXCEPT ![q] = Idle]
      /\ UNCHANGED <<status, altered, up, holder, active, asked, sandbox, drive, files, rows, ran, survived, broken>>
  BY DEF Undo, rowVars, envVars, histories
<1>2. /\ request' \in [Requests -> Executions] /\ \A s \in Requests : s # q => request'[s] = request[s]
      /\ request'[q] = Idle /\ staging' \in [Runs -> {"none", "approved", "altered"}]
      /\ \A r \in Runs : staging'[r] # "altered" \/ staging'[r] = staging[r]
  BY <1>1, RequestParts DEF TypeOK
<1>3. TypeOK'
  BY <1>1, <1>2 DEF TypeOK
<1>4. Runner'
  BY <1>1, <1>2 DEF Runner
<1>5. Slot'
  BY <1>1, <1>2, RequestParts DEF Slot, Preparing
<1>6. Compared'
  <2>1. \A s \in Requests : request'[s].stage = "verified" => staging'[request'[s].run] # "altered"
    BY <1>1, <1>2, RequestParts DEF Compared, TypeOK
  <2> QED
    BY <1>1, <1>2, <2>1 DEF Compared
<1>7. Rows' /\ Outputs' /\ Scopes'
  BY <1>1 DEF Rows, Outputs, Scopes
<1> QED
  BY <1>3, <1>4, <1>5, <1>6, <1>7

LEMMA StartKeeps ==
  ASSUME IInv, NEW q \in Requests, Start(q)
  PROVE  IInv'
<1> USE DEF IInv
<1> DEFINE r == request[q].run
           n == [at |-> "begin", proc |-> request[q].proc]
<1>1. /\ request[q].stage = "verified" /\ status[r] = "approved"
      /\ status' = [status EXCEPT ![r] = "running"] /\ drive' = [drive EXCEPT ![r] = n]
      /\ request' = [request EXCEPT ![q] = Idle]
      /\ UNCHANGED <<altered, up, holder, active, asked, staging, sandbox, files, rows, ran, survived, broken>>
  BY DEF Start, MayRun, envVars, histories
<1>2. r \in Runs /\ request[q].proc \in Procs /\ request[q] # Idle
  BY <1>1, RequestParts DEF TypeOK
<1>3. n \in Drives /\ n.at = "begin" /\ n.proc = request[q].proc /\ n # NotDriven
  BY <1>2 DEF Drives, NotDriven
<1> HIDE DEF n
<1>4. /\ request' \in [Requests -> Executions] /\ \A s \in Requests : s # q => request'[s] = request[s]
      /\ request'[q] = Idle
      /\ drive' \in [Runs -> Drives] /\ \A s \in Runs : s # r => drive'[s] = drive[s]
      /\ drive'[r] = n
      /\ status' \in [Runs -> Final \cup {"absent", "pending_approval", "approved", "running"}]
      /\ \A s \in Runs : s # r => status'[s] = status[s]
      /\ status'[r] = "running"
  BY <1>1, <1>2, <1>3, RequestParts DEF TypeOK
<1>5. \A s \in Runs : drive[s].at \notin Busy
  BY <1>1 DEF Slot, Preparing
<1>6. \A s \in Requests : request'[s].stage \notin Preparing
  BY <1>1, <1>4, RequestParts DEF Slot, Preparing
<1>7. TypeOK'
  BY <1>1, <1>4 DEF TypeOK
<1>8. Runner'
  BY <1>1, <1>2, <1>3, <1>4 DEF Runner
<1>9. active[request[q].proc] = r
  BY <1>1 DEF Slot, Preparing
<1>10. Slot'
  BY <1>1, <1>3, <1>4, <1>5, <1>6, <1>9 DEF Slot
<1>11. Compared'
  BY <1>1, <1>3, <1>4, <1>6 DEF Compared, Preparing
<1>12. r \notin broken /\ r \notin files
  <2>1. r \notin broken
    BY <1>1, <1>2 DEF Rows, Final
  <2> QED
    BY <1>1, <1>2, <1>5, <2>1 DEF Outputs, Busy
<1>13. Rows'
  <2>1. r \notin broken \cup survived => r \notin sandbox
    BY <1>2, <1>5 DEF Rows, Busy
  <2> QED
    BY <1>1, <1>2, <1>3, <1>4, <1>12, <2>1 DEF Rows, Busy
<1>14. Outputs'
  BY <1>1, <1>2, <1>3, <1>4, <1>12 DEF Outputs
<1>15. Scopes'
  BY <1>1, <1>2, <1>4 DEF Scopes
<1> QED
  BY <1>7, <1>8, <1>10, <1>11, <1>13, <1>14, <1>15

-----------------------------------------------------------------------------
(* The drive of a run.                                                     *)

\* Whoever drives a run is the runner.
LEMMA DrivenByRunner ==
  ASSUME IInv, NEW r \in Runs, drive[r].at # "none"
  PROVE  drive[r] # NotDriven /\ drive[r].proc \in Procs /\ holder = drive[r].proc /\ holder # None
BY DriveParts, NoneAssumption DEF IInv, TypeOK, Runner

\* A drive that goes on in the slot keeps the invariant, if what it leaves of
\* sandbox and files fits where it is.
LEMMA DrivingKeeps ==
  ASSUME IInv, NEW r \in Runs, drive[r].at \in Busy,
         drive' \in [Runs -> Drives], \A s \in Runs : s # r => drive'[s] = drive[s],
         drive'[r].at \in {"watch", "drain", "record"}, drive'[r].proc = drive[r].proc,
         UNCHANGED <<status, rows, altered, up, holder, active, asked, request, staging, broken>>,
         ran' \in [Runs -> {"none", "approved", "altered"}], \A s \in Runs : ran'[s] # "altered",
         survived \subseteq survived', survived' \subseteq survived \cup {r},
         drive'[r].at = "drain" => r \in survived',
         sandbox' \subseteq sandbox \cup {r},
         drive'[r].at # "watch" /\ r \notin survived' => r \notin sandbox',
         files \subseteq files', files' \subseteq files \cup {r},
         drive'[r].at \in {"watch", "drain"} => r \notin files',
         drive'[r].at = "record" => (drive'[r].end = "succeeded" <=> r \in files')
  PROVE  IInv'
<1> USE DEF IInv
<1>1. drive[r] # NotDriven /\ drive[r].proc \in Procs /\ holder = drive[r].proc /\ holder # None
  BY DrivenByRunner, DriveParts DEF Busy
<1>2. TypeOK'
  BY DEF TypeOK
<1>3. Runner'
  BY <1>1 DEF Runner
<1>4. Slot'
  BY DEF Slot, Busy
<1>5. Compared'
  BY DEF Compared
<1>6. Rows'
  BY DEF Rows, Busy
<1>7. Outputs'
  BY DEF Outputs, Rows
<1>8. Scopes'
  BY <1>1 DEF Scopes, Rows, TypeOK
<1> QED
  BY <1>2, <1>3, <1>4, <1>5, <1>6, <1>7, <1>8

LEMMA LaunchKeeps ==
  ASSUME IInv, NEW r \in Runs, Launch(r)
  PROVE  IInv'
<1>1. /\ drive[r].at = "begin" /\ sandbox' = sandbox \cup {r} /\ ran' = [ran EXCEPT ![r] = staging[r]] /\ Goes(r, "watch")
      /\ UNCHANGED <<status, rows, altered, up, holder, active, asked, request, staging, files, survived, broken>>
  BY DEF Launch, rowVars, envVars
<1>2. /\ drive' \in [Runs -> Drives] /\ \A s \in Runs : s # r => drive'[s] = drive[s]
      /\ drive'[r].at = "watch" /\ drive'[r].proc = drive[r].proc
  BY <1>1, Going DEF IInv
<1>3. ran' \in [Runs -> {"none", "approved", "altered"}] /\ \A s \in Runs : ran'[s] # "altered"
  BY <1>1 DEF IInv, TypeOK, Compared
<1>4. r \notin files
  BY <1>1 DEF IInv, Outputs
<1> QED
  BY <1>1, <1>2, <1>3, <1>4, DrivingKeeps DEF Busy

\* A run that ends without files.
LEMMA LaunchFailsKeeps ==
  ASSUME IInv, NEW r \in Runs, LaunchFails(r)
  PROVE  IInv'
<1>1. /\ drive[r].at = "begin" /\ Ends(r, "failed")
      /\ UNCHANGED <<status, rows, altered, up, holder, active, asked, request, staging, sandbox, files, ran, survived,
                     broken>>
  BY DEF LaunchFails, rowVars, envVars, histories
<1>2. "failed" \in Final
  BY DEF Final
<1>3. /\ drive' \in [Runs -> Drives] /\ \A s \in Runs : s # r => drive'[s] = drive[s]
      /\ drive'[r].at = "record" /\ drive'[r].proc = drive[r].proc /\ drive'[r].end = "failed"
  BY <1>1, <1>2, Ending DEF IInv
<1>4. ran' \in [Runs -> {"none", "approved", "altered"}] /\ \A s \in Runs : ran'[s] # "altered"
  BY <1>1 DEF IInv, TypeOK, Compared
<1>5. r \notin files
  BY <1>1 DEF IInv, Outputs
<1>6. r \notin survived => r \notin sandbox
  BY <1>1 DEF IInv, Rows, Busy
<1> QED
  BY <1>1, <1>3, <1>4, <1>5, <1>6, DrivingKeeps DEF Busy

\* Both ways to finish: the scope is stopped, or has survived and been drained.
LEMMA FinishingKeeps ==
  ASSUME IInv, NEW r \in Runs, NEW reason \in {"none", "limit", "cancelled"}, drive[r].at \in {"watch", "drain"},
         Finish(r, reason), sandbox' \subseteq sandbox, r \notin survived => r \notin sandbox',
         UNCHANGED <<status, rows, altered, up, holder, active, asked, request, staging, ran, survived, broken>>
  PROVE  IInv'
<1>1. /\ drive' \in [Runs -> Drives] /\ \A s \in Runs : s # r => drive'[s] = drive[s]
      /\ drive'[r].at = "record" /\ drive'[r].proc = drive[r].proc
      /\ \/ drive'[r].end = "succeeded" /\ files' = files \cup {r}
         \/ drive'[r].end # "succeeded" /\ files' = files
  BY Finishing DEF IInv
<1>2. r \notin files
  BY DEF IInv, Outputs
<1>3. ran' \in [Runs -> {"none", "approved", "altered"}] /\ \A s \in Runs : ran'[s] # "altered"
  BY DEF IInv, TypeOK, Compared
<1> QED
  BY <1>1, <1>2, <1>3, DrivingKeeps DEF Busy

LEMMA WatchedKeeps ==
  ASSUME IInv, NEW r \in Runs, Watched(r)
  PROVE  IInv'
<1>1. /\ drive[r].at = "watch" /\ sandbox' = sandbox \ {r}
      /\ UNCHANGED <<status, rows, altered, up, holder, active, asked, request, staging, ran, survived, broken>>
  BY DEF Watched, AfterStop, rowVars, envVars, histories
<1>2. PICK reason \in Reasons(r) : Finish(r, reason)
  BY DEF Watched
<1>3. reason \in {"none", "limit", "cancelled"}
  BY DEF Reasons
<1> QED
  BY <1>1, <1>2, <1>3, FinishingKeeps

LEMMA DrainedKeeps ==
  ASSUME IInv, NEW r \in Runs, Drained(r)
  PROVE  IInv'
<1>1. /\ drive[r].at = "drain" /\ Finish(r, drive[r].reason)
      /\ UNCHANGED <<status, rows, altered, up, holder, active, asked, request, staging, sandbox, ran, survived, broken>>
  BY DEF Drained, rowVars, envVars, histories
<1> DEFINE reason == drive[r].reason
<1>2. reason \in {"none", "limit", "cancelled"}
  BY <1>1, DriveParts DEF IInv, TypeOK
<1>3. r \in survived
  BY <1>1 DEF IInv, Rows
<1>4. Finish(r, reason)
  BY <1>1
<1> HIDE DEF reason
<1> QED
  BY <1>1, <1>2, <1>3, <1>4, FinishingKeeps

LEMMA StopFailsKeeps ==
  ASSUME IInv, NEW r \in Runs, StopFails(r)
  PROVE  IInv'
<1>1. /\ drive[r].at = "watch" /\ survived' = survived \cup {r}
      /\ UNCHANGED <<status, rows, altered, up, holder, active, asked, request, staging, sandbox, files, ran, broken>>
  BY DEF StopFails, rowVars, envVars
<1>2. PICK reason \in Reasons(r) :
        drive' = [drive EXCEPT ![r] = [at |-> "drain", proc |-> drive[r].proc, reason |-> reason]]
  BY DEF StopFails
<1> DEFINE n == [at |-> "drain", proc |-> drive[r].proc, reason |-> reason]
<1>3. reason \in {"none", "limit", "cancelled"} /\ drive[r].proc \in Procs
  BY <1>1, DriveParts DEF Reasons, IInv, TypeOK
<1>4. n \in Drives /\ n.at = "drain" /\ n.proc = drive[r].proc
  BY <1>3 DEF Drives
<1>5. drive' = [drive EXCEPT ![r] = n]
  BY <1>2
<1> HIDE DEF n
<1>6. /\ drive' \in [Runs -> Drives] /\ \A s \in Runs : s # r => drive'[s] = drive[s]
      /\ drive'[r].at = "drain" /\ drive'[r].proc = drive[r].proc
  BY <1>4, <1>5 DEF IInv, TypeOK
<1>7. r \notin files
  BY <1>1 DEF IInv, Outputs
<1>8. ran' \in [Runs -> {"none", "approved", "altered"}] /\ \A s \in Runs : ran'[s] # "altered"
  BY <1>1 DEF IInv, TypeOK, Compared
<1> QED
  BY <1>1, <1>6, <1>7, <1>8, DrivingKeeps DEF Busy

\* A recorded run is out of the slot.
LEMMA ReleasingKeeps ==
  ASSUME IInv, NEW r \in Runs, drive[r].at = "record", Release(r),
         UNCHANGED <<altered, up, holder, request, staging, sandbox, files, ran, survived>>,
         status' \in [Runs -> Final \cup {"absent", "pending_approval", "approved", "running"}],
         \A s \in Runs : s # r => status'[s] = status[s],
         rows \subseteq rows', rows' \subseteq rows \cup {r}, broken \subseteq broken', broken' \subseteq broken \cup {r},
         status'[r] \in Final \/ (r \in broken' /\ status'[r] = "running"),
         r \in rows' <=> status'[r] = "succeeded", r \in rows' => r \in files, r \in files => r \in rows' \cup broken'
  PROVE  IInv'
<1> USE DEF IInv
<1>1. drive[r] # NotDriven /\ drive[r].proc \in Procs /\ holder = drive[r].proc /\ holder # None
  BY DrivenByRunner
<1>2. /\ drive' \in [Runs -> Drives] /\ \A s \in Runs : s # r => drive'[s] = drive[s]
      /\ drive'[r].at = "cleanup" /\ drive'[r].proc = drive[r].proc
  <2>1. Goes(r, "cleanup") /\ drive[r].at # "none"
    BY DEF Release
  <2> QED
    BY <2>1, Going
<1>3. active' \in [Procs -> Runs \cup {None}] /\ asked' \in SUBSET Runs
  BY <1>1 DEF Release, AfterDrive, Free, TypeOK
<1>4. TypeOK'
  BY <1>2, <1>3 DEF TypeOK
<1>5. Runner'
  BY <1>1, <1>2 DEF Runner
<1>6. \A s \in Runs : drive'[s].at \notin Busy
  BY <1>1, <1>2, DriveParts DEF Slot, Busy, Runner, TypeOK
<1>7. \A q \in Requests : request[q].stage \notin Preparing
  BY DEF Slot, Busy
<1>8. Slot'
  BY <1>6, <1>7 DEF Slot
<1>9. Compared'
  BY <1>2 DEF Compared
<1>10. Rows'
  <2>1. r \notin broken \cup survived => r \notin sandbox
    BY DEF Rows
  <2>2. \A s \in Runs : s # r => drive'[s] = drive[s] /\ status'[s] = status[s] /\ (s \in broken' <=> s \in broken)
    BY <1>2
  <2> QED
    BY <1>2, <1>6, <2>1, <2>2 DEF Rows, Busy, Final
<1>11. Outputs'
  BY <1>2 DEF Outputs
<1>12. Scopes'
  BY <1>1, <1>2 DEF Scopes, TypeOK
<1> QED
  BY <1>4, <1>5, <1>8, <1>9, <1>10, <1>11, <1>12

LEMMA RecordKeeps ==
  ASSUME IInv, NEW r \in Runs, Record(r)
  PROVE  IInv'
<1>1. /\ drive[r].at = "record" /\ status' = [status EXCEPT ![r] = drive[r].end] /\ rows' = RowsOf(r) /\ Release(r)
      /\ UNCHANGED <<altered, up, holder, request, staging, sandbox, files, ran, survived, broken>>
  BY DEF Record, envVars
<1>2. drive[r].end \in Final
  BY <1>1, DriveParts DEF IInv, TypeOK
<1>3. /\ status' \in [Runs -> Final \cup {"absent", "pending_approval", "approved", "running"}]
      /\ \A s \in Runs : s # r => status'[s] = status[s]
      /\ status'[r] = drive[r].end
  BY <1>1, <1>2 DEF IInv, TypeOK
<1>4. status[r] = "running" /\ r \notin rows /\ (drive[r].end = "succeeded" <=> r \in files)
  BY <1>1 DEF IInv, Rows, Outputs, Busy
<1>5. /\ rows \subseteq rows' /\ rows' \subseteq rows \cup {r}
      /\ r \in rows' <=> status'[r] = "succeeded"
      /\ r \in rows' => r \in files
      /\ r \in files => r \in rows'
  BY <1>1, <1>3, <1>4 DEF RowsOf
<1> QED
  BY <1>1, <1>2, <1>3, <1>5, ReleasingKeeps

LEMMA RecordFailsKeeps ==
  ASSUME IInv, NEW r \in Runs, RecordFails(r)
  PROVE  IInv'
<1>1. /\ drive[r].at = "record" /\ broken' = broken \cup {r} /\ status' \in {status, [status EXCEPT ![r] = "failed"]}
      /\ Release(r)
      /\ UNCHANGED <<rows, altered, up, holder, request, staging, sandbox, files, ran, survived>>
  BY DEF RecordFails, envVars
<1>2. status[r] = "running" /\ r \notin rows
  BY <1>1 DEF IInv, Rows, Outputs, Busy
<1>3. /\ status' \in [Runs -> Final \cup {"absent", "pending_approval", "approved", "running"}]
      /\ \A s \in Runs : s # r => status'[s] = status[s]
      /\ status'[r] \in {"running", "failed"}
  BY <1>1, <1>2 DEF IInv, TypeOK, Final
<1> QED
  BY <1>1, <1>2, <1>3, ReleasingKeeps DEF Final

LEMMA CleanupKeeps ==
  ASSUME IInv, NEW r \in Runs, Cleanup(r)
  PROVE  IInv'
<1> USE DEF IInv
<1>1. /\ drive[r].at = "cleanup" /\ staging' = [staging EXCEPT ![r] = "none"]
      /\ drive' = [drive EXCEPT ![r] = NotDriven]
      /\ UNCHANGED <<status, rows, altered, up, holder, active, asked, request, sandbox, files, ran, survived, broken>>
  BY DEF Cleanup, rowVars, envVars, histories
<1>2. /\ drive' \in [Runs -> Drives] /\ \A s \in Runs : s # r => drive'[s] = drive[s]
      /\ drive'[r] = NotDriven /\ drive'[r].at = "none"
      /\ staging' \in [Runs -> {"none", "approved", "altered"}]
      /\ \A s \in Runs : staging'[s] # "altered" \/ staging'[s] = staging[s]
  BY <1>1, DriveParts DEF TypeOK
<1>3. TypeOK'
  BY <1>1, <1>2 DEF TypeOK
<1>4. Runner'
  BY <1>1, <1>2 DEF Runner
<1>5. Slot'
  BY <1>1, <1>2 DEF Slot, Busy
<1>6. Compared'
  <2>1. \A q \in Requests : request[q].stage = "verified" => staging'[request[q].run] # "altered"
    BY <1>1, <1>2, RequestParts DEF Compared, TypeOK
  <2> QED
    BY <1>1, <1>2, <2>1 DEF Compared
<1>7. Rows'
  BY <1>1, <1>2 DEF Rows, Busy
<1>8. Outputs'
  BY <1>1, <1>2 DEF Outputs
<1>9. Scopes'
  <2>1. holder # None
    BY <1>1, DrivenByRunner
  <2> QED
    BY <1>1, <1>2, <2>1 DEF Scopes, TypeOK
<1> QED
  BY <1>3, <1>4, <1>5, <1>6, <1>7, <1>8, <1>9

-----------------------------------------------------------------------------
(* Processes.                                                              *)

\* The runner that starts finds nobody at work.
LEMMA BootKeeps ==
  ASSUME IInv, NEW p \in Procs, Boot(p)
  PROVE  IInv'
<1> USE DEF IInv
<1>1. /\ up[p] = "down" /\ up' = [up EXCEPT ![p] = "up"]
      /\ UNCHANGED <<rows, altered, active, asked, request, drive, files, ran, broken>>
  BY DEF Boot
<1>2. up' \in [Procs -> {"down", "up", "stopping"}] /\ up'[p] = "up" /\ \A o \in Procs : o # p => up'[o] = up[o]
  BY <1>1 DEF TypeOK
<1>3. holder # p
  BY <1>1 DEF Runner
<1>4. CASE holder # None
  <2>1. UNCHANGED <<holder, status, staging, sandbox, survived>>
    BY <1>4 DEF Boot, Recovers
  <2>2. TypeOK'
    BY <1>1, <1>2, <2>1 DEF TypeOK
  <2>3. Runner'
    BY <1>1, <1>2, <1>3, <2>1, RequestParts DEF Runner, TypeOK
  <2>4. Slot' /\ Compared' /\ Rows' /\ Outputs' /\ Scopes'
    BY <1>1, <2>1 DEF Slot, Compared, Rows, Outputs, Scopes
  <2> QED
    BY <2>2, <2>3, <2>4
<1>5. CASE holder = None
  <2>1. PICK left \in SUBSET (Running \cap sandbox) :
          sandbox' = (sandbox \ Running) \cup left /\ survived' = survived \cup left
    BY <1>5 DEF Boot, Recovers
  <2>2. /\ holder' = p
        /\ status' = [r \in Runs |-> IF r \in Running THEN "failed" ELSE status[r]]
        /\ staging' = [r \in Runs |-> IF r \in Running THEN "none" ELSE staging[r]]
    BY <1>5 DEF Boot, Recovers
  <2>3. /\ \A r \in Runs : drive[r] = NotDriven /\ drive[r].at = "none"
        /\ \A q \in Requests : request[q] = Idle /\ request[q].stage = "idle"
    BY <1>5, NoneAssumption, DriveParts, RequestParts DEF Runner, TypeOK
  <2>4. TypeOK'
    <3>1. status' \in [Runs -> Final \cup {"absent", "pending_approval", "approved", "running"}]
      BY <2>2 DEF TypeOK, Final
    <3>2. staging' \in [Runs -> {"none", "approved", "altered"}]
      BY <2>2 DEF TypeOK
    <3>3. sandbox' \in SUBSET Runs /\ survived' \in SUBSET Runs
      BY <2>1 DEF TypeOK, Running
    <3> QED
      BY <1>1, <1>2, <2>2, <3>1, <3>2, <3>3 DEF TypeOK
  <2>5. Runner' /\ Slot'
    BY <1>1, <1>2, <1>3, <2>2, <2>3 DEF Runner, Slot, Preparing, Busy
  <2>6. Compared'
    BY <1>1, <2>3 DEF Compared
  <2>7. Rows'
    BY <1>1, <2>1, <2>2, <2>3 DEF Rows, Busy, Final, Running
  <2>8. Outputs'
    BY <1>1, <2>2, <2>3 DEF Outputs, Running
  <2>9. Scopes'
    <3> SUFFICES ASSUME survived' = {} PROVE sandbox' = {}
      BY DEF Scopes
    <3>1. survived = {} /\ left = {}
      BY <2>1
    <3>2. sandbox \subseteq Running
      BY <3>1 DEF Scopes, Running, TypeOK
    <3> QED
      BY <2>1, <3>1, <3>2
  <2> QED
    BY <2>4, <2>5, <2>6, <2>7, <2>8, <2>9
<1> QED
  BY <1>4, <1>5

\* What a process had in hand goes with it; if it was the runner, that is everything.
LEMMA CrashKeeps ==
  ASSUME IInv, NEW p \in Procs, Crash(p)
  PROVE  IInv'
<1> USE DEF IInv
<1>1. /\ up' = [up EXCEPT ![p] = "down"] /\ holder' = (IF holder = p THEN None ELSE holder)
      /\ active' = [active EXCEPT ![p] = None]
      /\ request' = [q \in Requests |-> IF q \in Handled(p) THEN Idle ELSE request[q]]
      /\ drive' = [r \in Runs |-> IF r \in Driven(p) THEN NotDriven ELSE drive[r]]
      /\ broken' = broken \cup {r \in Driven(p) : drive[r].at # "cleanup"}
      /\ asked' = asked \ Driven(p)
      /\ UNCHANGED <<status, rows, altered, staging, files, ran, survived>>
  BY DEF Crash, rowVars
<1>2. PICK left \in SUBSET (Driven(p) \cap sandbox) : sandbox' = (sandbox \ Driven(p)) \cup left
  BY DEF Crash
<1>3. Driven(p) \subseteq Runs
  BY DEF Driven
<1>4. TypeOK'
  BY <1>1, <1>2, <1>3, DriveParts, RequestParts DEF TypeOK
<1>5. CASE holder # p
  <2>1. Driven(p) = {} /\ Handled(p) = {}
    BY <1>5 DEF Driven, Handled, Runner
  <2>2. /\ request' = request /\ drive' = drive /\ broken' = broken /\ sandbox' = sandbox /\ holder' = holder
        /\ \A o \in Procs : o # p => active'[o] = active[o] /\ up'[o] = up[o]
    BY <1>1, <1>2, <1>5, <2>1 DEF TypeOK
  <2>3. Runner'
    BY <1>1, <1>5, <2>2, RequestParts DEF Runner, TypeOK
  <2>4. /\ \A q \in Requests : request[q].stage \in Preparing => request[q].proc \in Procs /\ request[q].proc # p
        /\ \A r \in Runs : drive[r].at \in Busy => drive[r].proc \in Procs /\ drive[r].proc # p
    BY <1>5, DriveParts, RequestParts DEF Runner, TypeOK, Preparing, Busy
  <2>5. Slot'
    BY <2>2, <2>4 DEF Slot
  <2>6. Compared' /\ Rows' /\ Outputs' /\ Scopes'
    BY <1>1, <2>2 DEF Compared, Rows, Outputs, Scopes
  <2> QED
    BY <1>4, <2>3, <2>5, <2>6
<1>6. CASE holder = p
  <2>1. /\ \A q \in Requests : request'[q] = Idle /\ request'[q].stage = "idle"
        /\ \A r \in Runs : drive'[r] = NotDriven /\ drive'[r].at = "none"
        /\ \A r \in Runs : drive[r].at # "none" => r \in Driven(p)
        /\ holder' = None
    BY <1>1, <1>6, DriveParts, RequestParts DEF Runner, Handled, Driven, TypeOK
  <2>2. Runner' /\ Slot' /\ Compared'
    BY <1>1, <2>1, NoneAssumption DEF Runner, Slot, Compared, Preparing, Busy
  <2>3. \A r \in Runs : r \notin broken' => drive[r].at \in {"none", "cleanup"}
    BY <1>1, <2>1
  <2>4. Rows'
    <3> SUFFICES ASSUME NEW r \in Runs
                 PROVE /\ drive'[r].at \notin Busy /\ drive'[r].at # "drain"
                       /\ r \notin broken' \cup survived' => status'[r] # "running" /\ r \notin sandbox'
                       /\ r \in broken' => status'[r] \in Final \cup {"running"}
      BY DEF Rows
    <3>1. drive'[r].at \notin Busy /\ drive'[r].at # "drain"
      BY <2>1 DEF Busy
    <3>2. ASSUME r \notin broken' \cup survived' PROVE status'[r] # "running" /\ r \notin sandbox'
      <4>1. drive[r].at \in {"none", "cleanup"} /\ r \notin broken \cup survived
        BY <1>1, <2>3, <3>2
      <4> QED
        BY <1>1, <1>2, <4>1 DEF Rows, Busy
    <3>3. ASSUME r \in broken', r \notin broken PROVE status'[r] = "running"
      <4>1. r \in Driven(p) /\ drive[r].at # "cleanup"
        BY <1>1, <3>3
      <4>2. drive[r].at \in Busy
        BY <4>1, DriveParts DEF Driven, Busy, TypeOK
      <4> QED
        BY <1>1, <4>2 DEF Rows
    <3> QED
      BY <1>1, <3>1, <3>2, <3>3 DEF Rows
  <2>5. Outputs'
    <3>1. \A r \in Runs : r \in files \ (rows \cup broken') => FALSE
      BY <1>1, <2>3 DEF Outputs
    <3> QED
      BY <1>1, <2>1, <3>1 DEF Outputs
  <2>6. Scopes'
    BY <1>1, <1>2, <2>1 DEF Scopes
  <2> QED
    BY <1>4, <2>2, <2>4, <2>5, <2>6
<1> QED
  BY <1>5, <1>6

LEMMA StopKeeps ==
  ASSUME IInv, NEW p \in Procs, Stop(p)
  PROVE  IInv'
<1> USE DEF IInv
<1>1. /\ up[p] = "up" /\ Handled(p) = {} /\ up' = [up EXCEPT ![p] = "stopping"]
      /\ asked' = asked \cup {r \in Driven(p) : active[p] = r}
      /\ UNCHANGED <<status, rows, altered, holder, active, request, staging, sandbox, drive, files, ran, survived, broken>>
  BY DEF Stop, rowVars, histories
<1>2. TypeOK'
  BY <1>1 DEF TypeOK, Driven
<1>3. Runner'
  BY <1>1, RequestParts DEF Runner, Handled, TypeOK
<1> QED
  BY <1>1, <1>2, <1>3 DEF Slot, Compared, Rows, Outputs, Scopes

LEMMA DownKeeps ==
  ASSUME IInv, NEW p \in Procs, Down(p)
  PROVE  IInv'
<1> USE DEF IInv
<1>1. /\ up[p] = "stopping" /\ Driven(p) = {} /\ up' = [up EXCEPT ![p] = "down"]
      /\ holder' = (IF holder = p THEN None ELSE holder)
      /\ UNCHANGED <<status, rows, altered, active, asked, request, staging, sandbox, drive, files, ran, survived, broken>>
  BY DEF Down, rowVars, histories
<1>2. TypeOK'
  BY <1>1 DEF TypeOK
<1>3. \A q \in Requests : request[q] # Idle => request[q].proc # p
  BY <1>1 DEF Runner
<1>4. Runner'
  BY <1>1, <1>3, NoneAssumption, RequestParts DEF Runner, Driven, TypeOK
<1>5. Scopes'
  BY <1>1, NoneAssumption DEF Scopes
<1> QED
  BY <1>1, <1>2, <1>4, <1>5 DEF Slot, Compared, Rows, Outputs

-----------------------------------------------------------------------------
LEMMA IInvNext == IInv /\ [Next]_vars => IInv'
<1> SUFFICES ASSUME IInv, [Next]_vars PROVE IInv'
  OBVIOUS
<1>1. CASE UNCHANGED vars
  BY <1>1 DEF vars, IInv, TypeOK, Runner, Slot, Compared, Rows, Outputs, Scopes
<1>2. ASSUME NEW r \in Runs, Ask(r) \/ DriveStep(r) \/ Drained(r) PROVE IInv'
  BY <1>2, AskKeeps, LaunchKeeps, LaunchFailsKeeps, WatchedKeeps, StopFailsKeeps, DrainedKeeps, RecordKeeps,
     RecordFailsKeeps, CleanupKeeps DEF DriveStep
<1>3. ASSUME NEW p \in Procs, NEW r \in Runs, CancelRunning(p, r) PROVE IInv'
  BY <1>3, CancelRunningKeeps
<1>4. ASSUME NEW q \in Requests, NEW p \in Procs, NEW r \in Runs, Execute(q, p, r) PROVE IInv'
  BY <1>4, ExecuteKeeps
<1>5. ASSUME NEW q \in Requests, Advance(q) PROVE IInv'
  BY <1>5, StageKeeps, RejectKeeps, UndoKeeps, StartKeeps DEF Advance
<1>6. ASSUME NEW p \in Procs, Boot(p) \/ Crash(p) \/ Stop(p) \/ Down(p) PROVE IInv'
  BY <1>6, BootKeeps, CrashKeeps, StopKeeps, DownKeeps
<1> QED
  BY <1>1, <1>2, <1>3, <1>4, <1>5, <1>6 DEF Next

\* Lock, slot, staging, rows, scopes and outputs fit together throughout
\* (UserScriptService in user_scripts.py).
THEOREM RunsInvariant == Spec => []IInv
<1>1. Init => IInv
  BY IInvInit
<1>2. IInv /\ [Next]_vars => IInv'
  BY IInvNext
<1> QED
  BY <1>1, <1>2, PTL DEF Spec

\* No sandbox is ever given what was not approved, whatever is replaced between
\* the approval and the launch.
THEOREM OnlyApprovedRuns == Spec => []RunsWhatWasApproved
<1>1. IInv => RunsWhatWasApproved
  BY DEF IInv, Compared, RunsWhatWasApproved
<1> QED
  BY <1>1, RunsInvariant, PTL

\* A set whose members are all the same has at most one.
LEMMA AtMostOne ==
  ASSUME NEW S, \A x, y \in S : x = y
  PROVE  Cardinality(S) <= 1
<1>1. CASE S = {}
  BY <1>1, FS_EmptySet
<1>2. CASE S # {}
  <2>1. PICK x \in S : S = {x}
    BY <1>2
  <2> QED
    BY <2>1, FS_Singleton
<1> QED
  BY <1>1, <1>2

\* One script runs at a time, whatever API processes are started, and however
\* requests overlap.
THEOREM OneAtATime == Spec => []OneSandbox
<1>1. ASSUME IInv PROVE OneSandbox
  <2> USE DEF IInv
  <2>1. ASSUME NEW r \in Runs, NEW s \in Runs, drive[r].at = "watch", drive[s].at = "watch" PROVE r = s
    BY <1>1, <2>1, DriveParts DEF Runner, Slot, Busy, TypeOK
  <2> DEFINE normal == sandbox \ (survived \cup broken)
  <2>2. \A r, s \in normal : r = s
    BY <1>1, <2>1 DEF Rows, TypeOK
  <2>3. survived = {} /\ holder # None => \A r, s \in sandbox : r = s
    BY <1>1, <2>1 DEF Scopes, TypeOK
  <2> HIDE DEF normal
  <2>4. Cardinality(normal) <= 1
    BY <2>2, AtMostOne
  <2>5. survived = {} /\ holder # None => Cardinality(sandbox) <= 1
    BY <2>3, AtMostOne
  <2> QED
    BY <2>4, <2>5 DEF normal, OneSandbox
<1> QED
  BY <1>1, RunsInvariant, PTL

\* A run's row agrees with its sandbox and with its outputs, unless a process
\* end, a failed record or a failed stop has come between.
THEOREM RunsAreAccounted == Spec => []RunsAccounted
<1>1. ASSUME IInv PROVE RowsMatchSandboxes
  <2> SUFFICES ASSUME NEW r \in Runs \ (broken \cup survived)
               PROVE /\ status[r] = "running" <=> drive[r].at \in {"begin", "watch", "record"}
                     /\ r \in sandbox => status[r] = "running" /\ drive[r].at = "watch"
    BY DEF RowsMatchSandboxes
  <2> QED
    BY <1>1 DEF IInv, Rows, Busy
<1>2. IInv => OutputsAccounted
  BY DEF IInv, Outputs, OutputsAccounted
<1>3. IInv => RunsAccounted
  BY <1>1, <1>2 DEF RunsAccounted
<1> QED
  BY <1>3, RunsInvariant, PTL

\* How a run ended stays: only a row that waits, or that the runner has in hand,
\* or that a recovery finds running is written.
LEMMA EndStays ==
  ASSUME IInv, [Next]_vars, NEW r \in Runs, status[r] \in Final
  PROVE  status'[r] = status[r]
<1> SUFFICES ASSUME status'[r] # status[r] PROVE FALSE
  OBVIOUS
<1>1. status \in [Runs -> Final \cup {"absent", "pending_approval", "approved", "running"}]
      /\ status[r] \notin {"absent", "pending_approval", "approved", "running"}
  BY DEF IInv, TypeOK, Final
<1>2. ASSUME NEW s \in Runs, Ask(s) PROVE FALSE
  BY <1>1, <1>2 DEF Ask, Preview, Approve, CancelEarly, Alter, SetStatus, NotStarted
<1>3. ASSUME NEW s \in Runs, DriveStep(s) PROVE FALSE
  <2>1. CASE Record(s) \/ RecordFails(s)
    <3>1. drive[s].at = "record" /\ s = r
      BY <1>1, <2>1 DEF Record, RecordFails
    <3> QED
      BY <1>1, <3>1 DEF IInv, Rows, Busy
  <2>2. CASE ~(Record(s) \/ RecordFails(s))
    BY <1>3, <2>2 DEF DriveStep, Launch, LaunchFails, Watched, StopFails, Cleanup, rowVars
  <2> QED
    BY <2>1, <2>2
<1>4. ASSUME NEW s \in Runs, Drained(s) PROVE FALSE
  BY <1>4 DEF Drained, rowVars
<1>5. ASSUME NEW p \in Procs, NEW s \in Runs, CancelRunning(p, s) PROVE FALSE
  BY <1>5 DEF CancelRunning, rowVars
<1>6. ASSUME NEW q \in Requests, NEW p \in Procs, NEW s \in Runs, Execute(q, p, s) PROVE FALSE
  BY <1>6 DEF Execute, rowVars
<1>7. ASSUME NEW q \in Requests, Advance(q) PROVE FALSE
  <2>1. CASE Start(q)
    BY <1>1, <2>1 DEF Start, MayRun
  <2>2. CASE ~Start(q)
    BY <1>7, <2>2 DEF Advance, Stage, Reject, Undo, StartFails, rowVars
  <2> QED
    BY <2>1, <2>2
<1>8. ASSUME NEW p \in Procs, Boot(p) \/ Crash(p) \/ Stop(p) \/ Down(p) PROVE FALSE
  BY <1>1, <1>8 DEF Boot, Crash, Stop, Down, rowVars, Running
<1>9. CASE UNCHANGED vars
  BY <1>9 DEF vars
<1> QED
  BY <1>2, <1>3, <1>4, <1>5, <1>6, <1>7, <1>8, <1>9 DEF Next

\* What was cancelled while it was prepared never starts, and what a recovery
\* failed is not recorded again.
THEOREM EndedOnce == Spec => EndsOnce
<1>1. IInv /\ [Next]_vars => [\A r \in Runs : status[r] \in Final => status'[r] = status[r]]_vars
  BY EndStays
<1> QED
  BY <1>1, RunsInvariant, PTL DEF Spec, EndsOnce

=============================================================================
