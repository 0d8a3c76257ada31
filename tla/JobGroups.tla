----------------------------- MODULE JobGroups ------------------------------
(***************************************************************************)
(* Batches and exploration experiments (operations.py): one request stores *)
(* a group of items and then submits a Job for each, a later one retries   *)
(* what failed or cancels what still waits.                                *)
(*                                                                         *)
(* An item takes two commits.  The Job's own commit carries the item's     *)
(* attempts (autoflush), the next one the link to the Job; the process may *)
(* end in between.  Requests about experiments hold                        *)
(* EXPERIMENT_MUTATION_LOCK from start to end, those about batches hold    *)
(* nothing and write what they read when they began.                       *)
(***************************************************************************)
EXTENDS Integers, FiniteSets

CONSTANTS
  Groups, Items,   \* batches and experiments, and their items
  GroupOf,         \* [Items -> Groups]
  KindChoices,     \* the functions [Groups -> Kinds] to start from
  Jobs, Clients,
  MaxActive,       \* MAX_ACTIVE_EXPERIMENT_JOBS_PER_PROJECT
  MaxAttempts,     \* MAX_EXPERIMENT_ATTEMPTS
  Tries,           \* bound: attempts of a batch item, which the code does not limit
  MaxLost,         \* bound: Jobs a process end may lose sight of
  None

Kinds == {"batch", "experiment", "standalone"}

ASSUME GroupsAssumption ==
  /\ GroupOf \in [Items -> Groups] /\ IsFiniteSet(Items)
  /\ KindChoices \in SUBSET [Groups -> Kinds]
  /\ MaxActive \in Nat /\ MaxAttempts \in Nat \ {0} /\ Tries \in Nat
  /\ None \notin Jobs \cup Items \cup Clients

Waiting == {"queued", "running"}   \* cancelling counts as running
JobStates == Waiting \cup {"absent", "succeeded", "failed", "cancelled"}

VARIABLES
  kind,        \* [Groups -> Kinds]: the routes the group is made through
  group,       \* [Groups -> "absent", "stored" or "deleted"]
  item,        \* [Items -> rows], NoRow before and after
  job,         \* [Jobs -> JobStates]
  request,     \* [Clients -> Requests]
  lock,        \* EXPERIMENT_MUTATION_LOCK: its holder or None
  maker,       \* history: [Jobs -> item the Job was submitted for, or None]
  lost         \* history: items whose Job was not yet linked when the process ended

vars == <<kind, group, item, job, request, lock, maker, lost>>

NoRow == [job |-> None, attempts |-> 0, error |-> FALSE]
RowsOf == [job: Jobs \cup {None}, attempts: Nat, error: BOOLEAN]

\* A request has the items it has still to visit, the rows as it read them,
\* and the item in its hands: with the Job just made for it, or None.
Idle == [op |-> "idle"]
Requests ==
  {Idle} \cup [op: {"create", "retry", "cancel"}, group: Groups, todo: SUBSET Items,
               read: [Items -> RowsOf], at: Items \cup {None}, made: Jobs \cup {None}]

TypeOK ==
  /\ kind \in [Groups -> Kinds]
  /\ group \in [Groups -> {"absent", "stored", "deleted"}]
  /\ item \in [Items -> RowsOf]
  /\ job \in [Jobs -> JobStates]
  /\ request \in [Clients -> Requests]
  /\ lock \in Clients \cup {None}
  /\ maker \in [Jobs -> Items \cup {None}]
  /\ lost \in SUBSET Items

Init ==
  /\ kind \in KindChoices
  /\ group = [g \in Groups |-> "absent"]
  /\ item = [i \in Items |-> NoRow]
  /\ job = [j \in Jobs |-> "absent"]
  /\ request = [c \in Clients |-> Idle]
  /\ lock = None
  /\ maker = [j \in Jobs |-> None]
  /\ lost = {}

-----------------------------------------------------------------------------
(* What the requests ask of groups, items and Jobs.                        *)

ItemsOf(g) == {i \in Items : GroupOf[i] = g}
KindOf(i) == kind[GroupOf[i]]
Submitted(k) == {j \in Jobs : maker[j] # None /\ KindOf(maker[j]) = k}

\* Jobs of the Project, or for an experiment without one the Jobs its items
\* and those of its kind are linked to.
Counted(g) ==
  IF kind[g] = "experiment"
  THEN {j \in Jobs : maker[j] = None \/ KindOf(maker[j]) # "standalone"}
  ELSE {j \in Jobs : \E i \in Items : KindOf(i) = "standalone" /\ item[i].job = j}

Active(jobs) == {j \in jobs : job[j] \in Waiting}

\* Mutant: only what is active already counts.
RoomForOne(g, additional) == Cardinality(Active(Counted(g))) < MaxActive

\* _ensure_experiment_job_capacity; a batch does not ask.
Capacity(g, additional) == Cardinality(Active(Counted(g))) + additional <= MaxActive

\* Mutant: experiments are retried without the lock.
NoGuard(c, g) == TRUE

\* _experiment_mutation_guard.
Guarded(c, g) == kind[g] = "batch" \/ lock = None
Locked(c, g) == IF kind[g] = "batch" THEN lock ELSE c

JobState(row) == IF row.job = None THEN "none" ELSE job[row.job]

\* Mutant: whatever is settled is retried.
Settled(row) == JobState(row) \in {"succeeded", "failed"} \/ (row.job = None /\ row.error)

\* The Job failed, or none could be planned.
Failed(row) == JobState(row) = "failed" \/ (row.job = None /\ row.error)

AttemptsLeft(row) == row.attempts < MaxAttempts

Retryable(g) == {i \in ItemsOf(g) : Failed(item[i]) /\ AttemptsLeft(item[i])}

\* The rows to visit as they are now; the others do not matter.
RowsRead(todo) == [i \in Items |-> IF i \in todo THEN item[i] ELSE NoRow]

Begin(c, g, op, todo) ==
  /\ request[c] = Idle /\ Guarded(c, g) /\ todo # {}
  /\ lock' = Locked(c, g)
  /\ request' = [request EXCEPT ![c] = [op |-> op, group |-> g, todo |-> todo,
                                        read |-> RowsRead(todo), at |-> None, made |-> None]]

-----------------------------------------------------------------------------
(* Requests begin.                                                         *)

\* Group and items are one commit.
StoreGroup(c, g) ==
  /\ group[g] = "absent"
  /\ kind[g] # "batch" => Capacity(g, Cardinality(ItemsOf(g)))
  /\ Begin(c, g, "create", ItemsOf(g))
  /\ group' = [group EXCEPT ![g] = "stored"]
  /\ UNCHANGED <<kind, item, job, maker, lost>>

\* A batch visits every item with a Job or an error, an experiment those that
\* may be retried; there is no route for an experiment without a Project.
Retry(c, g) ==
  /\ group[g] = "stored" /\ kind[g] # "standalone"
  /\ LET todo == IF kind[g] = "batch" THEN {i \in ItemsOf(g) : item[i].job # None \/ item[i].error}
                 ELSE Retryable(g)
     IN /\ kind[g] = "experiment" => Capacity(g, Cardinality(todo))
        /\ Begin(c, g, "retry", todo)
  /\ UNCHANGED <<kind, group, item, job, maker, lost>>

CancelPending(c, g) ==
  /\ group[g] = "stored" /\ kind[g] # "standalone"
  /\ Begin(c, g, "cancel", {i \in ItemsOf(g) : item[i].job # None})
  /\ UNCHANGED <<kind, group, item, job, maker, lost>>

\* Only the experiment and its items go, Jobs stay.
Delete(c, g) ==
  /\ group[g] = "stored" /\ kind[g] = "experiment"
  /\ request[c] = Idle /\ lock = None
  /\ group' = [group EXCEPT ![g] = "deleted"]
  /\ item' = [i \in Items |-> IF GroupOf[i] = g THEN NoRow ELSE item[i]]
  /\ UNCHANGED <<kind, job, request, lock, maker, lost>>

-----------------------------------------------------------------------------
(* Items are visited one by one.                                           *)

\* c has item i to visit, with nothing in its hands.
Visits(c, i, op) ==
  /\ request[c] # Idle /\ request[c].op = op
  /\ request[c].at = None /\ i \in request[c].todo

End(c) ==
  /\ request' = [request EXCEPT ![c] = Idle]
  /\ lock' = IF lock = c THEN None ELSE lock

\* The request ends with its last item.
Leave(c, i) ==
  IF request[c].todo = {i} THEN End(c)
  ELSE /\ request' = [request EXCEPT ![c].todo = @ \ {i}, ![c].read[i] = NoRow,
                                     ![c].at = None, ![c].made = None]
       /\ UNCHANGED lock

\* Does this visit submit?  The state of the Job is read now, the row was then.
Submits(c, i) ==
  \/ Visits(c, i, "create")
  \/ Visits(c, i, "retry") /\ Failed(request[c].read[i])

\* Mutant: a retry starts to count from one again.
CountedOnce(c, i) == 1

\* attempts += 1 on the row as it was read.
NextAttempts(c, i) == request[c].read[i].attempts + 1

\* The Job is committed, and the item's attempts with it.
Submit(c, i, j) ==
  /\ Submits(c, i)
  /\ KindOf(i) = "batch" => item[i].attempts < Tries
  /\ job[j] = "absent"
  /\ job' = [job EXCEPT ![j] = "queued"]
  /\ maker' = [maker EXCEPT ![j] = i]
  /\ item' = [item EXCEPT ![i].attempts = NextAttempts(c, i)]
  /\ request' = [request EXCEPT ![c].at = i, ![c].made = j]
  /\ UNCHANGED <<kind, group, lock, lost>>

\* Mutant: JOB_RECORD_UNREADABLE's details instead of the id in them.
LinkedToDetails(i, j) == [job_id |-> j]

\* Mutant: the item keeps the Job it had.
LinkKept(i, j) == item[i].job

\* Also when the Job was recorded but could not be read back.
LinkedTo(i, j) == j

\* The link is a commit of its own; planning_error is written if there was one.
Link(c, i) ==
  /\ request[c] # Idle /\ request[c].at = i /\ request[c].made # None
  /\ item' = [item EXCEPT ![i].job = LinkedTo(i, request[c].made),
                          ![i].error = @ /\ ~request[c].read[i].error]
  /\ Leave(c, i)
  /\ UNCHANGED <<kind, group, job, maker, lost>>

\* No Job can be planned: attempts and planning_error are one commit.
Refuse(c, i) ==
  /\ Submits(c, i)
  /\ KindOf(i) = "batch" => item[i].attempts < Tries
  /\ item' = [item EXCEPT ![i].attempts = NextAttempts(c, i), ![i].error = TRUE]
  /\ Leave(c, i)
  /\ UNCHANGED <<kind, group, job, maker, lost>>

\* The Job has not failed, or does not wait any more.
Skip(c, i) ==
  /\ \/ Visits(c, i, "retry") /\ ~Failed(request[c].read[i])
     \/ Visits(c, i, "cancel") /\ JobState(request[c].read[i]) # "queued"
  /\ Leave(c, i)
  /\ UNCHANGED <<kind, group, item, job, maker, lost>>

SeeQueued(c, i) ==
  /\ Visits(c, i, "cancel") /\ JobState(request[c].read[i]) = "queued"
  /\ request' = [request EXCEPT ![c].at = i]
  /\ UNCHANGED <<kind, group, item, job, lock, maker, lost>>

\* cancel_generation_job updates what is still queued; a conflict ends the
\* request with the items it has not visited.
CancelSeen(c, i) ==
  /\ request[c] # Idle /\ request[c].op = "cancel" /\ request[c].at = i
  /\ LET j == request[c].read[i].job
     IN IF job[j] = "queued"
        THEN job' = [job EXCEPT ![j] = "cancelled"] /\ Leave(c, i)
        ELSE End(c) /\ UNCHANGED job
  /\ UNCHANGED <<kind, group, item, maker, lost>>

-----------------------------------------------------------------------------
(* The rest of the system.                                                 *)

\* A Job of the same Project that belongs to no group.
SubmitAlone(j) ==
  /\ job[j] = "absent"
  /\ job' = [job EXCEPT ![j] = "queued"]
  /\ UNCHANGED <<kind, group, item, request, lock, maker, lost>>

Moves == {<<"queued", "running">>, <<"queued", "cancelled">>, <<"running", "succeeded">>,
          <<"running", "failed">>, <<"running", "cancelled">>}

\* The worker runs a Job, or the user cancels one.
Move(j) ==
  /\ \E m \in Moves : job[j] = m[1] /\ job' = [job EXCEPT ![j] = m[2]]
  /\ UNCHANGED <<kind, group, item, request, lock, maker, lost>>

\* The process ends and starts again: what was running has failed.
Crash ==
  /\ \E c \in Clients : request[c] # Idle
  /\ request' = [c \in Clients |-> Idle]
  /\ lock' = None
  /\ job' = [j \in Jobs |-> IF job[j] = "running" THEN "failed" ELSE job[j]]
  /\ Cardinality(lost) < MaxLost
  /\ lost' = lost \cup {request[c].at : c \in {d \in Clients :
                          request[d] # Idle /\ request[d].made # None}}
  /\ UNCHANGED <<kind, group, item, maker>>

Visit(c, i) ==
  \/ \E j \in Jobs : Submit(c, i, j)
  \/ Link(c, i) \/ Refuse(c, i) \/ Skip(c, i) \/ SeeQueued(c, i) \/ CancelSeen(c, i)

Next ==
  \/ \E c \in Clients, g \in Groups :
       StoreGroup(c, g) \/ Retry(c, g) \/ CancelPending(c, g) \/ Delete(c, g)
  \/ \E c \in Clients, i \in Items : Visit(c, i)
  \/ \E j \in Jobs : SubmitAlone(j) \/ Move(j)
  \/ Crash

Spec == Init /\ [][Next]_vars

-----------------------------------------------------------------------------
(* Properties.                                                             *)

Experiments == {i \in Items : KindOf(i) # "batch" /\ group[GroupOf[i]] = "stored"}
Made(i) == {j \in Jobs : maker[j] = i}

\* An experiment never submits more Jobs for an item than its attempts say,
\* and never more than allowed, however often the process ends in between.
AttemptsCoverJobs ==
  \A i \in Experiments : Cardinality(Made(i)) <= item[i].attempts
                         /\ item[i].attempts <= MaxAttempts

\* Whatever an experiment has waiting or running is the Job its item shows, or
\* the one a request is about to link; only a process end loses sight of one.
JobsTracked ==
  \A i \in Experiments \ lost : \A j \in Active(Made(i)) :
    \/ item[i].job = j
    \/ \E c \in Clients : request[c] # Idle /\ request[c].at = i /\ request[c].made = j

\* Experiments lose neither the count nor the sight of what they submitted.
JobsAccounted == AttemptsCoverJobs /\ JobsTracked

\* No item has two Jobs waiting or running, unless a process end lost one.
OneLiveJob == \A i \in Experiments \ lost : Cardinality(Active(Made(i))) <= 1

\* Experiments of a Project never fill more than their share of the queue;
\* those without one neither, unless a process end lost count of a Job.
CapacityKept ==
  /\ Cardinality(Active(Submitted("experiment"))) <= MaxActive
  /\ (\A i \in lost : KindOf(i) # "standalone") =>
        Cardinality(Active(Submitted("standalone"))) <= MaxActive

\* An item that has its result keeps it: no retry replaces a Job that succeeded.
SettledItemStays ==
  \A i \in Experiments : JobState(item[i]) = "succeeded" =>
    item'[i] = item[i] \/ group'[GroupOf[i]] = "deleted"
ResultsStay == [][SettledItemStays]_vars
=============================================================================
