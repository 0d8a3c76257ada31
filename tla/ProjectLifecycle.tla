-------------------------- MODULE ProjectLifecycle --------------------------
(***************************************************************************)
(* The life of a Project (projects.py) against everything that attaches    *)
(* work to it: Jobs submitted one by one or for the items of a stored plan *)
(* (a batch or an experiment), finished Jobs assigned to it afterwards.    *)
(*                                                                         *)
(* No request holds a lock.  A request checks the lifecycle, awaits, and   *)
(* commits; a change of lifecycle checks, counts the active Jobs, awaits   *)
(* and commits.  Plans point at their Project with a foreign key, Jobs     *)
(* with a bare id.                                                         *)
(***************************************************************************)
EXTENDS Naturals

CONSTANTS
  Projects, Jobs, Plans, Clients,
  None,     \* no Project, no plan
  Gone      \* the plan was deleted with its Project

ASSUME LifecycleAssumption == None \notin Projects \cup Plans /\ Gone \notin Projects \cup {None}

VARIABLES
  life,      \* [Projects -> Lives]
  job,       \* [Jobs -> "none", "active" (queued, running or cancelling) or "done"]
  owner,     \* [Jobs -> assigned_project_id]
  plan,      \* [Plans -> the Project of the stored plan, None before, Gone after]
  request,   \* [Clients -> Requests]
  excused    \* history: [Projects -> Jobs that were on their way when it closed]

vars == <<life, job, owner, plan, request, excused>>

Lives == {"absent", "active", "archived", "trashed"}
Changes == {"archive", "trash", "restore", "purge"}

Idle == [op |-> "idle"]

\* One Job: checked, not committed.  plan is the plan it is an item of.
Submission == [op: {"submit"}, project: Projects \cup {None}, job: Jobs, plan: Plans \cup {None}]
Planning == [op: {"plan"}, project: Projects, plan: Plans, stored: BOOLEAN]
Assignment == [op: {"assign"}, project: Projects \cup {None}, job: Jobs]

\* A change of lifecycle: history records the Jobs committed to the Project
\* since they were counted, and whether its lifecycle moved since it was read.
Change == [op: Changes, project: Projects, counted: BOOLEAN, since: SUBSET Jobs, moved: BOOLEAN]

Requests == {Idle} \cup Submission \cup Planning \cup Assignment \cup Change

TypeOK ==
  /\ life \in [Projects -> Lives]
  /\ job \in [Jobs -> {"none", "active", "done"}]
  /\ owner \in [Jobs -> Projects \cup {None}]
  /\ plan \in [Plans -> Projects \cup {None, Gone}]
  /\ request \in [Clients -> Requests]
  /\ excused \in [Projects -> SUBSET Jobs]

Init ==
  /\ life = [p \in Projects |-> "absent"]
  /\ job = [j \in Jobs |-> "none"]
  /\ owner = [j \in Jobs |-> None]
  /\ plan = [g \in Plans |-> None]
  /\ request = [c \in Clients |-> Idle]
  /\ excused = [p \in Projects |-> {}]

-----------------------------------------------------------------------------
(* The checks.                                                             *)

Open(p) == p \in {None} \cup {q \in Projects : life[q] = "active"}

ActiveOf(p) == {j \in Jobs : owner[j] = p /\ job[j] = "active"}

Quiet(p) == ActiveOf(p) = {}

\* Mutant: what is archived can be purged without a stay in the trash.
FromClosed(op) == CASE op = "archive" -> {"active"}
                    [] op = "trash"   -> {"active", "archived"}
                    [] op = "restore" -> {"archived", "trashed"}
                    [] op = "purge"   -> {"archived", "trashed"}

From(op) == CASE op = "archive" -> {"active"}
              [] op = "trash"   -> {"active", "archived"}
              [] op = "restore" -> {"archived", "trashed"}
              [] op = "purge"   -> {"trashed"}

To(op) == CASE op = "archive" -> "archived"
            [] op = "trash"   -> "trashed"
            [] op = "restore" -> "active"
            [] op = "purge"   -> "absent"

\* A fresh id: of no row and no request.
Fresh(j) == job[j] = "none" /\ \A c \in Clients : request[c].op = "submit" => request[c].job # j

-----------------------------------------------------------------------------
(* Jobs.                                                                   *)

\* _validate_project_context; then references, defaults and preparation are
\* awaited.
Submit(c, p, j) ==
  /\ request[c] = Idle /\ Open(p) /\ Fresh(j)
  /\ request' = [request EXCEPT ![c] = [op |-> "submit", project |-> p, job |-> j, plan |-> None]]
  /\ UNCHANGED <<life, job, owner, plan, excused>>

\* The Jobs a lifecycle change has counted miss this one.
Noticed(p, j) ==
  [c \in Clients |->
    IF request[c].op \in Changes /\ request[c].project = p
    THEN [request[c] EXCEPT !.since = @ \cup {j}] ELSE request[c]]

\* Mutant: the Job commits whatever became of the item.
ItemForgotten(g) == TRUE

\* The plan's item is written in the same transaction (flushed, in the model,
\* as late as the commit): a deleted one fails it.
ItemStands(g) == g \in {None} \cup {h \in Plans : plan[h] # Gone}

CommitJob(c) ==
  LET r == request[c] IN
  /\ r.op = "submit" /\ ItemStands(r.plan)
  /\ job' = [job EXCEPT ![r.job] = "active"]
  /\ owner' = [owner EXCEPT ![r.job] = r.project]
  /\ request' = [Noticed(r.project, r.job) EXCEPT ![c] =
       IF r.plan = None THEN Idle
       ELSE [op |-> "plan", project |-> r.project, plan |-> r.plan, stored |-> TRUE]]
  /\ UNCHANGED <<life, plan, excused>>

JobEnds(j) ==
  /\ job[j] = "active"
  /\ job' = [job EXCEPT ![j] = "done"]
  /\ UNCHANGED <<life, owner, plan, request, excused>>

\* update_job_assignment: the Job has ended, the target is open.
Assign(c, p, j) ==
  /\ request[c] = Idle /\ job[j] = "done" /\ Open(p)
  /\ request' = [request EXCEPT ![c] = [op |-> "assign", project |-> p, job |-> j]]
  /\ UNCHANGED <<life, job, owner, plan, excused>>

CommitAssignment(c) ==
  /\ request[c].op = "assign"
  /\ owner' = [owner EXCEPT ![request[c].job] = request[c].project]
  /\ request' = [request EXCEPT ![c] = Idle]
  /\ UNCHANGED <<life, job, plan, excused>>

-----------------------------------------------------------------------------
(* Plans: the group is stored, then each item checks and submits.          *)

BeginPlan(c, p, g) ==
  /\ request[c] = Idle /\ life[p] = "active" /\ plan[g] = None
  /\ \A d \in Clients : request[d].op = "plan" => request[d].plan # g
  /\ request' = [request EXCEPT ![c] = [op |-> "plan", project |-> p, plan |-> g, stored |-> FALSE]]
  /\ UNCHANGED <<life, job, owner, plan, excused>>

\* The foreign key fails once the Project is purged.
StorePlan(c) ==
  LET r == request[c] IN
  /\ r.op = "plan" /\ ~r.stored /\ life[r.project] # "absent"
  /\ plan' = [plan EXCEPT ![r.plan] = r.project]
  /\ request' = [request EXCEPT ![c].stored = TRUE]
  /\ UNCHANGED <<life, job, owner, excused>>

\* Retries of a stored plan visit its items too.
RetryPlan(c, p, g) ==
  /\ request[c] = Idle /\ life[p] = "active" /\ plan[g] = p
  /\ request' = [request EXCEPT ![c] = [op |-> "plan", project |-> p, plan |-> g, stored |-> TRUE]]
  /\ UNCHANGED <<life, job, owner, plan, excused>>

SubmitItem(c, j) ==
  LET r == request[c] IN
  /\ r.op = "plan" /\ r.stored /\ Open(r.project) /\ Fresh(j)
  /\ request' = [request EXCEPT ![c] =
       [op |-> "submit", project |-> r.project, job |-> j, plan |-> r.plan]]
  /\ UNCHANGED <<life, job, owner, plan, excused>>

\* Every request but a change may end here: it is done, refused or failed.
End(c) ==
  /\ request[c].op \in {"submit", "plan", "assign"}
  /\ request' = [request EXCEPT ![c] = Idle]
  /\ UNCHANGED <<life, job, owner, plan, excused>>

-----------------------------------------------------------------------------
(* The lifecycle.                                                          *)

Moved(p, requests) ==
  [c \in Clients |->
    IF requests[c].op \in Changes /\ requests[c].project = p
    THEN [requests[c] EXCEPT !.moved = TRUE] ELSE requests[c]]

Create(p) ==
  /\ life[p] = "absent"
  /\ life' = [life EXCEPT ![p] = "active"]
  /\ request' = Moved(p, request)
  /\ excused' = [excused EXCEPT ![p] = {}]
  /\ UNCHANGED <<job, owner, plan>>

Begin(c, op, p) ==
  /\ request[c] = Idle /\ life[p] \in From(op)
  /\ request' = [request EXCEPT ![c] =
       [op |-> op, project |-> p, counted |-> op = "restore", since |-> {}, moved |-> FALSE]]
  /\ UNCHANGED <<life, job, owner, plan, excused>>

\* _impact; a restore does not ask.
Count(c) ==
  LET r == request[c] IN
  /\ r.op \in Changes /\ ~r.counted
  /\ request' = [request EXCEPT ![c] =
       IF Quiet(r.project) THEN [r EXCEPT !.counted = TRUE, !.since = {}] ELSE Idle]
  /\ UNCHANGED <<life, job, owner, plan, excused>>

\* The Jobs that may still arrive after the change: those in flight.  After a
\* purge the items of its plans are gone, and assignments write a bare id.
OnTheWay(p, op) ==
  {j \in Jobs : \E c \in Clients :
     /\ request[c].op \in {"submit", "assign"} /\ request[c].project = p /\ request[c].job = j
     /\ IF op = "purge" THEN request[c].op = "assign" \/ request[c].plan = None
                        ELSE request[c].op = "submit"}

Settle(c) ==
  LET r == request[c] IN
  /\ request' = [Moved(r.project, request) EXCEPT ![c] = Idle]
  /\ excused' = [excused EXCEPT ![r.project] =
       IF r.op = "restore" THEN {} ELSE r.since \cup OnTheWay(r.project, r.op)]

\* The UPDATE of a purged row fails.
ChangeLife(c) ==
  LET r == request[c] IN
  /\ r.op \in Changes \ {"purge"} /\ r.counted /\ life[r.project] # "absent"
  /\ life' = [life EXCEPT ![r.project] = To(r.op)]
  /\ Settle(c)
  /\ UNCHANGED <<job, owner, plan>>

Detached(p) == [j \in Jobs |-> IF owner[j] = p THEN None ELSE owner[j]]

WithoutPlans(p) == [g \in Plans |-> IF plan[g] = p THEN Gone ELSE plan[g]]

\* One transaction, its deletes by Project id; a row that is already gone
\* does not fail it.
Purge(c) ==
  LET r == request[c] IN
  /\ r.op = "purge" /\ r.counted
  /\ life' = [life EXCEPT ![r.project] = "absent"]
  /\ owner' = Detached(r.project)
  /\ plan' = WithoutPlans(r.project)
  /\ Settle(c)
  /\ UNCHANGED job

GiveUp(c) ==
  /\ request[c].op \in Changes \ {"purge"} /\ life[request[c].project] = "absent"
  /\ request' = [request EXCEPT ![c] = Idle]
  /\ UNCHANGED <<life, job, owner, plan, excused>>

-----------------------------------------------------------------------------
Next ==
  \/ \E p \in Projects : Create(p)
  \/ \E j \in Jobs : JobEnds(j)
  \/ \E c \in Clients :
       \/ \E p \in Projects \cup {None}, j \in Jobs : Submit(c, p, j) \/ Assign(c, p, j)
       \/ \E p \in Projects, g \in Plans : BeginPlan(c, p, g) \/ RetryPlan(c, p, g)
       \/ \E p \in Projects, op \in Changes : Begin(c, op, p)
       \/ \E j \in Jobs : SubmitItem(c, j)
       \/ CommitJob(c) \/ CommitAssignment(c) \/ StorePlan(c) \/ End(c)
       \/ Count(c) \/ ChangeLife(c) \/ Purge(c) \/ GiveUp(c)

Spec == Init /\ [][Next]_vars

-----------------------------------------------------------------------------
(* Properties.                                                             *)

\* The Jobs a closed Project should not have: active ones, and once it is
\* purged any at all.
Leftover(p) == {j \in Jobs : owner[j] = p /\ (job[j] = "active" \/ life[p] = "absent")}

\* No Job works for, and after a purge none points at, a Project that is
\* archived, trashed or purged, except those that were past their check when
\* the lifecycle changed or were committed after the count of active Jobs.
\* In particular the items of a purged plan never arrive.
WindowOnly == \A p \in Projects : life[p] # "active" => Leftover(p) \subseteq excused[p]

\* A plan stands only while its Project does.
PlansStand == \A g \in Plans : plan[g] \in Projects => life[plan[g]] # "absent"

LegalMove == {<<"absent", "active">>, <<"active", "archived">>, <<"active", "trashed">>,
              <<"archived", "trashed">>, <<"archived", "active">>, <<"trashed", "active">>,
              <<"trashed", "absent">>}

\* A Project moves along the edges of its lifecycle, and to destruction only
\* through the trash, unless another change of the same Project overlapped the
\* request (a purge may remove what was just restored).
OnlyLegalMoves ==
  [][\A p \in Projects :
       life'[p] # life[p] =>
         \/ <<life[p], life'[p]>> \in LegalMove
         \/ \E c \in Clients : /\ request[c].op \in Changes /\ request[c].project = p
                               /\ request[c].moved /\ request'[c] = Idle]_vars
=============================================================================
