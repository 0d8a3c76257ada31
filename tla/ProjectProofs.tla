--------------------------- MODULE ProjectProofs ----------------------------
(***************************************************************************)
(* Machine-checked proofs about Projects, what is read from outside and    *)
(* what is sent to ComfyUI: ProjectLifecycle, PackageImports, ProjectSync, *)
(* ReferenceSource and WorkflowPreparation, a section each, for any number *)
(* of Projects, Jobs, plans, rows and requests, any packages, quota, trees *)
(* and changes of a source, files and submissions.                         *)
(***************************************************************************)
EXTENDS ProjectLifecycle, PackageImports, ProjectSync, ReferenceSource, WorkflowPreparation,
        FiniteSetTheorems, TLAPS

-----------------------------------------------------------------------------
(* Projects and what is filed under them.                                  *)

-----------------------------------------------------------------------------
(* The inductive invariant.                                                *)

\* What a request has stored, or is an item of, is a plan of its Project, also
\* after it was deleted; what it has still to store is stored nowhere.
PlansOfRequests ==
  \A c \in Clients :
    /\ request[c].op = "submit" /\ request[c].plan # None =>
         request[c].project \in Projects /\ plan[request[c].plan] \in {request[c].project, Gone}
    /\ request[c].op = "plan" /\ request[c].stored => plan[request[c].plan] \in {request[c].project, Gone}
    /\ request[c].op = "plan" /\ ~request[c].stored =>
         /\ plan[request[c].plan] = None
         /\ \A d \in Clients \ {c} : request[d].op = "plan" => request[d].plan # request[c].plan

\* A submitted Job is new, and of one request only.
SubmittedNew ==
  \A c \in Clients :
    request[c].op = "submit" =>
      /\ job[request[c].job] = "none"
      /\ \A d \in Clients \ {c} : request[d].op = "submit" => request[d].job # request[c].job

\* Only what has ended is assigned.
AssignedEnded == \A c \in Clients : request[c].op = "assign" => job[request[c].job] = "done"

\* Requests that can still bring a Job to a closed Project are excused.
ArrivalsExcused ==
  \A c \in Clients :
    LET r == request[c] IN
    /\ r.op = "submit" /\ r.project \in Projects /\ ItemStands(r.plan) =>
         life[r.project] = "active" \/ r.job \in excused[r.project]
    /\ r.op = "assign" /\ r.project \in Projects =>
         life[r.project] # "absent" \/ r.job \in excused[r.project]

\* What has come since a count was noticed.
CountsHold ==
  \A c \in Clients :
    LET r == request[c] IN
    r.op \in {"archive", "trash", "purge"} /\ r.counted => ActiveOf(r.project) \subseteq r.since

\* A change whose Project has not moved still finds it where it was.
UnmovedStay ==
  \A c \in Clients :
    LET r == request[c] IN r.op \in Changes /\ ~r.moved => life[r.project] \in From(r.op)

LifecycleInv ==
  /\ TypeOK /\ PlansOfRequests /\ SubmittedNew /\ AssignedEnded /\ ArrivalsExcused /\ CountsHold /\ UnmovedStay
  /\ WindowOnly /\ PlansStand

-----------------------------------------------------------------------------
(* Types of requests.                                                      *)

LEMMA RequestFields ==
  ASSUME NEW r \in Requests
  PROVE  /\ r.op \in {"idle", "submit", "plan", "assign"} \cup Changes
         /\ r.op = "idle" => r = Idle
         /\ r.op = "submit" => r \in Submission
         /\ r.op = "plan" => r \in Planning
         /\ r.op = "assign" => r \in Assignment
         /\ r.op \in Changes => r \in Change
<1> USE DEF Requests, Idle, Submission, Planning, Assignment, Change, Changes
<1>1. CASE r = Idle
  BY <1>1
<1>2. CASE r \in Submission
  BY <1>2
<1>3. CASE r \in Planning
  BY <1>3
<1>4. CASE r \in Assignment
  BY <1>4
<1>5. CASE r \in Change
  BY <1>5
<1> QED
  BY <1>1, <1>2, <1>3, <1>4, <1>5

\* The requests after a change was marked or a Job was noticed are requests.
LEMMA MarkedRequests ==
  ASSUME NEW q \in [Clients -> Requests], NEW p
  PROVE  /\ Moved(p, q) \in [Clients -> Requests]
         /\ \A c \in Clients : LET m == Moved(p, q)[c] IN
              /\ m.op = q[c].op
              /\ m.op \notin Changes => m = q[c]
              /\ m.op \in Changes => /\ m \in Change /\ m.project = q[c].project
                                     /\ m.counted = q[c].counted /\ m.since = q[c].since
                                     /\ ~m.moved => ~q[c].moved /\ q[c].project # p
<1> SUFFICES ASSUME NEW c \in Clients
             PROVE  LET m == Moved(p, q)[c] IN
              /\ m \in Requests
              /\ m.op = q[c].op
              /\ m.op \notin Changes => m = q[c]
              /\ m.op \in Changes => /\ m \in Change /\ m.project = q[c].project
                                     /\ m.counted = q[c].counted /\ m.since = q[c].since
                                     /\ ~m.moved => ~q[c].moved /\ q[c].project # p
  BY DEF Moved
<1>1. CASE q[c].op \in Changes
  <2>1. q[c] \in Change
    BY <1>1, RequestFields
  <2>2. CASE q[c].project = p
    <3>1. Moved(p, q)[c] = [q[c] EXCEPT !.moved = TRUE]
      BY <1>1, <2>2 DEF Moved
    <3> QED
      BY <2>1, <2>2, <3>1, <1>1 DEF Change, Requests
  <2>3. CASE q[c].project # p
    BY <1>1, <2>1, <2>3 DEF Moved, Change, Requests
  <2> QED
    BY <2>2, <2>3
<1>2. CASE q[c].op \notin Changes
  BY <1>2 DEF Moved
<1> QED
  BY <1>1, <1>2

-----------------------------------------------------------------------------
(* Steps.                                                                  *)

LEMMA LifecycleInvInit == Init => LifecycleInv
<1> SUFFICES ASSUME Init PROVE LifecycleInv
  OBVIOUS
<1>1. \A c \in Clients : request[c].op = "idle"
  BY DEF Init, Idle
<1>2. TypeOK
  BY DEF Init, TypeOK, Requests, Lives
<1>3. PlansOfRequests /\ SubmittedNew /\ AssignedEnded /\ ArrivalsExcused /\ CountsHold /\ UnmovedStay
  BY <1>1 DEF PlansOfRequests, SubmittedNew, AssignedEnded, ArrivalsExcused, CountsHold, UnmovedStay, Changes
<1>4. WindowOnly /\ PlansStand
  BY LifecycleAssumption DEF Init, WindowOnly, PlansStand, Leftover
<1> QED
  BY <1>2, <1>3, <1>4 DEF LifecycleInv

\* A request that takes a step of its own and changes no row, to another kind
\* of request or within its change.
LEMMA OwnStepKeeps ==
  ASSUME LifecycleInv, NEW c \in Clients, NEW r \in Requests,
         request' = [request EXCEPT ![c] = r],
         UNCHANGED <<life, job, owner, plan, excused>>,
         r.op = "submit" /\ r.plan # None => r.project \in Projects /\ plan[r.plan] \in {r.project, Gone},
         r.op = "plan" /\ r.stored => plan[r.plan] \in {r.project, Gone},
         r.op = "plan" /\ ~r.stored =>
            plan[r.plan] = None /\ \A d \in Clients \ {c} : request[d].op = "plan" => request[d].plan # r.plan,
         r.op = "plan" =>
            \A d \in Clients \ {c} : request[d].op = "plan" /\ ~request[d].stored => request[d].plan # r.plan,
         r.op = "submit" => Fresh(r.job),
         r.op = "assign" => job[r.job] = "done",
         r.op \in {"submit", "assign"} => Open(r.project),
         r.op \in {"archive", "trash", "purge"} /\ r.counted => ActiveOf(r.project) \subseteq r.since,
         r.op \in Changes /\ ~r.moved => life[r.project] \in From(r.op)
  PROVE  LifecycleInv'
<1> USE DEF LifecycleInv
<1>1. \A d \in Clients : request'[d] = IF d = c THEN r ELSE request[d]
  BY DEF TypeOK
<1>2. TypeOK'
  BY DEF TypeOK
<1>3. PlansOfRequests'
  BY <1>1 DEF PlansOfRequests
<1>4. SubmittedNew' /\ AssignedEnded'
  BY <1>1 DEF SubmittedNew, AssignedEnded, Fresh
<1>5. ArrivalsExcused'
  BY <1>1, LifecycleAssumption DEF ArrivalsExcused, ItemStands, Open
<1>6. CountsHold'
  BY <1>1 DEF CountsHold, ActiveOf
<1>7. UnmovedStay'
  BY <1>1 DEF UnmovedStay
<1>8. WindowOnly' /\ PlansStand'
  BY DEF WindowOnly, PlansStand, Leftover
<1> QED
  BY <1>2, <1>3, <1>4, <1>5, <1>6, <1>7, <1>8

LEMMA SubmitKeeps ==
  ASSUME LifecycleInv, NEW c \in Clients, NEW p \in Projects \cup {None}, NEW j \in Jobs, Submit(c, p, j)
  PROVE  LifecycleInv'
<1> DEFINE r == [op |-> "submit", project |-> p, job |-> j, plan |-> None]
<1>1. r \in Requests
  BY DEF Requests, Submission
<1> QED
  BY <1>1, OwnStepKeeps DEF Submit, Changes

LEMMA AssignKeeps ==
  ASSUME LifecycleInv, NEW c \in Clients, NEW p \in Projects \cup {None}, NEW j \in Jobs, Assign(c, p, j)
  PROVE  LifecycleInv'
<1> DEFINE r == [op |-> "assign", project |-> p, job |-> j]
<1>1. r \in Requests
  BY DEF Requests, Assignment
<1> QED
  BY <1>1, OwnStepKeeps DEF Assign, Changes

LEMMA PlanKeeps ==
  ASSUME LifecycleInv, NEW c \in Clients, NEW p \in Projects, NEW g \in Plans, BeginPlan(c, p, g) \/ RetryPlan(c, p, g)
  PROVE  LifecycleInv'
<1>1. CASE BeginPlan(c, p, g)
  <2> DEFINE r == [op |-> "plan", project |-> p, plan |-> g, stored |-> FALSE]
  <2>1. r \in Requests
    BY DEF Requests, Planning
  <2> QED
    BY <1>1, <2>1, OwnStepKeeps DEF BeginPlan, Changes
<1>2. CASE RetryPlan(c, p, g)
  <2> DEFINE r == [op |-> "plan", project |-> p, plan |-> g, stored |-> TRUE]
  <2>1. r \in Requests
    BY DEF Requests, Planning
  <2>2. \A d \in Clients : request[d].op = "plan" /\ ~request[d].stored => request[d].plan # g
    BY <1>2, LifecycleAssumption DEF RetryPlan, LifecycleInv, PlansOfRequests
  <2> QED
    BY <1>2, <2>1, <2>2, OwnStepKeeps DEF RetryPlan, Changes
<1> QED
  BY <1>1, <1>2

LEMMA SubmitItemKeeps ==
  ASSUME LifecycleInv, NEW c \in Clients, NEW j \in Jobs, SubmitItem(c, j)
  PROVE  LifecycleInv'
<1>1. request[c] \in Planning /\ request[c].stored
  BY RequestFields DEF SubmitItem, LifecycleInv, TypeOK
<1> DEFINE r == [op |-> "submit", project |-> request[c].project, job |-> j, plan |-> request[c].plan]
<1>2. r \in Requests /\ r.project \in Projects
  BY <1>1 DEF Requests, Submission, Planning
<1>3. plan[request[c].plan] \in {request[c].project, Gone}
  BY <1>1 DEF LifecycleInv, PlansOfRequests, SubmitItem
<1> QED
  BY <1>2, <1>3, OwnStepKeeps DEF SubmitItem, Changes

LEMMA EndKeeps ==
  ASSUME LifecycleInv, NEW c \in Clients, End(c) \/ GiveUp(c)
  PROVE  LifecycleInv'
<1>1. Idle \in Requests
  BY DEF Requests
<1> QED
  BY <1>1, OwnStepKeeps DEF End, GiveUp, Changes, Idle

LEMMA BeginKeeps ==
  ASSUME LifecycleInv, NEW c \in Clients, NEW op \in Changes, NEW p \in Projects, Begin(c, op, p)
  PROVE  LifecycleInv'
<1> DEFINE r == [op |-> op, project |-> p, counted |-> op = "restore", since |-> {}, moved |-> FALSE]
<1>1. r \in Requests
  BY DEF Requests, Change
<1>2. r.op \notin {"submit", "plan", "assign"}
  BY DEF Changes
<1> QED
  BY <1>1, <1>2, OwnStepKeeps DEF Begin

LEMMA CountKeeps ==
  ASSUME LifecycleInv, NEW c \in Clients, Count(c)
  PROVE  LifecycleInv'
<1>1. request[c] \in Change
  BY RequestFields DEF Count, LifecycleInv, TypeOK
<1>2. CASE Quiet(request[c].project)
  <2> DEFINE r == [request[c] EXCEPT !.counted = TRUE, !.since = {}]
  <2>1. r \in Requests /\ r.op \in Changes /\ r.op = request[c].op /\ r.project = request[c].project /\ r.moved = request[c].moved
    BY <1>1 DEF Requests, Change, Count
  <2>2. r.op \notin {"submit", "plan", "assign"}
    BY <2>1 DEF Changes
  <2>3. ActiveOf(r.project) = {}
    BY <1>2, <2>1 DEF Quiet
  <2>4. r.moved \/ life[r.project] \in From(r.op)
    BY <2>1 DEF LifecycleInv, UnmovedStay
  <2>5. request' = [request EXCEPT ![c] = r] /\ UNCHANGED <<life, job, owner, plan, excused>>
    BY <1>2 DEF Count
  <2> HIDE DEF r
  <2> QED
    BY <2>1, <2>2, <2>3, <2>4, <2>5, OwnStepKeeps
<1>3. CASE ~Quiet(request[c].project)
  <2>1. Idle \in Requests
    BY DEF Requests
  <2> QED
    BY <1>3, <2>1, OwnStepKeeps DEF Count, Changes, Idle
<1> QED
  BY <1>2, <1>3

LEMMA JobEndsKeeps ==
  ASSUME LifecycleInv, NEW j \in Jobs, JobEnds(j)
  PROVE  LifecycleInv'
<1> USE DEF LifecycleInv, JobEnds
<1>1. \A k \in Jobs : job'[k] = IF k = j THEN "done" ELSE job[k]
  BY DEF TypeOK
<1>2. TypeOK'
  BY DEF TypeOK
<1>3. PlansOfRequests' /\ ArrivalsExcused' /\ UnmovedStay' /\ PlansStand'
  BY DEF PlansOfRequests, ArrivalsExcused, ItemStands, UnmovedStay, PlansStand
<1>4. AssignedEnded'
  <2> SUFFICES ASSUME NEW c \in Clients, request[c].op = "assign" PROVE job'[request[c].job] = "done"
    BY DEF AssignedEnded
  <2>1. request[c].job \in Jobs
    BY RequestFields DEF TypeOK, Assignment
  <2> QED
    BY <2>1, <1>1 DEF AssignedEnded
<1>7. SubmittedNew'
  BY <1>1 DEF SubmittedNew
<1>5. CountsHold'
  BY <1>1 DEF CountsHold, ActiveOf
<1>6. WindowOnly'
  BY <1>1 DEF WindowOnly, Leftover
<1> QED
  BY <1>2, <1>3, <1>4, <1>5, <1>6, <1>7

LEMMA CommitJobKeeps ==
  ASSUME LifecycleInv, NEW c \in Clients, CommitJob(c)
  PROVE  LifecycleInv'
<1> USE DEF LifecycleInv
<1> DEFINE r == request[c]
           n == IF r.plan = None THEN Idle
                ELSE [op |-> "plan", project |-> r.project, plan |-> r.plan, stored |-> TRUE]
           q == Noticed(r.project, r.job)
<1>1. r \in Submission /\ r.op = "submit" /\ ItemStands(r.plan)
  BY RequestFields DEF CommitJob, TypeOK
<1>2. r.job \in Jobs /\ r.project \in Projects \cup {None} /\ r.plan \in Plans \cup {None}
  BY <1>1 DEF Submission
<1>3. n \in Requests /\ n.op \in {"idle", "plan"} /\ (n.op = "plan" => r.plan # None /\ n.stored /\ n.plan = r.plan /\ n.project = r.project)
  <2>1. r.plan # None => r.project \in Projects
    BY <1>1 DEF PlansOfRequests
  <2> QED
    BY <1>2, <2>1 DEF Requests, Planning, Idle
<1>4. \A d \in Clients :
        /\ q[d] \in Requests /\ q[d].op = request[d].op
        /\ q[d].op \notin Changes => q[d] = request[d]
        /\ q[d].op \in Changes => /\ q[d].project = request[d].project
                                  /\ q[d].counted = request[d].counted /\ q[d].moved = request[d].moved
                                  /\ q[d].since = IF request[d].project = r.project THEN request[d].since \cup {r.job}
                                                  ELSE request[d].since
  <2> TAKE d \in Clients
  <2>2. request[d] \in Requests
    BY DEF TypeOK
  <2> HIDE DEF r, LifecycleInv
  <2>1. q[d] = IF request[d].op \in Changes /\ request[d].project = r.project
               THEN [request[d] EXCEPT !.since = @ \cup {r.job}] ELSE request[d]
    BY Zenon DEF Noticed
  <2> DEFINE x == request[d]
             m == q[d]
  <2>3. x \in Requests /\ m = IF x.op \in Changes /\ x.project = r.project
                              THEN [x EXCEPT !.since = @ \cup {r.job}] ELSE x
    BY <2>1, <2>2
  <2> HIDE DEF q, x, m
  <2>4. /\ m \in Requests
        /\ m.op = x.op
        /\ m.op \notin Changes => m = x
        /\ m.op \in Changes => /\ m.project = x.project /\ m.counted = x.counted /\ m.moved = x.moved
                               /\ m.since = IF x.project = r.project THEN x.since \cup {r.job} ELSE x.since
    <3>1. CASE x.op \in Changes /\ x.project = r.project
      <4>1. x \in Change /\ m = [x EXCEPT !.since = @ \cup {r.job}]
        BY <2>3, <3>1, RequestFields
      <4> QED
        BY <4>1, <3>1, <1>2 DEF Change, Requests
    <3>2. CASE ~(x.op \in Changes /\ x.project = r.project)
      BY <2>3, <3>2
    <3> QED
      BY <3>1, <3>2
  <2> QED
    BY <2>4 DEF x, m
<1>5. \A d \in Clients : request'[d] = IF d = c THEN n ELSE q[d]
  BY <1>1 DEF CommitJob, Noticed
<1>6. request' \in [Clients -> Requests]
  BY <1>3, <1>4, <1>5 DEF CommitJob, Noticed
<1>7. UNCHANGED <<life, plan, excused>>
  BY DEF CommitJob
<1>8. /\ job' = [job EXCEPT ![r.job] = "active"]
      /\ owner' = [owner EXCEPT ![r.job] = r.project]
  BY DEF CommitJob
<1> HIDE DEF r, n, q
<1>9. TypeOK'
  BY <1>2, <1>6, <1>7, <1>8 DEF TypeOK
<1>10. \A k \in Jobs : /\ job'[k] = IF k = r.job THEN "active" ELSE job[k]
                       /\ owner'[k] = IF k = r.job THEN r.project ELSE owner[k]
  BY <1>2, <1>8 DEF TypeOK
<1>11. \A d \in Clients : request'[d].op \notin Changes /\ d # c => request'[d] = request[d]
  BY <1>4, <1>5
<1>12. \A d \in Clients : request'[d].op \in {"submit", "assign"} => d # c /\ request'[d] = request[d]
  BY <1>3, <1>5, <1>11 DEF Changes
<1>13. \A d \in Clients : request'[d].op = "plan" /\ d # c => request'[d] = request[d]
  BY <1>11 DEF Changes
<1>14. n.op = "plan" => plan[n.plan] \in {n.project, Gone} /\ plan[n.plan] # None
  BY <1>1, <1>2, <1>3, LifecycleAssumption DEF r, PlansOfRequests
<1>15. PlansOfRequests'
  <2> SUFFICES ASSUME NEW d \in Clients
               PROVE /\ request'[d].op = "submit" /\ request'[d].plan # None =>
                         request'[d].project \in Projects /\ plan[request'[d].plan] \in {request'[d].project, Gone}
                     /\ request'[d].op = "plan" /\ request'[d].stored => plan[request'[d].plan] \in {request'[d].project, Gone}
                     /\ request'[d].op = "plan" /\ ~request'[d].stored =>
                         /\ plan[request'[d].plan] = None
                         /\ \A e \in Clients \ {d} : request'[e].op = "plan" => request'[e].plan # request'[d].plan
    BY <1>7 DEF PlansOfRequests
  <2>1. CASE d = c
    BY <2>1, <1>3, <1>5, <1>14
  <2>2. CASE d # c
    <3>1. request'[d].op \in {"submit", "plan"} => request'[d] = request[d]
      BY <2>2, <1>12, <1>13
    <3>2. request'[c] = n
      BY <1>5
    <3>3. request'[d].op = "plan" /\ ~request'[d].stored => \A e \in Clients \ {d} : request'[e].op = "plan" => request'[e].plan # request'[d].plan
      BY <3>1, <3>2, <1>13, <1>14 DEF PlansOfRequests
    <3> QED
      BY <3>1, <3>3 DEF PlansOfRequests
  <2> QED
    BY <2>1, <2>2
<1>16. AssignedEnded'
  <2> SUFFICES ASSUME NEW d \in Clients, request'[d].op = "assign" PROVE job'[request'[d].job] = "done"
    BY DEF AssignedEnded
  <2>1. request'[d] = request[d] /\ request[d].job \in Jobs /\ job[request[d].job] = "done"
    BY <1>12, RequestFields DEF AssignedEnded, TypeOK, Assignment
  <2>2. job[r.job] = "none"
    BY <1>1 DEF r, SubmittedNew
  <2> QED
    BY <2>1, <2>2, <1>10
<1>21. SubmittedNew'
  <2> SUFFICES ASSUME NEW d \in Clients, request'[d].op = "submit"
               PROVE /\ job'[request'[d].job] = "none"
                     /\ \A e \in Clients \ {d} : request'[e].op = "submit" => request'[e].job # request'[d].job
    BY DEF SubmittedNew
  <2>1. d # c /\ request'[d] = request[d] /\ request[d].job \in Jobs
    BY <1>12, RequestFields DEF TypeOK, Submission
  <2>2. request[d].job # r.job
    BY <2>1, <1>1 DEF r, SubmittedNew
  <2> QED
    BY <2>1, <2>2, <1>10, <1>12 DEF SubmittedNew
<1>17. ArrivalsExcused'
  BY <1>7, <1>12 DEF ArrivalsExcused, ItemStands
<1>18. CountsHold' /\ UnmovedStay'
  <2> SUFFICES ASSUME NEW d \in Clients, request'[d].op \in Changes
               PROVE /\ request'[d].op # "restore" /\ request'[d].counted =>
                          \A k \in Jobs : owner'[k] = request'[d].project /\ job'[k] = "active" => k \in request'[d].since
                     /\ ~request'[d].moved => life[request'[d].project] \in From(request'[d].op)
    BY <1>7 DEF CountsHold, UnmovedStay, Changes, ActiveOf
  <2>1. d # c
    BY <1>3, <1>5 DEF Changes
  <2>2. request'[d] = q[d]
    BY <2>1, <1>5
  <2>3. request[d].op \in Changes /\ (request[d].op # "restore" => request[d].op \in {"archive", "trash", "purge"})
    BY <2>2, <1>4 DEF Changes
  <2>4. request'[d].op # "restore" /\ request'[d].counted => ActiveOf(request[d].project) \subseteq request[d].since
    BY <2>2, <2>3, <1>4 DEF CountsHold
  <2>5. request'[d].op # "restore" /\ request'[d].counted =>
          \A k \in Jobs : owner'[k] = request'[d].project /\ job'[k] = "active" => k \in request'[d].since
    <3> DEFINE since == request[d].since
               p == request[d].project
    <3>1. request'[d].project = p /\ request'[d].since = IF p = r.project THEN since \cup {r.job} ELSE since
      BY <2>2, <1>4
    <3>2. request'[d].op # "restore" /\ request'[d].counted =>
            \A k \in Jobs : owner[k] = p /\ job[k] = "active" => k \in since
      BY <2>4 DEF ActiveOf
    <3> HIDE DEF since, p
    <3> QED
      BY <3>1, <3>2, <1>10
  <2>6. ~request'[d].moved => life[request'[d].project] \in From(request'[d].op)
    BY <2>2, <2>3, <1>4 DEF UnmovedStay
  <2> QED
    BY <2>5, <2>6
<1>19. WindowOnly'
  <2> SUFFICES ASSUME NEW p \in Projects, life[p] # "active", NEW k \in Jobs, owner'[k] = p,
                      job'[k] = "active" \/ life[p] = "absent"
               PROVE  k \in excused[p]
    BY <1>7 DEF WindowOnly, Leftover
  <2>1. CASE k = r.job
    BY <2>1, <1>1, <1>10 DEF r, ArrivalsExcused
  <2>2. CASE k # r.job
    BY <2>2, <1>10 DEF WindowOnly, Leftover
  <2> QED
    BY <2>1, <2>2
<1>20. PlansStand'
  BY <1>7 DEF PlansStand
<1> QED
  BY <1>9, <1>15, <1>16, <1>17, <1>18, <1>19, <1>20, <1>21

LEMMA CommitAssignmentKeeps ==
  ASSUME LifecycleInv, NEW c \in Clients, CommitAssignment(c)
  PROVE  LifecycleInv'
<1> USE DEF LifecycleInv
<1> DEFINE j == request[c].job
           p == request[c].project
<1>1. j \in Jobs /\ p \in Projects \cup {None} /\ job[j] = "done"
  BY RequestFields DEF CommitAssignment, TypeOK, Assignment, AssignedEnded
<1>2. Idle \in Requests /\ Idle.op = "idle"
  BY DEF Requests, Idle
<1>3. \A d \in Clients : request'[d] = IF d = c THEN Idle ELSE request[d]
  BY DEF CommitAssignment, TypeOK
<1>4. \A k \in Jobs : owner'[k] = IF k = j THEN p ELSE owner[k]
  BY <1>1 DEF CommitAssignment, TypeOK
<1>5. UNCHANGED <<life, job, plan, excused>>
  BY DEF CommitAssignment
<1>6. TypeOK'
  BY <1>1, <1>2, <1>5 DEF CommitAssignment, TypeOK
<1>7. p \in Projects /\ life[p] = "absent" => j \in excused[p]
  BY DEF ArrivalsExcused, CommitAssignment
<1> HIDE DEF j, p
<1>8. PlansOfRequests' /\ SubmittedNew' /\ AssignedEnded' /\ ArrivalsExcused'
  BY <1>2, <1>3, <1>5 DEF PlansOfRequests, SubmittedNew, AssignedEnded, ArrivalsExcused, ItemStands
<1>9. CountsHold' /\ UnmovedStay'
  BY <1>1, <1>2, <1>3, <1>4, <1>5 DEF CountsHold, UnmovedStay, ActiveOf, Changes
<1>10. WindowOnly'
  <2> SUFFICES ASSUME NEW x \in Projects, life[x] # "active", NEW k \in Jobs, owner'[k] = x,
                      job[k] = "active" \/ life[x] = "absent"
               PROVE  k \in excused[x]
    BY <1>5 DEF WindowOnly, Leftover
  <2>1. CASE k = j
    BY <2>1, <1>1, <1>4, <1>7
  <2>2. CASE k # j
    BY <2>2, <1>4 DEF WindowOnly, Leftover
  <2> QED
    BY <2>1, <2>2
<1>11. PlansStand'
  BY <1>5 DEF PlansStand
<1> QED
  BY <1>6, <1>8, <1>9, <1>10, <1>11

LEMMA StorePlanKeeps ==
  ASSUME LifecycleInv, NEW c \in Clients, StorePlan(c)
  PROVE  LifecycleInv'
<1> USE DEF LifecycleInv
<1> DEFINE g == request[c].plan
           p == request[c].project
           n == [request[c] EXCEPT !.stored = TRUE]
<1>1. request[c] \in Planning /\ ~request[c].stored /\ life[p] # "absent"
  BY RequestFields DEF StorePlan, TypeOK
<1>2. g \in Plans /\ p \in Projects
  BY <1>1 DEF Planning
<1>3. n \in Requests /\ n.op = "plan" /\ n.stored /\ n.plan = g /\ n.project = p
  BY <1>1 DEF Requests, Planning
<1>4. \A d \in Clients : request'[d] = IF d = c THEN n ELSE request[d]
  BY DEF StorePlan, TypeOK
<1>5. \A h \in Plans : plan'[h] = IF h = g THEN p ELSE plan[h]
  BY <1>2 DEF StorePlan, TypeOK
<1>6. UNCHANGED <<life, job, owner, excused>>
  BY DEF StorePlan
<1>7. TypeOK'
  BY <1>2, <1>3, <1>6 DEF StorePlan, TypeOK
<1>8. plan[g] = None /\ \A d \in Clients \ {c} : request[d].op = "plan" => request[d].plan # g
  BY <1>1, <1>3 DEF PlansOfRequests, StorePlan
<1> HIDE DEF g, p, n
<1>9. \A d \in Clients \ {c} :
        /\ request'[d] = request[d]
        /\ request[d].op = "submit" => request[d].plan \in Plans \cup {None}
        /\ request[d].op = "plan" => request[d].plan \in Plans
        /\ request[d].op \in {"submit", "plan"} => request[d].plan # g
  <2> TAKE d \in Clients \ {c}
  <2>1. request[d] \in Requests
    BY DEF TypeOK
  <2>2. /\ request[d].op = "submit" => request[d].plan \in Plans \cup {None}
        /\ request[d].op = "plan" => request[d].plan \in Plans
    BY <2>1, RequestFields DEF Submission, Planning
  <2>3. request[d].op = "submit" => request[d].plan # g
    BY <1>2, <1>8, LifecycleAssumption DEF PlansOfRequests
  <2> QED
    BY <1>4, <1>8, <2>2, <2>3
<1>10. PlansOfRequests'
  <2> SUFFICES ASSUME NEW d \in Clients
               PROVE /\ request'[d].op = "submit" /\ request'[d].plan # None =>
                         request'[d].project \in Projects /\ plan'[request'[d].plan] \in {request'[d].project, Gone}
                     /\ request'[d].op = "plan" /\ request'[d].stored => plan'[request'[d].plan] \in {request'[d].project, Gone}
                     /\ request'[d].op = "plan" /\ ~request'[d].stored =>
                         /\ plan'[request'[d].plan] = None
                         /\ \A e \in Clients \ {d} : request'[e].op = "plan" => request'[e].plan # request'[d].plan
    BY DEF PlansOfRequests
  <2>1. CASE d = c
    BY <2>1, <1>2, <1>3, <1>4, <1>5
  <2>2. CASE d # c
    <3>1. request'[d] = request[d]
      BY <2>2, <1>9
    <3>2. request[d].op = "submit" /\ request[d].plan # None => plan'[request[d].plan] = plan[request[d].plan]
      BY <2>2, <1>5, <1>9
    <3>3. request[d].op = "plan" => plan'[request[d].plan] = plan[request[d].plan]
      BY <2>2, <1>5, <1>9
    <3>4. request[d].op = "plan" => \A e \in Clients \ {d} : request'[e].op = "plan" =>
            request[e].op = "plan" /\ request'[e].plan = request[e].plan
      BY <1>3, <1>4, <1>8 DEF StorePlan, g
    <3> QED
      BY <3>1, <3>2, <3>3, <3>4 DEF PlansOfRequests
  <2> QED
    BY <2>1, <2>2
<1>11. SubmittedNew' /\ AssignedEnded' /\ UnmovedStay'
  BY <1>3, <1>4, <1>6, <1>9 DEF SubmittedNew, AssignedEnded, UnmovedStay, Changes
<1>12. CountsHold'
  BY <1>3, <1>4, <1>6 DEF CountsHold, ActiveOf
<1>13. ArrivalsExcused'
  <2> SUFFICES ASSUME NEW d \in Clients, request'[d].op \in {"submit", "assign"}
               PROVE /\ request'[d].op = "submit" /\ request'[d].project \in Projects /\ ItemStands(request[d].plan)' =>
                          life[request'[d].project] = "active" \/ request'[d].job \in excused[request'[d].project]
                     /\ request'[d].op = "assign" /\ request'[d].project \in Projects =>
                          life[request'[d].project] # "absent" \/ request'[d].job \in excused[request'[d].project]
    BY <1>3, <1>4, <1>6 DEF ArrivalsExcused, ItemStands
  <2>1. d # c /\ request'[d] = request[d]
    BY <1>3, <1>4
  <2>2. request[d].op = "submit" /\ request[d].plan # None => plan'[request[d].plan] = plan[request[d].plan]
    BY <2>1, <1>5, <1>9
  <2> QED
    BY <2>1, <2>2, <1>9 DEF ArrivalsExcused, ItemStands
<1>14. WindowOnly'
  BY <1>6 DEF WindowOnly, Leftover
<1>15. PlansStand'
  BY <1>1, <1>5, <1>6 DEF PlansStand, p
<1> QED
  BY <1>7, <1>10, <1>11, <1>12, <1>13, <1>14, <1>15

\* A step that gives Projects another life, and marks the changes of one Project.
\* What it must show of the Project itself is left to the two callers.
LEMMA LifeStepKeeps ==
  ASSUME LifecycleInv, NEW p \in Projects, NEW l \in Lives, NEW ex \in SUBSET Jobs,
         life' = [life EXCEPT ![p] = l], excused' = [excused EXCEPT ![p] = ex],
         NEW done, done \in SUBSET Clients,
         request' = [c \in Clients |-> IF c \in done THEN Idle ELSE Moved(p, request)[c]],
         UNCHANGED <<job, owner, plan>>,
         l # "absent",
         l # "active" =>
           /\ ActiveOf(p) \subseteq ex
           /\ \A c \in Clients \ done : request[c].op = "submit" /\ request[c].project = p => request[c].job \in ex
  PROVE  LifecycleInv'
<1> USE DEF LifecycleInv
<1>1. \A c \in Clients :
        LET m == Moved(p, request)[c] IN
        /\ m \in Requests
        /\ m.op = request[c].op
        /\ m.op \notin Changes => m = request[c]
        /\ m.op \in Changes => /\ m.project = request[c].project
                               /\ m.counted = request[c].counted /\ m.since = request[c].since
                               /\ ~m.moved => ~request[c].moved /\ request[c].project # p
  BY MarkedRequests DEF TypeOK
<1>2. Idle \in Requests /\ Idle.op = "idle"
  BY DEF Requests, Idle
<1>3. \A c \in Clients : request'[c] = IF c \in done THEN Idle ELSE Moved(p, request)[c]
  OBVIOUS
<1>4. /\ \A x \in Projects : life'[x] = IF x = p THEN l ELSE life[x]
      /\ \A x \in Projects : excused'[x] = IF x = p THEN ex ELSE excused[x]
  BY DEF TypeOK
<1>5. TypeOK'
  BY <1>1, <1>2 DEF TypeOK
<1>6. \A c \in Clients : request'[c].op \in {"submit", "assign", "plan"} => c \notin done /\ request'[c] = request[c]
  BY <1>1, <1>2, <1>3 DEF Changes
<1>7. PlansOfRequests' /\ SubmittedNew' /\ AssignedEnded'
  BY <1>6 DEF PlansOfRequests, SubmittedNew, AssignedEnded
<1>8. \A c \in Clients : request'[c].op \in Changes =>
        /\ request[c].op = request'[c].op
        /\ request'[c].project = request[c].project
        /\ request'[c].counted = request[c].counted /\ request'[c].since = request[c].since
        /\ ~request'[c].moved => ~request[c].moved /\ request[c].project # p
        /\ request[c].project \in Projects
  <2> TAKE c \in Clients
  <2> HAVE request'[c].op \in Changes
  <2>1. c \notin done /\ request'[c] = Moved(p, request)[c]
    BY <1>2, <1>3 DEF Changes
  <2>2. request[c].op \in Changes
    BY <2>1, <1>1
  <2>3. request[c].project \in Projects
    BY <2>2, RequestFields DEF TypeOK, Change
  <2> QED
    BY <2>1, <2>2, <2>3, <1>1
<1>9. CountsHold'
  BY <1>8 DEF CountsHold, ActiveOf, Changes
<1>10. UnmovedStay'
  BY <1>4, <1>8 DEF UnmovedStay
<1>11. ArrivalsExcused'
  BY <1>4, <1>6 DEF ArrivalsExcused, ItemStands
<1>12. WindowOnly'
  BY <1>4 DEF WindowOnly, Leftover, ActiveOf
<1>13. PlansStand'
  BY <1>4 DEF PlansStand
<1> QED
  BY <1>5, <1>7, <1>9, <1>10, <1>11, <1>12, <1>13

LEMMA CreateKeeps ==
  ASSUME LifecycleInv, NEW p \in Projects, Create(p)
  PROVE  LifecycleInv'
<1>1. request' = [c \in Clients |-> IF c \in {} THEN Idle ELSE Moved(p, request)[c]]
  BY DEF Create, Moved
<1>2. {} \in SUBSET Clients /\ {} \in SUBSET Jobs /\ "active" \in Lives
  BY DEF Lives
<1>3. /\ life' = [life EXCEPT ![p] = "active"] /\ excused' = [excused EXCEPT ![p] = {}]
      /\ UNCHANGED <<job, owner, plan>>
  BY DEF Create
<1> QED
  BY <1>1, <1>2, <1>3, LifeStepKeeps

LEMMA ChangeLifeKeeps ==
  ASSUME LifecycleInv, NEW c \in Clients, ChangeLife(c)
  PROVE  LifecycleInv'
<1> DEFINE r == request[c]
           ex == IF r.op = "restore" THEN {} ELSE r.since \cup OnTheWay(r.project, r.op)
<1>1. r \in Change /\ r.op \in {"archive", "trash", "restore"} /\ r.counted
  BY RequestFields DEF ChangeLife, LifecycleInv, TypeOK, Changes
<1>2. r.project \in Projects /\ r.since \in SUBSET Jobs
  BY <1>1 DEF Change
<1>3. To(r.op) \in Lives /\ To(r.op) # "absent" /\ (To(r.op) # "active" => r.op \in {"archive", "trash"})
  BY <1>1 DEF To, Lives
<1>4. ex \in SUBSET Jobs
  BY <1>2 DEF OnTheWay
<1>5. request' = [d \in Clients |-> IF d \in {c} THEN Idle ELSE Moved(r.project, request)[d]]
  BY DEF ChangeLife, Settle, Moved
<1>6. /\ life' = [life EXCEPT ![r.project] = To(r.op)]
      /\ excused' = [excused EXCEPT ![r.project] = ex]
      /\ UNCHANGED <<job, owner, plan>>
  BY DEF ChangeLife, Settle
<1>7. To(r.op) # "active" =>
        /\ ActiveOf(r.project) \subseteq ex
        /\ \A d \in Clients \ {c} : request[d].op = "submit" /\ request[d].project = r.project => request[d].job \in ex
  <2> SUFFICES ASSUME To(r.op) # "active"
               PROVE  /\ ActiveOf(r.project) \subseteq ex
                      /\ \A d \in Clients \ {c} :
                           request[d].op = "submit" /\ request[d].project = r.project => request[d].job \in ex
    OBVIOUS
  <2>1. r.op \in {"archive", "trash"}
    BY <1>3
  <2>2. ActiveOf(r.project) \subseteq r.since
    BY <1>1, <2>1 DEF LifecycleInv, CountsHold
  <2>3. \A d \in Clients : request[d].op = "submit" => request[d].job \in Jobs
    BY RequestFields DEF LifecycleInv, TypeOK, Submission
  <2> QED
    BY <2>1, <2>2, <2>3 DEF OnTheWay
<1>8. {c} \in SUBSET Clients
  OBVIOUS
<1> DEFINE l == To(r.op)
           p == r.project
<1> HIDE DEF ex, r, l, p
<1>9. p \in Projects /\ l \in Lives /\ l # "absent"
  BY <1>2, <1>3 DEF l, p
<1>10. /\ life' = [life EXCEPT ![p] = l] /\ excused' = [excused EXCEPT ![p] = ex]
       /\ UNCHANGED <<job, owner, plan>>
       /\ request' = [d \in Clients |-> IF d \in {c} THEN Idle ELSE Moved(p, request)[d]]
  BY <1>5, <1>6 DEF l, p
<1>11. l # "active" =>
        /\ ActiveOf(p) \subseteq ex
        /\ \A d \in Clients \ {c} : request[d].op = "submit" /\ request[d].project = p => request[d].job \in ex
  BY <1>7 DEF l, p
<1> QED
  BY <1>4, <1>8, <1>9, <1>10, <1>11, LifeStepKeeps

LEMMA PurgeKeeps ==
  ASSUME LifecycleInv, NEW c \in Clients, Purge(c)
  PROVE  LifecycleInv'
<1> USE DEF LifecycleInv
<1> DEFINE p == request[c].project
           ex == request[c].since \cup OnTheWay(p, "purge")
<1>1. request[c] \in Change /\ request[c].op = "purge"
  BY RequestFields DEF Purge, TypeOK, Changes
<1>2. p \in Projects /\ ex \in SUBSET Jobs
  BY <1>1 DEF Change, OnTheWay
<1>3. \A d \in Clients :
        LET m == Moved(p, request)[d] IN
        /\ m \in Requests
        /\ m.op = request[d].op
        /\ m.op \notin Changes => m = request[d]
        /\ m.op \in Changes => /\ m.project = request[d].project
                               /\ m.counted = request[d].counted /\ m.since = request[d].since
                               /\ ~m.moved => ~request[d].moved /\ request[d].project # p
  BY <1>2, MarkedRequests DEF TypeOK
<1>4. Idle \in Requests /\ Idle.op = "idle"
  BY DEF Requests, Idle
<1>5. request' = [d \in Clients |-> IF d = c THEN Idle ELSE Moved(p, request)[d]]
  BY DEF Purge, Settle, Moved
<1>6. UNCHANGED job
  BY DEF Purge
<1>7. /\ \A x \in Projects : life'[x] = IF x = p THEN "absent" ELSE life[x]
      /\ \A x \in Projects : excused'[x] = IF x = p THEN ex ELSE excused[x]
      /\ \A j \in Jobs : owner'[j] = IF owner[j] = p THEN None ELSE owner[j]
      /\ \A g \in Plans : plan'[g] = IF plan[g] = p THEN Gone ELSE plan[g]
  BY <1>1 DEF Purge, Settle, TypeOK, Detached, WithoutPlans
<1>8. TypeOK'
  <2>1. request' \in [Clients -> Requests]
    BY <1>3, <1>4, <1>5
  <2>2. life' \in [Projects -> Lives]
    BY DEF Purge, TypeOK, Lives
  <2>3. owner' \in [Jobs -> Projects \cup {None}]
    BY DEF Purge, TypeOK, Detached
  <2>4. plan' \in [Plans -> Projects \cup {None, Gone}]
    BY DEF Purge, TypeOK, WithoutPlans
  <2>5. excused' \in [Projects -> SUBSET Jobs]
    BY <1>1, <1>2 DEF Purge, Settle, TypeOK
  <2> QED
    BY <1>6, <2>1, <2>2, <2>3, <2>4, <2>5 DEF TypeOK
<1>9. \A d \in Clients : request'[d].op \in {"submit", "assign", "plan"} =>
        /\ request'[d] = request[d]
        /\ request[d].op \in {"submit", "assign"} => request[d].job \in Jobs
        /\ request[d].op = "submit" => request[d].plan \in Plans \cup {None}
        /\ request[d].op = "plan" => request[d].plan \in Plans /\ request[d].project \in Projects
  <2> TAKE d \in Clients
  <2> HAVE request'[d].op \in {"submit", "assign", "plan"}
  <2>1. request'[d] = request[d]
    BY <1>3, <1>4, <1>5 DEF Changes
  <2>2. request[d] \in Requests
    BY DEF TypeOK
  <2> QED
    BY <2>1, <2>2, RequestFields DEF Submission, Planning, Assignment
<1> HIDE DEF ex, p
<1>10. PlansOfRequests'
  <2>1. \A d \in Clients : request'[d].op = "submit" /\ request'[d].plan # None =>
          request'[d].project \in Projects /\ plan'[request'[d].plan] \in {request'[d].project, Gone}
    BY <1>7, <1>9 DEF PlansOfRequests
  <2>2. \A d \in Clients : request'[d].op = "plan" /\ request'[d].stored =>
          plan'[request'[d].plan] \in {request'[d].project, Gone}
    BY <1>7, <1>9 DEF PlansOfRequests
  <2>3. \A d \in Clients : request'[d].op = "plan" /\ ~request'[d].stored =>
          /\ plan'[request'[d].plan] = None
          /\ \A e \in Clients \ {d} : request'[e].op = "plan" => request'[e].plan # request'[d].plan
    BY <1>2, <1>7, <1>9, LifecycleAssumption DEF PlansOfRequests
  <2> QED
    BY <2>1, <2>2, <2>3 DEF PlansOfRequests
<1>11. SubmittedNew' /\ AssignedEnded'
  BY <1>6, <1>9 DEF SubmittedNew, AssignedEnded
<1>12. \A d \in Clients : request'[d].op \in Changes =>
        /\ request[d].op = request'[d].op
        /\ request'[d].project = request[d].project
        /\ request'[d].counted = request[d].counted /\ request'[d].since = request[d].since
        /\ ~request'[d].moved => ~request[d].moved /\ request[d].project # p
        /\ request[d].project \in Projects
  <2> TAKE d \in Clients
  <2> HAVE request'[d].op \in Changes
  <2>1. d # c /\ request'[d] = Moved(p, request)[d]
    BY <1>4, <1>5 DEF Changes
  <2>2. request[d].op \in Changes
    BY <2>1, <1>3
  <2>3. request[d].project \in Projects
    BY <2>2, RequestFields DEF TypeOK, Change
  <2> QED
    BY <2>1, <2>2, <2>3, <1>3
<1>13. CountsHold'
  BY <1>2, <1>6, <1>7, <1>12, LifecycleAssumption DEF CountsHold, ActiveOf, Changes
<1>14. UnmovedStay'
  BY <1>7, <1>12 DEF UnmovedStay
<1>15. ArrivalsExcused'
  <2> SUFFICES ASSUME NEW d \in Clients, request'[d].op \in {"submit", "assign"}, request'[d].project \in Projects
               PROVE /\ request'[d].op = "submit" /\ request'[d].plan \in {None} \cup {h \in Plans : plan'[h] # Gone} =>
                          life'[request'[d].project] = "active" \/ request'[d].job \in excused'[request'[d].project]
                     /\ request'[d].op = "assign" =>
                          life'[request'[d].project] # "absent" \/ request'[d].job \in excused'[request'[d].project]
    BY DEF ArrivalsExcused, ItemStands
  <2>1. request'[d] = request[d] /\ request[d].job \in Jobs
    BY <1>9
  <2>2. CASE request[d].project = p
    <3>1. request[d].op = "assign" => request[d].job \in ex
      BY <2>1, <2>2 DEF ex, OnTheWay
    <3>2. request[d].op = "submit" /\ request[d].plan = None => request[d].job \in ex
      BY <2>1, <2>2 DEF ex, OnTheWay
    <3>3. request[d].op = "submit" /\ request[d].plan # None => plan'[request[d].plan] = Gone
      BY <2>1, <2>2, <1>7, <1>9 DEF PlansOfRequests
    <3> QED
      BY <2>1, <2>2, <3>1, <3>2, <3>3, <1>7
  <2>3. CASE request[d].project # p
    <3>1. request[d].op = "submit" /\ request[d].plan \in {None} \cup {h \in Plans : plan'[h] # Gone} => ItemStands(request[d].plan)
      BY <1>7 DEF ItemStands
    <3> QED
      BY <2>1, <2>3, <3>1, <1>7 DEF ArrivalsExcused
  <2> QED
    BY <2>2, <2>3
<1>16. WindowOnly'
  BY <1>2, <1>6, <1>7, LifecycleAssumption DEF WindowOnly, Leftover
<1>17. PlansStand'
  BY <1>2, <1>7, LifecycleAssumption DEF PlansStand
<1> QED
  BY <1>8, <1>10, <1>11, <1>13, <1>14, <1>15, <1>16, <1>17

-----------------------------------------------------------------------------
(* Theorems.                                                               *)

LEMMA LifecycleInvNext == LifecycleInv /\ [Next]_vars => LifecycleInv'
<1> SUFFICES ASSUME LifecycleInv, [Next]_vars PROVE LifecycleInv'
  OBVIOUS
<1>1. CASE UNCHANGED vars
  BY <1>1 DEF vars, LifecycleInv, TypeOK, PlansOfRequests, SubmittedNew, AssignedEnded, ArrivalsExcused, ItemStands,
              CountsHold, ActiveOf, UnmovedStay, WindowOnly, Leftover, PlansStand
<1>2. ASSUME NEW p \in Projects, Create(p) PROVE LifecycleInv'
  BY <1>2, CreateKeeps
<1>3. ASSUME NEW j \in Jobs, JobEnds(j) PROVE LifecycleInv'
  BY <1>3, JobEndsKeeps
<1>4. ASSUME NEW c \in Clients, NEW p \in Projects \cup {None}, NEW j \in Jobs, Submit(c, p, j) \/ Assign(c, p, j)
      PROVE LifecycleInv'
  BY <1>4, SubmitKeeps, AssignKeeps
<1>5. ASSUME NEW c \in Clients, NEW p \in Projects, NEW g \in Plans, BeginPlan(c, p, g) \/ RetryPlan(c, p, g)
      PROVE LifecycleInv'
  BY <1>5, PlanKeeps
<1>6. ASSUME NEW c \in Clients, NEW p \in Projects, NEW op \in Changes, Begin(c, op, p) PROVE LifecycleInv'
  BY <1>6, BeginKeeps
<1>7. ASSUME NEW c \in Clients, NEW j \in Jobs, SubmitItem(c, j) PROVE LifecycleInv'
  BY <1>7, SubmitItemKeeps
<1>8. ASSUME NEW c \in Clients,
             CommitJob(c) \/ CommitAssignment(c) \/ StorePlan(c) \/ End(c) \/ GiveUp(c)
      PROVE LifecycleInv'
  BY <1>8, CommitJobKeeps, CommitAssignmentKeeps, StorePlanKeeps, EndKeeps
<1>9. ASSUME NEW c \in Clients, Count(c) \/ ChangeLife(c) \/ Purge(c) PROVE LifecycleInv'
  BY <1>9, CountKeeps, ChangeLifeKeeps, PurgeKeeps
<1> QED
  BY <1>1, <1>2, <1>3, <1>4, <1>5, <1>6, <1>7, <1>8, <1>9 DEF Next

\* The inductive invariant holds: in particular the types, and that requests which
\* can still bring a Job to a closed Project are excused.
THEOREM LifecycleInvariant == Spec => []LifecycleInv
BY LifecycleInvInit, LifecycleInvNext, PTL DEF Spec

\* WindowOnly: nothing works for a closed Project but what was past its check, or
\* past the count, when it was closed (projects.py: _impact, change, purge).
THEOREM ClosedProjectsRest == Spec => []WindowOnly
BY LifecycleInvariant, PTL DEF LifecycleInv

\* PlansStand: a purge takes the plans of its Project along, also those a request
\* was about to store.
THEOREM PlansGoWithProject == Spec => []PlansStand
BY LifecycleInvariant, PTL DEF LifecycleInv

LEMMA MovesAreLegal ==
  ASSUME LifecycleInv, [Next]_vars, NEW p \in Projects, life'[p] # life[p]
  PROVE  \/ <<life[p], life'[p]>> \in LegalMove
         \/ \E c \in Clients : /\ request[c].op \in Changes /\ request[c].project = p
                               /\ request[c].moved /\ request'[c] = Idle
<1> USE DEF LifecycleInv
<1>1. ASSUME NEW q \in Projects, Create(q) PROVE <<life[p], life'[p]>> \in LegalMove
  BY <1>1 DEF Create, TypeOK, LegalMove
<1>2. ASSUME NEW c \in Clients, ChangeLife(c) \/ Purge(c)
      PROVE  \/ <<life[p], life'[p]>> \in LegalMove
             \/ /\ request[c].op \in Changes /\ request[c].project = p
                /\ request[c].moved /\ request'[c] = Idle
  <2> DEFINE r == request[c]
  <2>1. r \in Change /\ r.op \in Changes
    BY <1>2, RequestFields DEF ChangeLife, Purge, TypeOK, Changes
  <2>2. r.project \in Projects /\ request'[c] = Idle
    BY <1>2, <2>1 DEF ChangeLife, Purge, Settle, Moved, Change
  <2>3. life' = [life EXCEPT ![r.project] = To(r.op)]
    BY <1>2 DEF ChangeLife, Purge, To
  <2>4. p = r.project /\ life'[p] = To(r.op)
    BY <2>2, <2>3 DEF TypeOK
  <2>5. CASE ~r.moved
    <3>1. life[p] \in From(r.op)
      BY <2>1, <2>4, <2>5 DEF UnmovedStay
    <3>2. From(r.op) \X {To(r.op)} \subseteq LegalMove
      BY <2>1 DEF Changes, From, To, LegalMove
    <3> QED
      BY <2>4, <3>1, <3>2
  <2> QED
    BY <2>1, <2>2, <2>4, <2>5
<1>3. CASE UNCHANGED life
  BY <1>3
<1> QED
  BY <1>1, <1>2, <1>3
     DEF Next, vars, JobEnds, Submit, Assign, BeginPlan, RetryPlan, Begin, SubmitItem, CommitJob, CommitAssignment,
         StorePlan, End, Count, GiveUp

\* OnlyLegalMoves: a Project moves along the edges of its lifecycle, unless another
\* change of it committed since this one looked.
THEOREM LifecycleKept == Spec => OnlyLegalMoves
<1>1. LifecycleInv /\ [Next]_vars =>
        [\A p \in Projects :
           life'[p] # life[p] =>
             \/ <<life[p], life'[p]>> \in LegalMove
             \/ \E c \in Clients : /\ request[c].op \in Changes /\ request[c].project = p
                                   /\ request[c].moved /\ request'[c] = Idle]_vars
  BY MovesAreLegal
<1> QED
  BY <1>1, LifecycleInvariant, PTL DEF Spec, OnlyLegalMoves

-----------------------------------------------------------------------------
(* Imports of packages.                                                    *)

ImportRequests ==
  {Waiting} \cup [step: ImportSteps, package: Packages, rows: SUBSET RowsOfImports, wrote: SUBSET Paths]

-----------------------------------------------------------------------------
(* The inductive invariant.                                                *)

Typed ==
  /\ IsFiniteSet(rows)
  /\ import \in [Importers -> ImportRequests]
  /\ confirming \in Importers \cup {NoLock}
  /\ \A m \in Importers : confirming = m => import[m] # Waiting

\* The files of imported images there are and those m may add to them.
Bound(m) ==
  UsedPaths \cup {Target(m, i) : i \in {k \in ItemsOf(m) \cap External : k \in Embeds \/ Path[k] \in files}}

\* The files of imported images in a set of rows.
UsedIn(some) == {r.path : r \in {q \in some : q.imported /\ q.complete}}

\* The import that holds the lock has room for what it is going to add; images
\* only leave before it commits.
Room ==
  \A m \in Importers : confirming = m =>
    /\ import[m].step \in {"verify", "write"} => IsFiniteSet(Bound(m)) /\ Cardinality(Bound(m)) <= Quota
    /\ import[m].step = "commit" =>
         /\ IsFiniteSet(UsedPaths \cup UsedIn(import[m].rows))
         /\ Cardinality(UsedPaths \cup UsedIn(import[m].rows)) <= Quota

\* What is about to be committed has its files and a row for each it wrote;
\* nothing is written before.
Pending ==
  \A m \in Importers : confirming = m =>
    /\ import[m].step \in {"quota", "verify", "write"} => import[m].wrote = {}
    /\ import[m].step = "commit" =>
         /\ IsFiniteSet(import[m].rows)
         /\ \A r \in import[m].rows : r.complete => r.path \in files \cup purged
         /\ \A p \in import[m].wrote : \E r \in import[m].rows : r.path = p

ImportInv == Typed /\ Room /\ Pending /\ QuotaKept /\ FilesOfImports

-----------------------------------------------------------------------------
(* Counting.                                                               *)

\* The image of a finite set is finite and no larger.
LEMMA ImageSize ==
  ASSUME NEW S, IsFiniteSet(S), NEW f, f \in [S -> {f[x] : x \in S}]
  PROVE  IsFiniteSet({f[x] : x \in S}) /\ Cardinality({f[x] : x \in S}) <= Cardinality(S)
<1> DEFINE T == {f[x] : x \in S}
<1>1. f \in Surjection(S, T)
  BY DEF Surjection
<1> HIDE DEF T
<1>2. IsFiniteSet(T) /\ Cardinality(T) <= Cardinality(S)
  BY <1>1, FS_Surjection
<1> QED
  BY <1>2 DEF T

LEMMA UsedFinite ==
  ASSUME NEW some, IsFiniteSet(some)
  PROVE  IsFiniteSet(UsedIn(some))
<1> DEFINE images == {q \in some : q.imported /\ q.complete}
           f == [r \in images |-> r.path]
<1>1. IsFiniteSet(images)
  BY FS_Subset
<1>2. UsedIn(some) = {f[r] : r \in images} /\ f \in [images -> {f[r] : r \in images}]
  BY DEF UsedIn
<1> HIDE DEF images, f
<1>3. IsFiniteSet({f[r] : r \in images})
  BY <1>1, <1>2, ImageSize
<1> QED
  BY <1>2, <1>3

LEMMA UsedIsUsedIn == UsedPaths = UsedIn(rows)
BY DEF UsedPaths, UsedIn

\* A smaller set is within the same limit.
LEMMA Within ==
  ASSUME NEW S, IsFiniteSet(S), Cardinality(S) <= Quota, NEW T, T \subseteq S
  PROVE  IsFiniteSet(T) /\ Cardinality(T) <= Quota
<1>1. IsFiniteSet(T) /\ Cardinality(T) <= Cardinality(S)
  BY FS_Subset
<1>2. Cardinality(T) \in Nat /\ Cardinality(S) \in Nat
  BY <1>1, FS_CardinalityType
<1> QED
  BY <1>1, <1>2, ImportAssumption

\* Embedded images with the same content have the same file.
FileOfSha(m, sha) == FileOf(m, First({k \in ItemsOf(m) \cap External \cap Embeds : Sha[k] = sha}))

LEMMA SameContentSameFile ==
  ASSUME NEW m \in Importers, NEW i \in ItemsOf(m) \cap External \cap Embeds
  PROVE  Target(m, i) = FileOfSha(m, Sha[i])
<1>1. Sharing(i, m) = {k \in ItemsOf(m) \cap External \cap Embeds : Sha[k] = Sha[i]}
  BY DEF Sharing
<1> QED
  BY <1>1 DEF Target, FileOfSha

\* The count of the preflight bounds what the import may leave behind.
LEMMA CountedIsBound ==
  ASSUME NEW m \in Importers, IsFiniteSet(rows), ItemsOf(m) \subseteq Items,
         Cardinality(UsedPaths) + Cardinality(Incoming(m)) <= Quota
  PROVE  IsFiniteSet(Bound(m)) /\ Cardinality(Bound(m)) <= Quota
<1> DEFINE images == ItemsOf(m) \cap External
           embedded == [i \in images \cap Embeds |-> <<"embedded", Sha[i]>>]
           there == {k \in images \ Embeds : Path[k] \in files \ UsedPaths}
           existing == [i \in there |-> <<"existing", Path[i]>>]
           file == [x \in Incoming(m) |-> IF x[1] = "embedded" THEN FileOfSha(m, x[2]) ELSE x[2]]
           targets == {file[x] : x \in Incoming(m)}
<1>1. IsFiniteSet(Items)
  BY ImportAssumption
<1>2. IsFiniteSet(images \cap Embeds) /\ IsFiniteSet(there)
  <2>1. images \cap Embeds \in SUBSET Items /\ there \in SUBSET Items
    OBVIOUS
  <2> HIDE DEF images, there
  <2> QED
    BY <1>1, <2>1, FS_Subset
<1>3. Incoming(m) = {embedded[i] : i \in images \cap Embeds} \cup {existing[i] : i \in there}
  BY DEF Incoming
<1>4. IsFiniteSet(Incoming(m))
  <2>1. /\ embedded \in [images \cap Embeds -> {embedded[i] : i \in images \cap Embeds}]
        /\ existing \in [there -> {existing[i] : i \in there}]
    OBVIOUS
  <2> HIDE DEF embedded, existing, there, images
  <2>2. IsFiniteSet({embedded[i] : i \in images \cap Embeds})
    <3> DEFINE S == images \cap Embeds
    <3>1. IsFiniteSet(S) /\ embedded \in [S -> {embedded[i] : i \in S}]
      BY <1>2, <2>1
    <3> HIDE DEF S
    <3>2. IsFiniteSet({embedded[i] : i \in S})
      BY <3>1, ImageSize
    <3> QED
      BY <3>2 DEF S
  <2>3. IsFiniteSet({existing[i] : i \in there})
    BY <1>2, <2>1, ImageSize
  <2> QED
    BY <1>3, <2>2, <2>3, FS_Union
<1>5. IsFiniteSet(targets) /\ Cardinality(targets) <= Cardinality(Incoming(m))
  <2> DEFINE S == Incoming(m)
  <2>1. file \in [S -> {file[x] : x \in S}] /\ IsFiniteSet(S)
    BY <1>4
  <2>2. targets = {file[x] : x \in S}
    OBVIOUS
  <2> HIDE DEF S, file
  <2>3. IsFiniteSet({file[x] : x \in S}) /\ Cardinality({file[x] : x \in S}) <= Cardinality(S)
    BY <2>1, ImageSize
  <2> QED
    BY <2>2, <2>3 DEF S
<1>6. Bound(m) \subseteq UsedPaths \cup targets
  <2> SUFFICES ASSUME NEW i \in images, i \in Embeds \/ Path[i] \in files, Target(m, i) \notin UsedPaths
               PROVE  Target(m, i) \in targets
    BY DEF Bound
  <2>1. CASE i \in Embeds
    <3> DEFINE x == <<"embedded", Sha[i]>>
    <3>1. x \in Incoming(m) /\ file[x] = FileOfSha(m, Sha[i])
      BY <2>1 DEF Incoming
    <3>2. Target(m, i) = FileOfSha(m, Sha[i])
      BY <2>1, SameContentSameFile
    <3> QED
      BY <3>1, <3>2
  <2>2. CASE i \notin Embeds
    <3> DEFINE x == <<"existing", Path[i]>>
    <3>1. Target(m, i) = Path[i] /\ Path[i] \in files \ UsedPaths
      BY <2>2 DEF Target
    <3>2. x \in Incoming(m) /\ file[x] = Path[i]
      BY <2>2, <3>1 DEF Incoming
    <3> QED
      BY <3>1, <3>2
  <2> QED
    BY <2>1, <2>2
<1>7. IsFiniteSet(UsedPaths)
  BY UsedFinite, UsedIsUsedIn
<1> HIDE DEF targets
<1>8. IsFiniteSet(UsedPaths \cup targets) /\ Cardinality(UsedPaths \cup targets) <= Quota
  <2>1. /\ IsFiniteSet(UsedPaths \cup targets)
        /\ Cardinality(UsedPaths \cup targets)
             = Cardinality(UsedPaths) + Cardinality(targets) - Cardinality(UsedPaths \cap targets)
    BY <1>5, <1>7, FS_Union
  <2>2. IsFiniteSet(UsedPaths \cap targets)
    BY <1>7, FS_Subset
  <2>3. /\ Cardinality(UsedPaths) \in Nat /\ Cardinality(targets) \in Nat /\ Cardinality(Incoming(m)) \in Nat
        /\ Cardinality(UsedPaths \cap targets) \in Nat
    BY <1>4, <1>5, <1>7, <2>2, FS_CardinalityType
  <2>4. Quota \in Nat
    BY ImportAssumption
  <2> QED
    BY <1>5, <2>1, <2>3, <2>4
<1> QED
  BY <1>6, <1>8, Within

-----------------------------------------------------------------------------
(* Steps.                                                                  *)

LEMMA InHand ==
  ASSUME Typed, NEW m \in Importers, confirming = m
  PROVE  /\ import[m] \in [step: ImportSteps, package: Packages, rows: SUBSET RowsOfImports, wrote: SUBSET Paths]
         /\ ItemsOf(m) \subseteq Items
<1>1. import[m] \in [step: ImportSteps, package: Packages, rows: SUBSET RowsOfImports, wrote: SUBSET Paths]
  BY DEF Typed, ImportRequests
<1> QED
  BY <1>1, ImportAssumption DEF ItemsOf

\* An import goes to another step with the rest of its state.
LEMMA StepsTo ==
  ASSUME Typed, NEW m \in Importers, confirming = m, NEW to \in ImportSteps, Step(m, to)
  PROVE  /\ import' \in [Importers -> ImportRequests] /\ import'[m] # Waiting
         /\ import'[m].step = to /\ import'[m].package = import[m].package
         /\ import'[m].rows = import[m].rows /\ import'[m].wrote = import[m].wrote
         /\ \A l \in Importers : l # m => import'[l] = import[l]
<1> DEFINE x == import[m]
           n == [x EXCEPT !.step = to]
<1>1. x \in [step: ImportSteps, package: Packages, rows: SUBSET RowsOfImports, wrote: SUBSET Paths]
  BY InHand
<1>2. import' = [import EXCEPT ![m] = n]
  BY DEF Step, Typed
<1>3. /\ n \in ImportRequests /\ n # Waiting /\ n.step = to /\ n.package = x.package /\ n.rows = x.rows /\ n.wrote = x.wrote
  <2> HIDE DEF x
  <2> QED
    BY <1>1 DEF ImportRequests, Waiting
<1> HIDE DEF n
<1>4. import' \in [Importers -> ImportRequests] /\ import'[m] = n /\ \A l \in Importers : l # m => import'[l] = import[l]
  BY <1>2, <1>3 DEF Typed
<1> QED
  BY <1>3, <1>4

LEMMA ImportInvInit == ImportInit => ImportInv
<1> SUFFICES ASSUME ImportInit PROVE ImportInv
  OBVIOUS
<1>1. Typed
  BY ImportAssumption DEF ImportInit, Typed, ImportRequests
<1>2. Room /\ Pending
  BY ImportAssumption DEF ImportInit, Room, Pending
<1>3. QuotaKept
  <2> DEFINE images == {q \in InitialRows : q.imported}
             all == {r.path : r \in images}
             f == [r \in images |-> r.path]
  <2>1. IsFiniteSet(images)
    BY ImportAssumption, FS_Subset
  <2>2. all = {f[r] : r \in images} /\ f \in [images -> {f[r] : r \in images}]
    OBVIOUS
  <2>3. IsFiniteSet(all)
    <3> HIDE DEF f, images, all
    <3>1. IsFiniteSet({f[r] : r \in images})
      BY <2>1, <2>2, ImageSize
    <3> QED
      BY <2>2, <3>1
  <2>4. Cardinality(all) <= Quota
    BY ImportAssumption
  <2>5. UsedPaths \subseteq all
    BY DEF ImportInit, UsedPaths
  <2> HIDE DEF all
  <2> QED
    BY <2>3, <2>4, <2>5, Within DEF QuotaKept
<1>4. FilesOfImports
  BY DEF ImportInit, FilesOfImports
<1> QED
  BY <1>1, <1>2, <1>3, <1>4 DEF ImportInv

LEMMA BeginImportKeeps ==
  ASSUME ImportInv, NEW m \in Importers, NEW package \in Packages, BeginImport(m, package)
  PROVE  ImportInv'
<1> USE DEF ImportInv
<1> DEFINE n == [step |-> "quota", package |-> package, rows |-> {}, wrote |-> {}]
<1>1. /\ confirming = NoLock /\ confirming' = m /\ import' = [import EXCEPT ![m] = n]
      /\ UNCHANGED <<rows, files, projects, strays, purged>>
  BY DEF BeginImport
<1>2. n \in ImportRequests /\ n.step = "quota" /\ n.wrote = {} /\ n # Waiting
  BY DEF ImportRequests, ImportSteps, Waiting
<1> HIDE DEF n
<1>3. import' \in [Importers -> ImportRequests] /\ import'[m] = n
  BY <1>1, <1>2 DEF Typed
<1>4. Typed'
  BY <1>1, <1>2, <1>3 DEF Typed
<1>5. Room' /\ Pending'
  BY <1>1, <1>2, <1>3 DEF Room, Pending
<1>6. QuotaKept'
  BY <1>1 DEF QuotaKept, UsedPaths
<1>7. FilesOfImports'
  BY <1>1, ImportAssumption DEF FilesOfImports
<1> QED
  BY <1>4, <1>5, <1>6, <1>7

LEMMA FailKeeps ==
  ASSUME ImportInv, NEW m \in Importers, Fail(m)
  PROVE  ImportInv'
<1> USE DEF ImportInv
<1>1. /\ confirming = m /\ confirming' = NoLock /\ Step(m, "ended") /\ strays' = strays \cup import[m].wrote
      /\ UNCHANGED <<rows, files, projects, purged>>
  BY DEF Fail
<1>2. import' \in [Importers -> ImportRequests]
  BY <1>1, StepsTo DEF ImportSteps
<1>3. Typed' /\ Room' /\ Pending'
  BY <1>1, <1>2, ImportAssumption DEF Typed, Room, Pending
<1>4. QuotaKept'
  BY <1>1 DEF QuotaKept, UsedPaths
<1>5. FilesOfImports'
  BY <1>1 DEF FilesOfImports
<1> QED
  BY <1>3, <1>4, <1>5

LEMMA CheckQuotaKeeps ==
  ASSUME ImportInv, NEW m \in Importers, CheckQuota(m)
  PROVE  ImportInv'
<1> USE DEF ImportInv
<1>1. /\ confirming = m /\ import[m].step = "quota" /\ Step(m, "verify")
      /\ Cardinality(UsedPaths) + Cardinality(Incoming(m)) <= Quota
      /\ UNCHANGED <<rows, files, projects, confirming, strays, purged>>
  BY DEF CheckQuota
<1>2. /\ import' \in [Importers -> ImportRequests] /\ import'[m] # Waiting
      /\ import'[m].step = "verify" /\ import'[m].package = import[m].package
      /\ import'[m].rows = import[m].rows /\ import'[m].wrote = import[m].wrote
      /\ \A l \in Importers : l # m => import'[l] = import[l]
  BY <1>1, StepsTo DEF ImportSteps
<1>3. Typed'
  BY <1>1, <1>2 DEF Typed
<1>4. Room'
  <2>1. IsFiniteSet(Bound(m)) /\ Cardinality(Bound(m)) <= Quota
    BY <1>1, InHand, CountedIsBound DEF Typed
  <2>2. Bound(m)' = Bound(m)
    BY <1>1, <1>2 DEF Bound, UsedPaths, Target, Sharing, ItemsOf
  <2> QED
    BY <1>1, <1>2, <2>1, <2>2 DEF Room
<1>5. Pending'
  BY <1>1, <1>2 DEF Pending
<1>6. QuotaKept'
  BY <1>1 DEF QuotaKept, UsedPaths
<1>7. FilesOfImports'
  BY <1>1, <1>2 DEF FilesOfImports
<1> QED
  BY <1>3, <1>4, <1>5, <1>6, <1>7

LEMMA VerifyKeeps ==
  ASSUME ImportInv, NEW m \in Importers, Verify(m)
  PROVE  ImportInv'
<1> USE DEF ImportInv
<1>1. /\ confirming = m /\ import[m].step = "verify" /\ Step(m, "write")
      /\ UNCHANGED <<rows, files, projects, confirming, strays, purged>>
  BY DEF Verify
<1>2. /\ import' \in [Importers -> ImportRequests] /\ import'[m] # Waiting
      /\ import'[m].step = "write" /\ import'[m].package = import[m].package
      /\ import'[m].rows = import[m].rows /\ import'[m].wrote = import[m].wrote
      /\ \A l \in Importers : l # m => import'[l] = import[l]
  BY <1>1, StepsTo DEF ImportSteps
<1>3. Typed'
  BY <1>1, <1>2 DEF Typed
<1>4. Room'
  <2>1. IsFiniteSet(Bound(m)) /\ Cardinality(Bound(m)) <= Quota
    BY <1>1 DEF Room
  <2>2. Bound(m)' = Bound(m)
    BY <1>1, <1>2 DEF Bound, UsedPaths, Target, Sharing, ItemsOf
  <2> QED
    BY <1>1, <1>2, <2>1, <2>2 DEF Room
<1>5. Pending'
  BY <1>1, <1>2 DEF Pending
<1>6. QuotaKept'
  BY <1>1 DEF QuotaKept, UsedPaths
<1>7. FilesOfImports'
  BY <1>1, <1>2 DEF FilesOfImports
<1> QED
  BY <1>3, <1>4, <1>5, <1>6, <1>7

\* The first of the images that share a file is one of them.
LEMMA TargetIn ==
  ASSUME NEW m \in Importers, ItemsOf(m) \subseteq Items, NEW i \in ItemsOf(m)
  PROVE  /\ Target(m, i) \in Paths
         /\ i \in Embeds => First(Sharing(i, m)) \in Items /\ Target(m, i) = FileOf(m, First(Sharing(i, m)))
         /\ i \notin Embeds => Target(m, i) = Path[i] /\ Path[i] \in {NoLock} \X Items
<1>1. CASE i \in Embeds
  <2>1. i \in Sharing(i, m) /\ Sharing(i, m) \subseteq Items
    BY <1>1 DEF Sharing
  <2>2. First(Sharing(i, m)) \in Items
    BY <2>1 DEF First
  <2> QED
    BY <1>1, <2>2 DEF Target, FileOf, Paths
<1>2. CASE i \notin Embeds
  BY <1>2, ImportAssumption DEF Target, Paths
<1> QED
  BY <1>1, <1>2

LEMMA WriteFilesKeeps ==
  ASSUME ImportInv, NEW m \in Importers, WriteFiles(m)
  PROVE  ImportInv'
<1> USE DEF ImportInv
<1> DEFINE new == {FileOf(m, First(Sharing(i, m))) : i \in ItemsOf(m) \cap Embeds}
<1>1. /\ confirming = m /\ import[m].step = "write"
      /\ UNCHANGED <<rows, projects, confirming, strays, purged>>
  BY DEF WriteFiles
<1>2. PICK wrote \in SUBSET new :
        /\ files' = files \cup wrote
        /\ import' = [import EXCEPT ![m].wrote = wrote,
                        ![m].step = IF wrote = new THEN "commit" ELSE "failed",
                        ![m].rows = IF wrote = new THEN {RowFor(m, i, files \cup new) : i \in ItemsOf(m)} ELSE {}]
  BY DEF WriteFiles
<1> DEFINE x == import[m]
           reached == IF wrote = new THEN "commit" ELSE "failed"
           made == IF wrote = new THEN {RowFor(m, i, files \cup new) : i \in ItemsOf(m)} ELSE {}
           n == [x EXCEPT !.wrote = wrote, !.step = reached, !.rows = made]
<1>3. /\ x \in [step: ImportSteps, package: Packages, rows: SUBSET RowsOfImports, wrote: SUBSET Paths]
      /\ ItemsOf(m) \subseteq Items /\ x.wrote = {}
  BY <1>1, InHand DEF Pending
<1>4. new \subseteq Paths /\ \A p \in new : p \in {m} \X Items
  <2>1. \A i \in ItemsOf(m) \cap Embeds : First(Sharing(i, m)) \in Items
    BY <1>3, TargetIn
  <2> QED
    BY <2>1 DEF FileOf, Paths
<1>5. made \subseteq RowsOfImports
  <2> SUFFICES ASSUME NEW i \in ItemsOf(m) PROVE RowFor(m, i, files \cup new) \in RowsOfImports
    OBVIOUS
  <2>1. Target(m, i) \in Paths /\ <<m, i>> \in Paths
    BY <1>3, TargetIn DEF Paths
  <2> HIDE DEF new
  <2> QED
    BY <2>1 DEF RowFor, RowsOfImports
<1>6. import' = [import EXCEPT ![m] = n]
  BY <1>2 DEF Typed
<1>7. n \in ImportRequests /\ n # Waiting /\ n.step = reached /\ n.package = x.package /\ n.rows = made /\ n.wrote = wrote
  <2>1. wrote \in SUBSET Paths /\ reached \in ImportSteps /\ made \in SUBSET RowsOfImports
    BY <1>2, <1>4, <1>5 DEF ImportSteps
  <2>2. x \in [step: ImportSteps, package: Packages, rows: SUBSET RowsOfImports, wrote: SUBSET Paths]
    BY <1>3
  <2>3. n = [x EXCEPT !.wrote = wrote, !.step = reached, !.rows = made]
    OBVIOUS
  <2> HIDE DEF x, made, reached, new, n
  <2>4. n.step = reached /\ n.package = x.package /\ n.rows = made /\ n.wrote = wrote
    BY <2>2, <2>3
  <2>5. n = [step |-> n.step, package |-> n.package, rows |-> n.rows, wrote |-> n.wrote]
    BY <2>2, <2>3
  <2>6. n \in [step: ImportSteps, package: Packages, rows: SUBSET RowsOfImports, wrote: SUBSET Paths]
    BY <2>1, <2>2, <2>4, <2>5
  <2> QED
    BY <2>4, <2>6 DEF ImportRequests, Waiting
<1> HIDE DEF n
<1>8. import' \in [Importers -> ImportRequests] /\ import'[m] = n /\ \A l \in Importers : l # m => import'[l] = import[l]
  BY <1>6, <1>7 DEF Typed
<1>9. Typed'
  BY <1>1, <1>7, <1>8 DEF Typed
<1>10. wrote = new => \A r \in made : r.imported /\ r.complete => r.path \in Bound(m)
  <2> SUFFICES ASSUME wrote = new, NEW i \in ItemsOf(m), RowFor(m, i, files \cup new).imported,
                      RowFor(m, i, files \cup new).complete
               PROVE  RowFor(m, i, files \cup new).path \in Bound(m)
    OBVIOUS
  <2>1. i \in External /\ (i \in Embeds \/ Target(m, i) \in files \cup new)
    BY DEF RowFor
  <2>2. i \notin Embeds => Path[i] \in files
    BY <1>3, <1>4, <2>1, TargetIn, ImportAssumption
  <2> QED
    BY <2>1, <2>2 DEF RowFor, Bound
<1>11. IsFiniteSet(made)
  <2> DEFINE S == ItemsOf(m)
             f == [i \in S |-> RowFor(m, i, files \cup new)]
  <2>1. IsFiniteSet(S)
    BY <1>3, ImportAssumption, FS_Subset
  <2>2. made \subseteq {f[i] : i \in S} /\ f \in [S -> {f[i] : i \in S}]
    OBVIOUS
  <2> HIDE DEF f, S, made
  <2>3. IsFiniteSet({f[i] : i \in S})
    BY <2>1, <2>2, ImageSize
  <2> QED
    BY <2>2, <2>3, FS_Subset
<1>12. Room'
  <2>1. IsFiniteSet(Bound(m)) /\ Cardinality(Bound(m)) <= Quota
    BY <1>1 DEF Room
  <2>2. UsedPaths' = UsedPaths /\ UsedPaths \subseteq Bound(m)
    BY <1>1 DEF UsedPaths, Bound
  <2>3. reached = "commit" => UsedPaths \cup UsedIn(made) \subseteq Bound(m)
    BY <1>10, <2>2 DEF UsedIn
  <2>4. reached \notin {"verify", "write"}
    OBVIOUS
  <2> HIDE DEF made, reached
  <2>5. reached = "commit" => /\ IsFiniteSet(UsedPaths \cup UsedIn(made))
                           /\ Cardinality(UsedPaths \cup UsedIn(made)) <= Quota
    BY <2>1, <2>3, Within
  <2>6. UsedIn(import'[m].rows) = UsedIn(made)
    BY <1>7, <1>8
  <2> SUFFICES ASSUME NEW l \in Importers, confirming = l
               PROVE  import'[l].step = "commit" =>
                        /\ IsFiniteSet(UsedPaths' \cup UsedIn(import'[l].rows))
                        /\ Cardinality(UsedPaths' \cup UsedIn(import'[l].rows)) <= Quota
    BY <1>1, <1>7, <1>8, <2>4 DEF Room
  <2> QED
    BY <1>1, <1>7, <1>8, <2>2, <2>5, <2>6
<1>13. Pending'
  <2>1. reached = "commit" => wrote = new /\ made = {RowFor(m, i, files \cup new) : i \in ItemsOf(m)}
    OBVIOUS
  <2>2. reached = "commit" => \A r \in made : r.complete => r.path \in files'
    <3> SUFFICES ASSUME wrote = new, NEW i \in ItemsOf(m), RowFor(m, i, files \cup new).complete
                 PROVE  RowFor(m, i, files \cup new).path \in files'
      BY <2>1
    <3>1. i \in Embeds => Target(m, i) \in new
      BY <1>3, TargetIn
    <3> QED
      BY <1>2, <3>1 DEF RowFor
  <2>3. reached = "commit" => \A p \in wrote : \E r \in made : r.path = p
    <3> SUFFICES ASSUME wrote = new, NEW i \in ItemsOf(m) \cap Embeds
                 PROVE  RowFor(m, i, files \cup new).path = FileOf(m, First(Sharing(i, m)))
      BY <2>1
    <3> QED
      BY <1>3, TargetIn DEF RowFor
  <2>4. reached \notin {"quota", "verify", "write"}
    OBVIOUS
  <2> HIDE DEF made, reached
  <2> QED
    BY <1>1, <1>7, <1>8, <1>11, <2>2, <2>3, <2>4 DEF Pending
<1>14. QuotaKept'
  BY <1>1 DEF QuotaKept, UsedPaths
<1>15. FilesOfImports'
  <2> HIDE DEF new, made, reached
  <2>1. import'[m].wrote = wrote /\ import[m].wrote = {}
    BY <1>3, <1>7, <1>8
  <2> QED
    BY <1>1, <1>2, <1>3, <2>1 DEF FilesOfImports
<1> QED
  BY <1>9, <1>12, <1>13, <1>14, <1>15

LEMMA CommitKeeps ==
  ASSUME ImportInv, NEW m \in Importers, CommitImport(m)
  PROVE  ImportInv'
<1> USE DEF ImportInv
<1>1. /\ confirming = m /\ confirming' = NoLock /\ import[m].step = "commit" /\ Step(m, "ended")
      /\ rows' = rows \cup import[m].rows
      /\ UNCHANGED <<files, strays, purged>>
  BY DEF CommitImport
<1>2. import' \in [Importers -> ImportRequests]
  BY <1>1, StepsTo DEF ImportSteps
<1>3. Typed'
  <2>1. IsFiniteSet(rows')
    BY <1>1, FS_Union DEF Typed, Pending
  <2> QED
    BY <1>1, <1>2, <2>1, ImportAssumption DEF Typed
<1>4. Room' /\ Pending'
  BY <1>1, ImportAssumption DEF Room, Pending
<1>5. QuotaKept'
  <2>1. UsedPaths' = UsedPaths \cup UsedIn(import[m].rows)
    BY <1>1 DEF UsedPaths, UsedIn
  <2> QED
    BY <1>1, <2>1 DEF QuotaKept, Room
<1>6. FilesOfImports'
  BY <1>1 DEF FilesOfImports, Pending
<1> QED
  BY <1>3, <1>4, <1>5, <1>6

LEMMA TakeNameKeeps ==
  ASSUME ImportInv, NEW n, TakeName(n)
  PROVE  ImportInv'
<1> USE DEF ImportInv
<1>1. UNCHANGED <<rows, files, confirming, import, strays, purged>>
  BY DEF TakeName
<1>2. UsedPaths' = UsedPaths
  BY <1>1 DEF UsedPaths
<1>3. \A m \in Importers : {Target(m, i) : i \in {k \in ItemsOf(m) \cap External : k \in Embeds \/ Path[k] \in files}}'
                           = {Target(m, i) : i \in {k \in ItemsOf(m) \cap External : k \in Embeds \/ Path[k] \in files}}
  BY <1>1 DEF Target, Sharing, ItemsOf
<1>4. Room'
  BY <1>1, <1>2, <1>3 DEF Room, Bound
<1> QED
  BY <1>1, <1>2, <1>4 DEF Typed, Pending, QuotaKept, FilesOfImports

\* Rows and files that go leave room.
LEMMA PurgeImagesKeeps ==
  ASSUME ImportInv, NEW r \in rows, PurgeRow(r)
  PROVE  ImportInv'
<1> USE DEF ImportInv
<1>1. /\ rows' = rows \ {r} /\ files' = files \ {p \in {r.path} : \A q \in rows \ {r} : q.path # p}
      /\ purged' = (IF confirming = NoLock THEN purged ELSE purged \cup {r.path})
      /\ UNCHANGED <<projects, confirming, import, strays>>
  BY DEF PurgeRow
<1>2. Typed'
  <2>1. IsFiniteSet(rows')
    BY <1>1, FS_Subset DEF Typed
  <2> QED
    BY <1>1, <2>1 DEF Typed
<1>3. UsedPaths' \subseteq UsedPaths
  BY <1>1 DEF UsedPaths
<1>4. IsFiniteSet(UsedPaths)
  BY UsedFinite, UsedIsUsedIn DEF Typed
<1>5. QuotaKept'
  BY <1>3, <1>4, Within DEF QuotaKept
<1>6. Room'
  <2> SUFFICES ASSUME NEW m \in Importers, confirming = m
               PROVE  /\ import[m].step \in {"verify", "write"} => IsFiniteSet(Bound(m)') /\ Cardinality(Bound(m)') <= Quota
                      /\ import[m].step = "commit" =>
                           /\ IsFiniteSet(UsedPaths' \cup UsedIn(import[m].rows))
                           /\ Cardinality(UsedPaths' \cup UsedIn(import[m].rows)) <= Quota
    BY <1>1 DEF Room
  <2>1. Bound(m)' \subseteq Bound(m)
    BY <1>1, <1>3 DEF Bound, Target, Sharing, ItemsOf
  <2>2. import[m].step \in {"verify", "write"} => IsFiniteSet(Bound(m)') /\ Cardinality(Bound(m)') <= Quota
    BY <2>1, Within DEF Room
  <2>3. UsedPaths' \cup UsedIn(import[m].rows) \subseteq UsedPaths \cup UsedIn(import[m].rows)
    BY <1>3
  <2>4. import[m].step = "commit" => /\ IsFiniteSet(UsedPaths' \cup UsedIn(import[m].rows))
                                     /\ Cardinality(UsedPaths' \cup UsedIn(import[m].rows)) <= Quota
    BY <2>3, Within DEF Room
  <2> QED
    BY <2>2, <2>4
<1>7. Pending'
  BY <1>1, ImportAssumption DEF Pending
<1>8. FilesOfImports'
  <2>1. ASSUME NEW q \in rows', q.complete PROVE q.path \in files' \cup purged'
    BY <1>1, <2>1 DEF FilesOfImports
  <2>2. ASSUME NEW p \in files'
        PROVE  \/ \E q \in rows' : q.path = p
               \/ p \in strays
               \/ \E m \in Importers : confirming = m /\ p \in import[m].wrote
    BY <1>1, <2>2 DEF FilesOfImports
  <2> QED
    BY <1>1, <2>1, <2>2 DEF FilesOfImports
<1> QED
  BY <1>2, <1>5, <1>6, <1>7, <1>8

-----------------------------------------------------------------------------
LEMMA ImportInvNext == ImportInv /\ [ImportNext]_importVars => ImportInv'
<1> SUFFICES ASSUME ImportInv, [ImportNext]_importVars PROVE ImportInv'
  OBVIOUS
<1>1. CASE UNCHANGED importVars
  <2>1. UNCHANGED <<rows, files, confirming, import, strays, purged>>
    BY <1>1 DEF importVars
  <2>2. UsedPaths' = UsedPaths
    BY <2>1 DEF UsedPaths
  <2>3. Room'
    BY <2>1, <2>2 DEF ImportInv, Room, Bound, Target, Sharing, ItemsOf
  <2> QED
    BY <2>1, <2>2, <2>3 DEF ImportInv, Typed, Pending, QuotaKept, FilesOfImports
<1>2. ASSUME NEW m \in Importers, NEW k \in Packages, BeginImport(m, k) PROVE ImportInv'
  BY <1>2, BeginImportKeeps
<1>3. ASSUME NEW m \in Importers, Fail(m) \/ CheckQuota(m) \/ Verify(m) \/ WriteFiles(m) \/ CommitImport(m)
      PROVE  ImportInv'
  BY <1>3, FailKeeps, CheckQuotaKeeps, VerifyKeeps, WriteFilesKeeps, CommitKeeps
<1>4. ASSUME NEW n \in {k.name : k \in Packages}, TakeName(n) PROVE ImportInv'
  BY <1>4, TakeNameKeeps
<1>5. ASSUME NEW r \in rows, PurgeRow(r) PROVE ImportInv'
  BY <1>5, PurgeImagesKeeps
<1> QED
  BY <1>1, <1>2, <1>3, <1>4, <1>5 DEF ImportNext

\* The count an import makes before it writes (portability.py, under
\* CONFIRM_LOCK) is still an upper bound when it commits.
THEOREM ImportsInvariant == ImportSpec => []ImportInv
<1>1. ImportInit => ImportInv
  BY ImportInvInit
<1>2. ImportInv /\ [ImportNext]_importVars => ImportInv'
  BY ImportInvNext
<1> QED
  BY <1>1, <1>2, PTL DEF ImportSpec

\* Imported images keep to their quota, complete rows have their files and files
\* have rows, whatever packages arrive, fail or are purged from in between.
THEOREM ImportsAreSafe == ImportSpec => []ImportsSafe
<1>1. ImportInv => ImportsSafe
  BY DEF ImportInv, ImportsSafe
<1> QED
  BY <1>1, ImportsInvariant, PTL

-----------------------------------------------------------------------------
(* Synchronisation with a source.                                          *)

LEMMA SyncBegins == SyncInit => SyncTypeOK
<1> SUFFICES ASSUME SyncInit PROVE SyncTypeOK
  OBVIOUS
<1>1. PICK t \in Titles : /\ source = [title |-> t, revision |-> 0]
                          /\ project = Imported(t)
                          /\ sync = [c \in Syncers |-> NoSync]
                          /\ crossed = FALSE
  BY DEF SyncInit
<1>2. 0 \in 0 .. Revisions
  BY SyncAssumption
<1>3. project \in Rows
  BY <1>1, <1>2 DEF Imported, Rows, Snapshots, SyncStates
<1>4. NoSync \in Syncs
  BY DEF Syncs
<1> QED
  BY <1>1, <1>2, <1>3, <1>4 DEF SyncTypeOK

\* A request is of one of two kinds: not begun, or with a row that it has read.
LEMMA SyncShape ==
  ASSUME SyncTypeOK, NEW c \in Syncers, sync[c] # NoSync
  PROVE  /\ sync[c].read \in Rows /\ sync[c].got \in Snapshots
         /\ sync[c].choice \in {"preview", "none", "local", "external"}
         /\ sync[c] \in [step: {"project", "rest", "compare"},
                         choice: {"preview", "none", "local", "external"},
                         read: Rows, got: Snapshots]
BY DEF SyncTypeOK, Syncs

\* What a request writes is a row.
LEMMA WriteType ==
  ASSUME SyncTypeOK, NEW c \in Syncers, NEW row \in Rows, sync[c] # NoSync, Write(c, row)
  PROVE  SyncTypeOK'
<1>1. sync[c].read \in Rows /\ project \in Rows
  BY SyncShape DEF SyncTypeOK
<1>2. project' \in Rows
  <2>1. project' = [name |-> Column(sync[c].read.name, row.name, project.name),
                    revision |-> Column(sync[c].read.revision, row.revision, project.revision),
                    snapshot |-> Column(sync[c].read.snapshot, row.snapshot, project.snapshot),
                    state |-> Column(sync[c].read.state, row.state, project.state)]
    BY <1>1 DEF Write, Rows
  <2> QED
    BY <1>1, <2>1 DEF Rows, Column
<1>3. sync' \in [Syncers -> Syncs] /\ crossed' \in BOOLEAN /\ source' = source
  BY DEF Write, SyncTypeOK, Syncs
<1> QED
  BY <1>2, <1>3 DEF SyncTypeOK

\* Every step keeps the types.
LEMMA SyncTypeStep == SyncTypeOK /\ [SyncNext]_syncVars => SyncTypeOK'
<1> SUFFICES ASSUME SyncTypeOK, [SyncNext]_syncVars PROVE SyncTypeOK'
  OBVIOUS
<1>1. CASE UNCHANGED syncVars
  BY <1>1 DEF SyncTypeOK, syncVars
<1>2. ASSUME NEW t \in Titles, SourceChanges(t) PROVE SyncTypeOK'
  BY <1>2, SyncAssumption DEF SourceChanges, SyncTypeOK
<1>3. ASSUME NEW t \in Titles, Rename(t) PROVE SyncTypeOK'
  BY <1>3 DEF Rename, SyncTypeOK, Rows
<1>4. ASSUME NEW c \in Syncers, NEW choice \in {"preview", "none", "local", "external"}, BeginSync(c, choice)
      PROVE  SyncTypeOK'
  BY <1>4 DEF BeginSync, SyncTypeOK, Syncs, Rows
<1>5. ASSUME NEW c \in Syncers, FetchProject(c) PROVE SyncTypeOK'
  <2>1. sync[c] # NoSync
    BY <1>5 DEF FetchProject, NoSync
  <2> DEFINE got == sync[c].got
  <2>2. [got EXCEPT !.title = source.title, !.revision = source.revision] \in Snapshots
    <3>1. got \in Snapshots /\ source.title \in Titles /\ source.revision \in 0 .. Revisions
      BY <2>1, SyncShape DEF SyncTypeOK
    <3> HIDE DEF got
    <3> QED
      BY <3>1 DEF Snapshots
  <2>3. sync'[c] \in Syncs
    BY <1>5, <2>1, <2>2, SyncShape DEF FetchProject, SyncTypeOK, Syncs
  <2> QED
    BY <1>5, <2>3 DEF FetchProject, SyncTypeOK
<1>6. ASSUME NEW c \in Syncers, FetchRest(c) PROVE SyncTypeOK'
  <2>1. sync[c] # NoSync
    BY <1>6 DEF FetchRest, NoSync
  <2>2. [sync[c].got EXCEPT !.content = source.revision] \in Snapshots
    BY <2>1, SyncShape DEF SyncTypeOK, Snapshots
  <2>3. sync'[c] \in Syncs
    BY <1>6, <2>1, <2>2, SyncShape DEF FetchRest, SyncTypeOK, Syncs
  <2> QED
    BY <1>6, <2>3 DEF FetchRest, SyncTypeOK
<1>7. ASSUME NEW c \in Syncers, FetchFails(c) PROVE SyncTypeOK'
  <2>1. sync[c] # NoSync
    BY <1>7 DEF FetchFails, NoSync
  <2>2. [sync[c].read EXCEPT !.state = "failed"] \in Rows
    BY <2>1, SyncShape DEF Rows, SyncStates
  <2> QED
    BY <1>7, <2>1, <2>2, WriteType DEF FetchFails
<1>8. ASSUME NEW c \in Syncers, Preview(c) PROVE SyncTypeOK'
  <2>1. sync[c] # NoSync
    BY <1>8 DEF Preview, NoSync
  <2>2. [sync[c].read EXCEPT !.state = Compared(sync[c].read, sync[c].got)] \in Rows
    BY <2>1, SyncShape DEF Rows, SyncStates, Compared
  <2> QED
    BY <1>8, <2>1, <2>2, WriteType DEF Preview
<1>9. ASSUME NEW c \in Syncers, Apply(c) PROVE SyncTypeOK'
  <2>1. sync[c] # NoSync
    BY <1>9 DEF Apply, NoSync
  <2>2. CASE Unresolved(c)
    <3>1. [sync[c].read EXCEPT !.state = "conflicted"] \in Rows
      BY <2>1, SyncShape DEF Rows, SyncStates
    <3> QED
      BY <1>9, <2>1, <2>2, <3>1, WriteType DEF Apply
  <2>3. CASE ~Unresolved(c)
    <3> DEFINE new == [name |-> IF sync[c].choice = "external" THEN sync[c].got.title ELSE sync[c].read.name,
                       revision |-> sync[c].got.revision, snapshot |-> sync[c].got, state |-> "synced"]
    <3>1. new \in Rows
      BY <2>1, SyncShape DEF Rows, SyncStates, Snapshots
    <3>2. Write(c, new)
      BY <1>9, <2>3 DEF Apply
    <3> QED
      BY <2>1, <3>1, <3>2, WriteType
  <2> QED
    BY <2>2, <2>3
<1> QED
  BY <1>1, <1>2, <1>3, <1>4, <1>5, <1>6, <1>7, <1>8, <1>9 DEF SyncNext

\* Every variable of a synchronisation keeps its type.
THEOREM SyncInvariance == SyncSpec => []SyncTypeOK
BY SyncBegins, SyncTypeStep, PTL DEF SyncSpec

-----------------------------------------------------------------------------
\* What a step does that ends a request which has compared.
SyncEndsWell(c) ==
  sync[c].step = "compare" /\ sync'[c] = NoSync =>
    /\ project'.name # project.name => sync[c].choice = "external"
    /\ \/ sync[c].choice \in {"local", "external"} \/ crossed'
       \/ project'.snapshot.title = project.snapshot.title
       \/ project.name = project.snapshot.title

\* What a write does to the name and to the snapshot.
LEMMA WriteColumns ==
  ASSUME SyncTypeOK, NEW c \in Syncers, NEW row \in Rows, sync[c] # NoSync, Write(c, row)
  PROVE  /\ project'.name = Column(sync[c].read.name, row.name, project.name)
         /\ project'.snapshot = Column(sync[c].read.snapshot, row.snapshot, project.snapshot)
         /\ crossed' \/ project = sync[c].read
BY SyncShape DEF Write, SyncTypeOK, Rows

\* A write of another request ends only that one.
LEMMA OthersWrite ==
  ASSUME SyncTypeOK, NEW c \in Syncers, NEW d \in Syncers, d # c, NEW row, Write(d, row),
         sync[c].step = "compare"
  PROVE  sync'[c] # NoSync
BY DEF Write, SyncTypeOK, NoSync

\* A name the user chose gives way only where the choice is "external"; no snapshot
\* replaces one that the name has departed from, without a choice or a second writer.
THEOREM NamesStayChosen == SyncSpec => NamesAreChosen
<1> DEFINE Well == \A c \in Syncers : SyncEndsWell(c)
<1>1. SyncTypeOK /\ [SyncNext]_syncVars => [Well]_syncVars
  <2> SUFFICES ASSUME SyncTypeOK, SyncNext PROVE Well
    OBVIOUS
  <2> SUFFICES ASSUME NEW c \in Syncers, sync[c].step = "compare", sync'[c] = NoSync PROVE SyncEndsWell(c)
    BY DEF SyncEndsWell
  <2>1. sync[c] # NoSync
    BY DEF NoSync
  <2>2. ASSUME NEW t \in Titles, SourceChanges(t) \/ Rename(t) PROVE FALSE
    BY <2>1, <2>2 DEF SourceChanges, Rename
  <2>3. ASSUME NEW d \in Syncers, NEW choice, BeginSync(d, choice) PROVE FALSE
    BY <2>1, <2>3 DEF BeginSync, SyncTypeOK, NoSync
  <2>4. ASSUME NEW d \in Syncers, FetchProject(d) \/ FetchRest(d) PROVE FALSE
    BY <2>1, <2>4 DEF FetchProject, FetchRest, SyncTypeOK, NoSync, Syncs
  <2>5. ASSUME NEW d \in Syncers, FetchFails(d) PROVE FALSE
    <3>1. d # c
      BY <2>5 DEF FetchFails
    <3> QED
      BY <2>5, <3>1, OthersWrite DEF FetchFails
  <2>6. ASSUME NEW d \in Syncers, Preview(d) PROVE SyncEndsWell(c)
    <3>1. d = c
      BY <2>6, OthersWrite DEF Preview
    <3> DEFINE row == [sync[c].read EXCEPT !.state = Compared(sync[c].read, sync[c].got)]
    <3>2. row \in Rows /\ row.name = sync[c].read.name /\ row.snapshot = sync[c].read.snapshot
      BY <2>1, SyncShape DEF Rows, SyncStates, Compared
    <3>3. Write(c, row)
      BY <2>6, <3>1 DEF Preview
    <3> HIDE DEF row
    <3> QED
      BY <2>1, <3>2, <3>3, WriteColumns DEF SyncEndsWell, Column
  <2>7. ASSUME NEW d \in Syncers, Apply(d) PROVE SyncEndsWell(c)
    <3>1. d = c
      BY <2>7, OthersWrite DEF Apply
    <3>2. CASE Unresolved(c)
      <4> DEFINE row == [sync[c].read EXCEPT !.state = "conflicted"]
      <4>1. row \in Rows /\ row.name = sync[c].read.name /\ row.snapshot = sync[c].read.snapshot
        BY <2>1, SyncShape DEF Rows, SyncStates
      <4>2. Write(c, row)
        BY <2>7, <3>1, <3>2 DEF Apply
      <4> HIDE DEF row
      <4> QED
        BY <2>1, <4>1, <4>2, WriteColumns DEF SyncEndsWell, Column
    <3>3. CASE ~Unresolved(c)
      <4> DEFINE row == [name |-> IF sync[c].choice = "external" THEN sync[c].got.title ELSE sync[c].read.name,
                         revision |-> sync[c].got.revision, snapshot |-> sync[c].got, state |-> "synced"]
      <4>1. /\ row \in Rows /\ row.snapshot = sync[c].got
            /\ sync[c].choice # "external" => row.name = sync[c].read.name
        BY <2>1, SyncShape DEF Rows, SyncStates, Snapshots
      <4>2. Write(c, row)
        BY <2>7, <3>1, <3>3 DEF Apply
      <4>3. sync[c].choice # "preview"
        BY <2>7, <3>1 DEF Apply
      <4> HIDE DEF row
      <4>4. sync[c].choice \in {"none", "local", "external"}
        BY <2>1, <4>3, SyncShape
      <4>5. sync[c].choice = "none" => ~Conflict(sync[c].read, sync[c].got)
        BY <3>3 DEF Unresolved
      <4> QED
        BY <2>1, <4>1, <4>2, <4>4, <4>5, WriteColumns DEF SyncEndsWell, Column, Conflict
    <3> QED
      BY <3>2, <3>3
  <2> QED
    BY <2>2, <2>3, <2>4, <2>5, <2>6, <2>7 DEF SyncNext
<1>2. NamesAreChosen <=> [][Well]_syncVars
  BY DEF NamesAreChosen, SyncEndsWell
<1> QED
  BY <1>1, <1>2, SyncInvariance, PTL DEF SyncSpec

-----------------------------------------------------------------------------
\* What a request has read and fetched is no newer than the source.
NotAhead(row) == row.snapshot.revision <= source.revision /\ row.snapshot.content <= source.revision
RevisionsInv ==
  /\ SyncTypeOK /\ RevisionOfSnapshot
  /\ \A c \in Syncers : sync[c] # NoSync =>
       /\ NotAhead(sync[c].read)
       /\ sync[c].got.revision <= source.revision /\ sync[c].got.content <= source.revision

LEMMA RevisionsWrite ==
  ASSUME RevisionsInv, NEW c \in Syncers, NEW row \in Rows, sync[c] # NoSync, Write(c, row), NotAhead(row),
         \/ row.revision = row.snapshot.revision
         \/ row.revision = sync[c].read.revision /\ row.snapshot = sync[c].read.snapshot
  PROVE  RevisionsInv'
<1>1. SyncTypeOK'
  BY WriteType DEF RevisionsInv
<1>2. /\ project'.revision = Column(sync[c].read.revision, row.revision, project.revision)
      /\ project'.snapshot = Column(sync[c].read.snapshot, row.snapshot, project.snapshot)
      /\ crossed' = (crossed \/ project # sync[c].read)
      /\ source' = source
  BY SyncShape DEF Write, SyncTypeOK, RevisionsInv, Rows
<1>3. RevisionOfSnapshot'
  BY <1>2 DEF RevisionsInv, RevisionOfSnapshot, NotAhead, Column
<1>4. ASSUME NEW d \in Syncers, sync'[d] # NoSync
      PROVE  sync'[d] = sync[d]
  BY <1>4 DEF Write, RevisionsInv, SyncTypeOK
<1> QED
  BY <1>1, <1>2, <1>3, <1>4 DEF RevisionsInv, NotAhead

LEMMA RevisionsStep == RevisionsInv /\ [SyncNext]_syncVars => RevisionsInv'
<1> SUFFICES ASSUME RevisionsInv, [SyncNext]_syncVars PROVE RevisionsInv'
  OBVIOUS
<1>0. SyncTypeOK'
  BY SyncTypeStep DEF RevisionsInv
<1>1. CASE UNCHANGED syncVars
  BY <1>0, <1>1 DEF RevisionsInv, RevisionOfSnapshot, NotAhead, syncVars
<1>2. ASSUME NEW t \in Titles, SourceChanges(t) PROVE RevisionsInv'
  <2>1. source'.revision = source.revision + 1 /\ UNCHANGED <<project, sync, crossed>> /\ source.revision \in Nat
    BY <1>2, SyncAssumption DEF SourceChanges, RevisionsInv, SyncTypeOK
  <2>2. ASSUME NEW n \in 0 .. Revisions, n <= source.revision PROVE n <= source'.revision
    BY <2>1, <2>2, SyncAssumption
  <2>3. RevisionOfSnapshot'
    <3>1. project.snapshot.revision \in 0 .. Revisions /\ project.snapshot.content \in 0 .. Revisions
      BY DEF RevisionsInv, SyncTypeOK, Rows, Snapshots
    <3> QED
      BY <2>1, <2>2, <3>1 DEF RevisionsInv, RevisionOfSnapshot
  <2>4. ASSUME NEW c \in Syncers, sync[c] # NoSync
        PROVE  /\ NotAhead(sync[c].read)'
               /\ (sync[c].got.revision <= source.revision /\ sync[c].got.content <= source.revision)'
    <3>1. /\ sync[c].read.snapshot.revision \in 0 .. Revisions /\ sync[c].read.snapshot.content \in 0 .. Revisions
          /\ sync[c].got.revision \in 0 .. Revisions /\ sync[c].got.content \in 0 .. Revisions
      BY <2>4, SyncShape DEF RevisionsInv, Rows, Snapshots
    <3> QED
      BY <2>1, <2>2, <2>4, <3>1 DEF RevisionsInv, NotAhead
  <2> QED
    BY <1>0, <2>1, <2>3, <2>4 DEF RevisionsInv
<1>3. ASSUME NEW t \in Titles, Rename(t) PROVE RevisionsInv'
  BY <1>0, <1>3 DEF Rename, RevisionsInv, RevisionOfSnapshot, NotAhead, SyncTypeOK, Rows
<1>4. ASSUME NEW c \in Syncers, NEW choice, BeginSync(c, choice) PROVE RevisionsInv'
  <2>1. UNCHANGED <<source, project, crossed>> /\ RevisionOfSnapshot'
    BY <1>4 DEF BeginSync, RevisionsInv, RevisionOfSnapshot
  <2>2. ASSUME NEW d \in Syncers, sync'[d] # NoSync
        PROVE  sync'[d] = sync[d] \/ (sync'[d].read = project /\ sync'[d].got = project.snapshot)
    BY <1>4 DEF BeginSync, RevisionsInv, SyncTypeOK
  <2> QED
    BY <1>0, <2>1, <2>2 DEF RevisionsInv, NotAhead, RevisionOfSnapshot
<1>5. ASSUME NEW c \in Syncers, FetchProject(c) \/ FetchRest(c) PROVE RevisionsInv'
  <2>1. UNCHANGED <<source, project, crossed>> /\ RevisionOfSnapshot' /\ sync[c] # NoSync
    BY <1>5 DEF FetchProject, FetchRest, RevisionsInv, RevisionOfSnapshot, NoSync
  <2>2. /\ \A d \in Syncers \ {c} : sync'[d] = sync[d]
        /\ sync'[c].read = sync[c].read
        /\ sync'[c].got.revision \in {sync[c].got.revision, source.revision}
        /\ sync'[c].got.content \in {sync[c].got.content, source.revision}
    BY <1>5, <2>1, SyncShape DEF FetchProject, FetchRest, RevisionsInv, SyncTypeOK, Snapshots
  <2>3. source.revision \in Nat /\ source.revision <= source.revision
    BY SyncAssumption DEF RevisionsInv, SyncTypeOK
  <2> QED
    BY <1>0, <2>1, <2>2, <2>3 DEF RevisionsInv, NotAhead
<1>6. ASSUME NEW c \in Syncers, FetchFails(c) PROVE RevisionsInv'
  <2>1. sync[c] # NoSync
    BY <1>6 DEF FetchFails, NoSync
  <2> DEFINE row == [sync[c].read EXCEPT !.state = "failed"]
  <2>2. row \in Rows /\ row.revision = sync[c].read.revision /\ row.snapshot = sync[c].read.snapshot
    BY <2>1, SyncShape DEF Rows, SyncStates, RevisionsInv
  <2>3. Write(c, row)
    BY <1>6 DEF FetchFails
  <2> HIDE DEF row
  <2> QED
    BY <2>1, <2>2, <2>3, RevisionsWrite DEF RevisionsInv, NotAhead
<1>7. ASSUME NEW c \in Syncers, Preview(c) PROVE RevisionsInv'
  <2>1. sync[c] # NoSync
    BY <1>7 DEF Preview, NoSync
  <2> DEFINE row == [sync[c].read EXCEPT !.state = Compared(sync[c].read, sync[c].got)]
  <2>2. row \in Rows /\ row.revision = sync[c].read.revision /\ row.snapshot = sync[c].read.snapshot
    BY <2>1, SyncShape DEF Rows, SyncStates, Compared, RevisionsInv
  <2>3. Write(c, row)
    BY <1>7 DEF Preview
  <2> HIDE DEF row
  <2> QED
    BY <2>1, <2>2, <2>3, RevisionsWrite DEF RevisionsInv, NotAhead
<1>8. ASSUME NEW c \in Syncers, Apply(c) PROVE RevisionsInv'
  <2>1. sync[c] # NoSync
    BY <1>8 DEF Apply, NoSync
  <2>2. CASE Unresolved(c)
    <3> DEFINE row == [sync[c].read EXCEPT !.state = "conflicted"]
    <3>1. row \in Rows /\ row.revision = sync[c].read.revision /\ row.snapshot = sync[c].read.snapshot
      BY <2>1, SyncShape DEF Rows, SyncStates, RevisionsInv
    <3>2. Write(c, row)
      BY <1>8, <2>2 DEF Apply
    <3> HIDE DEF row
    <3> QED
      BY <2>1, <3>1, <3>2, RevisionsWrite DEF RevisionsInv, NotAhead
  <2>3. CASE ~Unresolved(c)
    <3> DEFINE row == [name |-> IF sync[c].choice = "external" THEN sync[c].got.title ELSE sync[c].read.name,
                       revision |-> sync[c].got.revision, snapshot |-> sync[c].got, state |-> "synced"]
    <3>1. row \in Rows /\ row.revision = row.snapshot.revision /\ row.snapshot = sync[c].got
      BY <2>1, SyncShape DEF Rows, SyncStates, Snapshots, RevisionsInv
    <3>2. Write(c, row)
      BY <1>8, <2>3 DEF Apply
    <3> HIDE DEF row
    <3> QED
      BY <2>1, <3>1, <3>2, RevisionsWrite DEF RevisionsInv, NotAhead
  <2> QED
    BY <2>2, <2>3
<1> QED
  BY <1>1, <1>2, <1>3, <1>4, <1>5, <1>6, <1>7, <1>8 DEF SyncNext

\* While no request wrote over another's row, the recorded revision is the snapshot's,
\* and no snapshot is newer than the source.
THEOREM RevisionsMatch == SyncSpec => []RevisionOfSnapshot
<1>1. SyncInit => RevisionsInv
  <2> SUFFICES ASSUME SyncInit PROVE RevisionsInv
    OBVIOUS
  <2>1. SyncTypeOK
    BY SyncBegins
  <2>2. \E t \in Titles : source = [title |-> t, revision |-> 0] /\ project = Imported(t)
    BY DEF SyncInit
  <2>3. sync = [c \in Syncers |-> NoSync]
    BY DEF SyncInit
  <2> QED
    BY <2>1, <2>2, <2>3 DEF RevisionsInv, RevisionOfSnapshot, Imported
<1>2. RevisionsInv => RevisionOfSnapshot
  BY DEF RevisionsInv
<1> QED
  BY <1>1, <1>2, RevisionsStep, PTL DEF SyncSpec

-----------------------------------------------------------------------------
(* The source itself: what a request is told.                              *)

Fields == {"at", "ask", "key", "held", "checks", "since", "down", "answer"}
Resting == {"idle", "done"}
OfGit == {"first", "first canon", "lock", "main", "canon", "build"}
OfFile == {"stat", "load"}

\* The kinds of source go through different steps.
PlaceFits(r) ==
  /\ r.at \in Resting \cup {"check", "fallback", "http"} \cup OfGit \cup OfFile
  /\ kind = "git" => r.at \notin OfFile \cup {"http"}
  /\ kind = "fixture" => r.at \notin OfGit \cup {"http"}
  /\ kind = "http" => r.at \notin OfGit \cup OfFile \cup {"check"}

\* While a request is answered it has seen where the refs are.
SinceFits(r) ==
  /\ r.since.main \subseteq DOMAIN Trees
  /\ r.at \notin Resting => head.main \in r.since.main /\ head.canon \in r.since.canon

\* What it goes by is of trees the refs pointed at in the meantime.
KeyFits(r) ==
  /\ r.at \in {"first canon", "canon", "build", "check", "load"} => r.key[1] \in r.since.main
  /\ r.at \in {"build", "check", "load"} => r.key[2] \in r.since.canon
  /\ r.at = "load" => r.key = <<r.key[1], NoTree>> /\ r.key[1] <= head.main

HeldFits(r) ==
  /\ kind = "git" /\ r.at \in {"first canon", "check"} => r.held.of = r.held.key
  /\ r.at = "check" => r.held.of[1] \in r.since.main /\ r.held.of[2] \in r.since.canon
  /\ kind = "fixture" /\ r.at = "check" => r.held.of = <<r.held.of[1], NoTree>>

WholeList == {"scenes", "canons", "canon"}
Rewritten(r) == \E m, n \in r.since.main : m # n

\* The scene that is asked for was found under its Project, in the document that
\* is looked at; a file that was not written meanwhile has one document only.
ScenePassed(r) ==
  IF kind = "git" THEN Passes(Document(r.held.of), r.ask, "scene")
  ELSE Rewritten(r) \/ \A m \in r.since.main : Passes(Document(<<m, NoTree>>), r.ask, "scene")

ChecksFit(r) ==
  /\ r.checks \in {<<"project">>, <<"project", "scene">>, <<"scene">>, <<>>}
  /\ r.at \notin Resting =>
       /\ r.checks = <<"project">> => r.ask.op \in WholeList
       /\ r.at \in OfGit => r.checks # <<>> /\ r.checks # <<"scene">>
  /\ r.at \in {"check"} \cup OfFile =>
       /\ r.checks \in {<<"scene">>, <<>>} => r.ask.project \in SourceProjects
       /\ r.checks = <<>> /\ r.ask.op \notin WholeList => ScenePassed(r)

\* Answers that were given: those of the properties.
AnswerFits(r) ==
  r.at = "done" /\ kind # "http" =>
    /\ r.answer.is \in {"answer", "missing", "broken"} =>
         r.answer.of[1] \in r.since.main /\ r.answer.of[2] \in r.since.canon
    /\ r.answer.is = "answer" =>
         \A x \in r.answer.refs :
           IF x.second THEN x.rev = r.answer.of[2] /\ x.path \in CanonTrees[x.rev]
           ELSE x.rev = r.answer.of[1] /\ x.path \in Trees[x.rev].files
    /\ r.answer.is = "answer" => (kind = "fixture" /\ Rewritten(r)) \/ r.answer.home \subseteq {r.ask.project}
    /\ r.answer.is = "broken" => kind = "fixture" /\ Rewritten(r)
    /\ r.answer.is \in {"kept", "unavailable"} => r.down

RequestFits(r) ==
  /\ DOMAIN r = Fields
  /\ PlaceFits(r) /\ SinceFits(r) /\ KeyFits(r) /\ HeldFits(r) /\ ChecksFit(r) /\ AnswerFits(r)
  /\ r.at = "fallback" => r.down

HeadFits ==
  /\ DOMAIN head = {"main", "canon", "moves"}
  /\ head.main \in DOMAIN Trees
  /\ kind # "git" => head.canon = NoTree

CacheFits ==
  /\ kind = "git" => cached.of = cached.key
  /\ kind = "fixture" =>
       /\ cached.key = <<cached.key[1], NoTree>> /\ cached.of = <<cached.of[1], NoTree>>
       /\ cached.key[1] \in DOMAIN Trees /\ cached.of[1] \in DOMAIN Trees
       /\ cached.key[1] <= cached.of[1] /\ cached.of[1] <= head.main

LockFits ==
  /\ lock \subseteq Threads /\ \A t, u \in lock : t = u
  /\ \A t \in Threads : t \in lock <=> thread[t].at \in {"main", "canon", "build"}

SourceInv ==
  /\ kind \in Kinds /\ DOMAIN thread = Threads
  /\ HeadFits /\ CacheFits /\ LockFits
  /\ \A t \in Threads : RequestFits(thread[t])

-----------------------------------------------------------------------------
\* A reference of a document is of a commit of its key, and of a file in it.
IsOf(x, key) ==
  IF x.second THEN x.rev = key[2] /\ x.path \in CanonTrees[x.rev]
  ELSE x.rev = key[1] /\ x.path \in Trees[x.rev].files

LEMMA RefsAreOfKey ==
  ASSUME NEW paths, NEW key, NEW x \in RefsTo(paths, key)
  PROVE  IsOf(x, key)
BY DEF RefsTo, IsOf, NoTree

LEMMA DocumentRefs ==
  ASSUME NEW key
  PROVE  /\ \A s \in Scenes(Document(key)) : \A x \in Document(key).refs[s] : IsOf(x, key)
         /\ \A p \in SourceProjects : \A x \in Document(key).canon[p] : IsOf(x, key)
         /\ Document(key).projects \subseteq SourceProjects
<1> DEFINE all == UNION {Trees[key[1]].scenes[p] : p \in SourceProjects}
<1>1. Scenes(Document(key)) = all
  BY DEF Scenes, Document
<1>2. \A s \in all : Document(key).refs[s] = RefsTo(Trees[key[1]].declares[s], key)
  BY DEF Document
<1>3. \A p \in SourceProjects : Document(key).canon[p] =
         RefsTo(UNION {Trees[key[1]].declares[s] : s \in Trees[key[1]].scenes[p]} \cup Trees[key[1]].voices[p], key)
  BY DEF Document
<1>4. Document(key).projects \subseteq SourceProjects
  BY DEF Document
<1>5. \A s \in Scenes(Document(key)) : \A x \in Document(key).refs[s] : IsOf(x, key)
  BY <1>1, <1>2, RefsAreOfKey
<1>6. \A p \in SourceProjects : \A x \in Document(key).canon[p] : IsOf(x, key)
  BY <1>3, RefsAreOfKey
<1> QED BY <1>4, <1>5, <1>6

\* One request changes, and neither the source nor its refs.
LEMMA OneRequest ==
  ASSUME SourceInv, NEW t \in Threads, NEW r, Become(t, r), Keep,
         RequestFits(r), CacheFits', LockFits'
  PROVE  SourceInv'
<1>1. DOMAIN thread' = Threads /\ kind' = kind /\ head' = head
  BY DEF SourceInv, Become, Keep
<1>2. HeadFits'
  BY <1>1 DEF SourceInv, HeadFits
<1>3. ASSUME NEW u \in Threads PROVE RequestFits(thread[u])'
  <2>1. PICK x : x = thread'[u] /\ RequestFits(x)
    BY <1>1 DEF SourceInv, Become
  <2>2. RequestFits(x)'
    <3>1. PlaceFits(x)' /\ SinceFits(x)' /\ KeyFits(x)' /\ HeldFits(x)'
      BY <2>1, <1>1 DEF RequestFits, PlaceFits, SinceFits, KeyFits, HeldFits
    <3>2. AnswerFits(x)'
      BY <2>1, <1>1 DEF RequestFits, AnswerFits
    <3>3. ScenePassed(x)' <=> ScenePassed(x)
      BY <1>1 DEF ScenePassed
    <3>4. ChecksFit(x)'
      BY <2>1, <3>3 DEF RequestFits, ChecksFit
    <3> QED BY <2>1, <3>1, <3>2, <3>4 DEF RequestFits
  <2> QED BY <2>1, <2>2
<1> QED BY <1>1, <1>2, <1>3 DEF SourceInv

LEMMA LockStays ==
  ASSUME SourceInv, NEW t \in Threads, NEW r, Become(t, r), lock' = lock,
         r.at \in {"main", "canon", "build"} <=> thread[t].at \in {"main", "canon", "build"}
  PROVE  LockFits'
BY DEF SourceInv, LockFits, Become

LEMMA LockGoesBack ==
  ASSUME SourceInv, NEW t \in Threads, NEW r, Become(t, r), lock' = lock \ {t},
         r.at \notin {"main", "canon", "build"}
  PROVE  LockFits'
BY DEF SourceInv, LockFits, Become

LEMMA CacheStays ==
  ASSUME SourceInv, Keep, cached' = cached
  PROVE  CacheFits'
BY DEF SourceInv, CacheFits, Keep

LEMMA SourceStarts == SourceInit => SourceInv
<1> SUFFICES ASSUME SourceInit PROVE SourceInv
  OBVIOUS
<1>1. HeadFits
  BY ReferenceSourceAssumption DEF SourceInit, HeadFits, NoTree
<1>2. CacheFits
  BY ReferenceSourceAssumption DEF SourceInit, CacheFits, Key, NoTree
<1>3. LockFits
  BY DEF SourceInit, LockFits, Unasked
<1>4. RequestFits(Unasked)
  BY DEF RequestFits, Fields, Resting, OfGit, OfFile, PlaceFits, SinceFits, KeyFits, HeldFits, ChecksFit, AnswerFits, Unasked
<1> QED BY <1>1, <1>2, <1>3, <1>4 DEF SourceInit, SourceInv

LEMMA ArrivePreserves ==
  ASSUME SourceInv, NEW t \in Threads, NEW a \in Asks, Arrive(t, a)
  PROVE  SourceInv'
<1> DEFINE r == [Unasked EXCEPT !.ask = a, !.checks = Checks(a.op), !.since = [main |-> {head.main}, canon |-> {head.canon}],
                  !.at = CASE kind = "git" -> "first" [] kind = "fixture" -> "stat" [] kind = "http" -> "http"]
<1>1. kind \in {"git", "fixture", "http"}
  BY ReferenceSourceAssumption DEF SourceInv
<1>2. /\ DOMAIN r = Fields /\ r.ask = a /\ r.checks = Checks(a.op)
      /\ r.since = [main |-> {head.main}, canon |-> {head.canon}]
      /\ r.at = CASE kind = "git" -> "first" [] kind = "fixture" -> "stat" [] kind = "http" -> "http"
  BY DEF Unasked, Fields
<1>3. /\ kind = "git" => r.at = "first"
      /\ kind = "fixture" => r.at = "stat"
      /\ kind = "http" => r.at = "http"
  BY <1>2
<1>4. RequestFits(r)
  <2> HIDE DEF r
  <2>0. r.since.main = {head.main} /\ r.since.canon = {head.canon} /\ head.main \in DOMAIN Trees
    BY <1>2 DEF SourceInv, HeadFits
  <2>1. SinceFits(r)
    BY <2>0 DEF SinceFits
  <2>6. r.at \in {"first", "stat", "http"}
    BY <1>1, <1>3
  <2>7. PlaceFits(r)
    BY <1>1, <1>3, <2>6 DEF PlaceFits, OfGit, OfFile, Resting
  <2>2. KeyFits(r) /\ HeldFits(r) /\ AnswerFits(r) /\ r.at # "fallback"
    BY <1>1, <1>3 DEF KeyFits, HeldFits, AnswerFits
  <2>3. r.checks \in {<<"project">>, <<"project", "scene">>} /\ (r.checks = <<"project">> => r.ask.op \in WholeList)
    BY <1>2 DEF Checks, WholeList
  <2>4. r.checks # <<>> /\ r.checks # <<"scene">>
    BY <2>3
  <2>5. ChecksFit(r)
    BY <2>3, <2>4 DEF ChecksFit
  <2> QED BY <1>2, <2>1, <2>2, <2>5, <2>7 DEF RequestFits
<1>5. Become(t, r) /\ Keep /\ lock' = lock /\ cached' = cached /\ thread[t].at = "idle"
  BY DEF Arrive
<1>6. r.at \notin {"main", "canon", "build"}
  BY <1>1, <1>3
<1> HIDE DEF r
<1>7. LockFits' /\ CacheFits'
  BY <1>5, <1>6, LockStays, CacheStays
<1> QED BY <1>4, <1>5, <1>7, OneRequest

LEMMA FirstMainPreserves ==
  ASSUME SourceInv, NEW t \in Threads, FirstMain(t)
  PROVE  SourceInv'
<1> DEFINE r == thread[t]
           n == [r EXCEPT !.held = cached, !.key = <<head.main, NoTree>>, !.at = "first canon"]
<1>1. RequestFits(r) /\ r.at = "first" /\ Become(t, n) /\ Keep /\ lock' = lock /\ cached' = cached
  BY DEF SourceInv, FirstMain
<1>2. /\ DOMAIN n = Fields /\ n.at = "first canon" /\ n.held = cached /\ n.key = <<head.main, NoTree>>
      /\ n.since = r.since /\ n.checks = r.checks /\ n.ask = r.ask
  BY <1>1 DEF RequestFits, Fields
<1>3. RequestFits(n)
  <2>1. PlaceFits(n) /\ SinceFits(n) /\ ChecksFit(n)
    BY <1>1, <1>2 DEF RequestFits, PlaceFits, SinceFits, ChecksFit, Resting, OfGit, OfFile
  <2>2. head.main \in r.since.main
    BY <1>1 DEF RequestFits, SinceFits, Resting
  <2> HIDE DEF n
  <2>6. n.key[1] \in n.since.main
    <3>1. n.key = <<head.main, NoTree>> /\ n.since = r.since
      BY <1>2
    <3>2. n.key[1] = head.main
      BY <3>1
    <3> QED BY <2>2, <3>1, <3>2
  <2>3. KeyFits(n)
    BY <1>2, <2>6 DEF KeyFits
  <2>5. AnswerFits(n)
    BY <1>2 DEF AnswerFits
  <2>4. HeldFits(n)
    BY <1>2 DEF HeldFits, SourceInv, CacheFits
  <2> QED BY <1>2, <2>1, <2>3, <2>4, <2>5 DEF RequestFits
<1> HIDE DEF n
<1>4. LockFits' /\ CacheFits'
  BY <1>1, <1>2, LockStays, CacheStays
<1> QED BY <1>1, <1>3, <1>4, OneRequest

LEMMA FirstCanonPreserves ==
  ASSUME SourceInv, NEW t \in Threads, FirstCanon(t)
  PROVE  SourceInv'
<1> DEFINE r == thread[t]
           key == <<r.key[1], head.canon>>
           n == [r EXCEPT !.key = key, !.at = IF r.held.key = key THEN "check" ELSE "lock"]
<1>1. RequestFits(r) /\ r.at = "first canon" /\ Become(t, n) /\ Keep /\ lock' = lock /\ cached' = cached
  BY DEF SourceInv, FirstCanon
<1>2. /\ DOMAIN n = Fields /\ n.at = (IF r.held.key = key THEN "check" ELSE "lock") /\ n.held = r.held /\ n.key = key
      /\ n.since = r.since /\ n.checks = r.checks /\ n.ask = r.ask
  BY <1>1 DEF RequestFits, Fields
<1>3. kind # "fixture" /\ kind # "http" /\ kind \in {"git", "fixture", "http"} /\ r.checks # <<>> /\ r.checks # <<"scene">>
  BY <1>1, ReferenceSourceAssumption DEF SourceInv, RequestFits, PlaceFits, OfGit, OfFile, ChecksFit, Resting
<1>4. key[1] \in r.since.main /\ key[2] \in r.since.canon /\ r.held.of = r.held.key
  BY <1>1, <1>3 DEF RequestFits, KeyFits, SinceFits, Resting, HeldFits
<1>5. RequestFits(n)
  <2> HIDE DEF n
  <2>6. n.at \in {"check", "lock"}
    BY <1>2
  <2>7. PlaceFits(n)
    BY <1>3, <2>6 DEF PlaceFits, OfGit, OfFile
  <2>1. PlaceFits(n) /\ SinceFits(n)
    BY <1>1, <1>2, <2>7 DEF RequestFits, SinceFits, Resting
  <2>2. ChecksFit(n)
    BY <1>1, <1>2, <1>3 DEF RequestFits, ChecksFit, Resting, OfGit, OfFile
  <2>3. KeyFits(n) /\ AnswerFits(n)
    BY <1>2, <1>4 DEF KeyFits, AnswerFits
  <2>4. HeldFits(n)
    BY <1>2, <1>3, <1>4 DEF HeldFits
  <2>5. n.at # "fallback"
    BY <1>2
  <2> QED BY <1>2, <2>1, <2>2, <2>3, <2>4, <2>5 DEF RequestFits
<1> HIDE DEF n
<1>6. LockFits' /\ CacheFits'
  BY <1>1, <1>2, LockStays, CacheStays
<1> QED BY <1>1, <1>5, <1>6, OneRequest

LEMMA LockPreserves ==
  ASSUME SourceInv, NEW t \in Threads, Lock(t)
  PROVE  SourceInv'
<1> DEFINE r == thread[t]
           n == [r EXCEPT !.at = "main"]
<1>1. RequestFits(r) /\ r.at = "lock" /\ Become(t, n) /\ Keep /\ lock = {} /\ lock' = {t} /\ cached' = cached
  BY DEF SourceInv, Lock
<1>2. /\ DOMAIN n = Fields /\ n.at = "main" /\ n.held = r.held /\ n.key = r.key
      /\ n.since = r.since /\ n.checks = r.checks /\ n.ask = r.ask
  BY <1>1 DEF RequestFits, Fields
<1>3. RequestFits(n)
  <2>1. PlaceFits(n) /\ SinceFits(n) /\ ChecksFit(n)
    BY <1>1, <1>2 DEF RequestFits, PlaceFits, SinceFits, ChecksFit, Resting, OfGit, OfFile
  <2>2. KeyFits(n) /\ HeldFits(n) /\ AnswerFits(n)
    BY <1>2 DEF KeyFits, HeldFits, AnswerFits
  <2> QED BY <1>2, <2>1, <2>2 DEF RequestFits
<1> HIDE DEF n
<1>4. LockFits'
  BY <1>1, <1>2 DEF SourceInv, LockFits, Become
<1>5. CacheFits'
  BY <1>1, CacheStays
<1> QED BY <1>1, <1>3, <1>4, <1>5, OneRequest

LEMMA LockedMainPreserves ==
  ASSUME SourceInv, NEW t \in Threads, LockedMain(t)
  PROVE  SourceInv'
<1> DEFINE r == thread[t]
           n == [r EXCEPT !.key = <<head.main, NoTree>>, !.at = "canon"]
<1>1. RequestFits(r) /\ r.at = "main" /\ Become(t, n) /\ Keep /\ lock' = lock /\ cached' = cached
  BY DEF SourceInv, LockedMain
<1>2. /\ DOMAIN n = Fields /\ n.at = "canon" /\ n.held = r.held /\ n.key = <<head.main, NoTree>>
      /\ n.since = r.since /\ n.checks = r.checks /\ n.ask = r.ask
  BY <1>1 DEF RequestFits, Fields
<1>3. RequestFits(n)
  <2>1. PlaceFits(n) /\ SinceFits(n) /\ ChecksFit(n)
    BY <1>1, <1>2 DEF RequestFits, PlaceFits, SinceFits, ChecksFit, Resting, OfGit, OfFile
  <2>2. KeyFits(n) /\ HeldFits(n) /\ AnswerFits(n)
    BY <1>1, <1>2 DEF RequestFits, SinceFits, KeyFits, HeldFits, AnswerFits, Resting
  <2> QED BY <1>2, <2>1, <2>2 DEF RequestFits
<1> HIDE DEF n
<1>4. LockFits' /\ CacheFits'
  BY <1>1, <1>2, LockStays, CacheStays
<1> QED BY <1>1, <1>3, <1>4, OneRequest

\* Who holds the lock is the only one, so that an empty lock is the lock without it.
LEMMA OnlyHolder ==
  ASSUME SourceInv, NEW t \in Threads, thread[t].at \in {"main", "canon", "build"}, lock' = {}
  PROVE  lock' = lock \ {t}
BY DEF SourceInv, LockFits

LEMMA LockedCanonPreserves ==
  ASSUME SourceInv, NEW t \in Threads, LockedCanon(t)
  PROVE  SourceInv'
<1> DEFINE r == thread[t]
           key == <<r.key[1], head.canon>>
           b == [r EXCEPT !.key = key, !.at = "build"]
           c == [r EXCEPT !.key = key, !.held = cached, !.at = "check"]
<1>1. RequestFits(r) /\ r.at = "canon" /\ Keep /\ cached' = cached
  BY DEF SourceInv, LockedCanon
<1>2. kind = "git" /\ r.checks # <<>> /\ r.checks # <<"scene">>
  BY <1>1, ReferenceSourceAssumption DEF SourceInv, RequestFits, PlaceFits, OfGit, OfFile, ChecksFit, Resting
<1>3. key[1] \in r.since.main /\ key[2] \in r.since.canon
  BY <1>1 DEF RequestFits, KeyFits, SinceFits, Resting
<1>4. CASE cached.key = key
  <2>1. Become(t, c) /\ lock' = lock \ {t}
    BY <1>1, <1>4, OnlyHolder DEF LockedCanon, IsFresh
  <2>2. /\ DOMAIN c = Fields /\ c.at = "check" /\ c.held = cached /\ c.key = key
        /\ c.since = r.since /\ c.checks = r.checks /\ c.ask = r.ask
    BY <1>1 DEF RequestFits, Fields
  <2>3. PlaceFits(c) /\ SinceFits(c) /\ ChecksFit(c)
    BY <1>1, <1>2, <2>2 DEF RequestFits, PlaceFits, SinceFits, ChecksFit, Resting, OfGit, OfFile
  <2>4. KeyFits(c) /\ HeldFits(c) /\ AnswerFits(c)
    BY <1>2, <1>3, <1>4, <2>2 DEF KeyFits, HeldFits, AnswerFits, SourceInv, CacheFits
  <2>5. RequestFits(c)
    BY <2>2, <2>3, <2>4 DEF RequestFits
  <2> HIDE DEF c
  <2>6. LockFits' /\ CacheFits'
    BY <1>1, <2>1, <2>2, LockGoesBack, CacheStays
  <2> QED BY <1>1, <2>1, <2>5, <2>6, OneRequest
<1>5. CASE cached.key # key
  <2>1. Become(t, b) /\ lock' = lock
    BY <1>5 DEF LockedCanon, IsFresh
  <2>2. /\ DOMAIN b = Fields /\ b.at = "build" /\ b.held = r.held /\ b.key = key
        /\ b.since = r.since /\ b.checks = r.checks /\ b.ask = r.ask
    BY <1>1 DEF RequestFits, Fields
  <2>3. PlaceFits(b) /\ SinceFits(b) /\ ChecksFit(b)
    BY <1>1, <2>2 DEF RequestFits, PlaceFits, SinceFits, ChecksFit, Resting, OfGit, OfFile
  <2>4. KeyFits(b) /\ HeldFits(b) /\ AnswerFits(b)
    BY <1>3, <2>2 DEF KeyFits, HeldFits, AnswerFits
  <2>5. RequestFits(b)
    BY <2>2, <2>3, <2>4 DEF RequestFits
  <2> HIDE DEF b
  <2>6. LockFits' /\ CacheFits'
    BY <1>1, <2>1, <2>2, LockStays, CacheStays
  <2> QED BY <1>1, <2>1, <2>5, <2>6, OneRequest
<1> QED BY <1>4, <1>5

\* A request whose source does not answer goes on with the snapshot.
LEMMA GivingUp ==
  ASSUME NEW r, RequestFits(r), r.at \notin Resting
  PROVE  /\ RequestFits([r EXCEPT !.down = TRUE, !.at = "fallback"])
         /\ [r EXCEPT !.down = TRUE, !.at = "fallback"].at = "fallback"
<1> DEFINE n == [r EXCEPT !.down = TRUE, !.at = "fallback"]
<1>1. /\ DOMAIN n = Fields /\ n.at = "fallback" /\ n.held = r.held /\ n.key = r.key /\ n.down = TRUE
      /\ n.since = r.since /\ n.checks = r.checks /\ n.ask = r.ask
  BY DEF RequestFits, Fields
<1> HIDE DEF n
<1>2. PlaceFits(n) /\ KeyFits(n) /\ AnswerFits(n)
  BY <1>1 DEF PlaceFits, KeyFits, AnswerFits, OfGit, OfFile
<1>3. SinceFits(n)
  BY <1>1 DEF RequestFits, SinceFits
<1>4. ChecksFit(n)
  BY <1>1 DEF RequestFits, ChecksFit, OfGit, OfFile
<1>5. HeldFits(n)
  BY <1>1 DEF HeldFits
<1>6. RequestFits(n)
  BY <1>1, <1>2, <1>3, <1>4, <1>5 DEF RequestFits
<1> QED BY <1>1, <1>6 DEF n

LEMMA BuildDocumentPreserves ==
  ASSUME SourceInv, NEW t \in Threads, BuildDocument(t)
  PROVE  SourceInv'
<1> DEFINE r == thread[t]
           new == [key |-> r.key, of |-> r.key]
           n == [r EXCEPT !.held = new, !.at = "check"]
           g == [r EXCEPT !.down = TRUE, !.at = "fallback"]
<1>1. RequestFits(r) /\ r.at = "build" /\ Keep /\ lock' = lock \ {t}
  BY OnlyHolder DEF SourceInv, BuildDocument
<1>2. kind = "git" /\ r.checks # <<>> /\ r.checks # <<"scene">>
  BY <1>1, ReferenceSourceAssumption DEF SourceInv, RequestFits, PlaceFits, OfGit, OfFile, ChecksFit, Resting
<1>3. r.key[1] \in r.since.main /\ r.key[2] \in r.since.canon
  BY <1>1 DEF RequestFits, KeyFits
<1>4. CASE Readable(r.key)
  <2>1. Become(t, n) /\ cached' = new
    BY <1>4 DEF BuildDocument
  <2>2. /\ DOMAIN n = Fields /\ n.at = "check" /\ n.held = new /\ n.key = r.key
        /\ n.since = r.since /\ n.checks = r.checks /\ n.ask = r.ask
    BY <1>1 DEF RequestFits, Fields
  <2>3. PlaceFits(n) /\ SinceFits(n) /\ ChecksFit(n)
    BY <1>1, <1>2, <2>2 DEF RequestFits, PlaceFits, SinceFits, ChecksFit, Resting, OfGit, OfFile
  <2>4. KeyFits(n) /\ HeldFits(n) /\ AnswerFits(n)
    BY <1>2, <1>3, <2>2 DEF KeyFits, HeldFits, AnswerFits
  <2>5. RequestFits(n)
    BY <2>2, <2>3, <2>4 DEF RequestFits
  <2>6. CacheFits'
    BY <1>1, <1>2, <2>1 DEF CacheFits, Keep
  <2> HIDE DEF n
  <2>7. LockFits'
    BY <1>1, <2>1, <2>2, LockGoesBack
  <2> QED BY <1>1, <2>1, <2>5, <2>6, <2>7, OneRequest
<1>5. CASE ~Readable(r.key)
  <2>1. Become(t, g) /\ cached' = cached
    BY <1>5 DEF BuildDocument, Unavailable
  <2>2. RequestFits(g) /\ g.at = "fallback"
    BY <1>1, GivingUp DEF Resting
  <2> HIDE DEF g
  <2>3. LockFits' /\ CacheFits'
    BY <1>1, <2>1, <2>2, LockGoesBack, CacheStays
  <2> QED BY <1>1, <2>1, <2>2, <2>3, OneRequest
<1> QED BY <1>4, <1>5

LEMMA GitFailsPreserves ==
  ASSUME SourceInv, NEW t \in Threads, GitFails(t)
  PROVE  SourceInv'
<1> DEFINE r == thread[t]
           g == [r EXCEPT !.down = TRUE, !.at = "fallback"]
<1>1. RequestFits(r) /\ r.at \notin Resting /\ Keep /\ lock' = lock \ {t} /\ cached' = cached /\ Become(t, g)
  BY DEF SourceInv, GitFails, Resting, Unavailable
<1>2. RequestFits(g) /\ g.at = "fallback"
  BY <1>1, GivingUp
<1> HIDE DEF g
<1>3. LockFits' /\ CacheFits'
  BY <1>1, <1>2, LockGoesBack, CacheStays
<1> QED BY <1>1, <1>2, <1>3, OneRequest

LEMMA StatPreserves ==
  ASSUME SourceInv, NEW t \in Threads, Stat(t)
  PROVE  SourceInv'
<1> DEFINE r == thread[t]
           key == <<head.main, NoTree>>
           c == [r EXCEPT !.key = key, !.held = cached, !.at = "check"]
           l == [r EXCEPT !.key = key, !.at = "load"]
<1>1. RequestFits(r) /\ r.at = "stat" /\ Keep /\ lock' = lock /\ cached' = cached
  BY DEF SourceInv, Stat
<1>2. kind = "fixture" /\ head.canon = NoTree
  BY <1>1, ReferenceSourceAssumption DEF SourceInv, RequestFits, PlaceFits, OfGit, OfFile, Resting, HeadFits
<1>3. head.main \in r.since.main /\ NoTree \in r.since.canon /\ head.main \in Nat
  BY <1>1, <1>2, ReferenceSourceAssumption DEF RequestFits, SinceFits, Resting, SourceInv, HeadFits
<1>4. CASE cached.key = key
  <2>1. Become(t, c)
    BY <1>4 DEF Stat
  <2>2. /\ DOMAIN c = Fields /\ c.at = "check" /\ c.held = cached /\ c.key = key
        /\ c.since = r.since /\ c.checks = r.checks /\ c.ask = r.ask
    BY <1>1 DEF RequestFits, Fields
  <2>3. cached.of = <<head.main, NoTree>>
    <3>1. cached.of = <<cached.of[1], NoTree>> /\ cached.of[1] \in Nat /\ cached.key[1] <= cached.of[1] /\ cached.of[1] <= head.main
      BY <1>2, ReferenceSourceAssumption DEF SourceInv, CacheFits
    <3>2. cached.key[1] = head.main
      BY <1>4
    <3>3. cached.of[1] = head.main
      BY <3>1, <3>2, <1>3
    <3> QED BY <3>1, <3>3
  <2>4. PlaceFits(c) /\ SinceFits(c) /\ ChecksFit(c)
    <3>1. ScenePassed(c) <=> ScenePassed(r)
      BY <1>2, <2>2 DEF ScenePassed, Rewritten
    <3> HIDE DEF c
    <3>2. PlaceFits(c)
      BY <1>2, <2>2 DEF PlaceFits, OfGit, OfFile
    <3>3. SinceFits(c)
      BY <1>1, <2>2 DEF RequestFits, SinceFits, Resting
    <3>4. ChecksFit(c)
      BY <1>1, <2>2, <3>1 DEF RequestFits, ChecksFit, Resting, OfGit, OfFile
    <3> QED BY <3>2, <3>3, <3>4
  <2>5. KeyFits(c)
    BY <1>3, <2>2 DEF KeyFits
  <2>6. HeldFits(c)
    BY <1>2, <1>3, <2>2, <2>3 DEF HeldFits
  <2>7. RequestFits(c)
    BY <2>2, <2>4, <2>5, <2>6 DEF RequestFits, AnswerFits
  <2> HIDE DEF c
  <2>8. LockFits' /\ CacheFits'
    BY <1>1, <2>1, <2>2, LockStays, CacheStays
  <2> QED BY <1>1, <2>1, <2>7, <2>8, OneRequest
<1>5. CASE cached.key # key
  <2>1. Become(t, l)
    BY <1>5 DEF Stat
  <2>2. /\ DOMAIN l = Fields /\ l.at = "load" /\ l.held = r.held /\ l.key = key
        /\ l.since = r.since /\ l.checks = r.checks /\ l.ask = r.ask
    BY <1>1 DEF RequestFits, Fields
  <2>3. ScenePassed(l) <=> ScenePassed(r)
    BY <1>2, <2>2 DEF ScenePassed, Rewritten
  <2>4. KeyFits(l)
    BY <1>3, <2>2 DEF KeyFits
  <2> HIDE DEF l
  <2>5. PlaceFits(l)
    BY <1>2, <2>2 DEF PlaceFits, OfGit, OfFile
  <2>6. SinceFits(l)
    BY <1>1, <2>2 DEF RequestFits, SinceFits, Resting
  <2>7. ChecksFit(l)
    BY <1>1, <2>2, <2>3 DEF RequestFits, ChecksFit, Resting, OfGit, OfFile
  <2>8. HeldFits(l) /\ AnswerFits(l)
    BY <1>2, <2>2 DEF HeldFits, AnswerFits
  <2>9. RequestFits(l)
    BY <2>2, <2>4, <2>5, <2>6, <2>7, <2>8 DEF RequestFits
  <2>10. LockFits' /\ CacheFits'
    BY <1>1, <2>1, <2>2, LockStays, CacheStays
  <2> QED BY <1>1, <2>1, <2>9, <2>10, OneRequest
<1> QED BY <1>4, <1>5

LEMMA LoadPreserves ==
  ASSUME SourceInv, NEW t \in Threads, Load(t)
  PROVE  SourceInv'
<1> DEFINE r == thread[t]
           now == <<head.main, NoTree>>
           new == [key |-> r.key, of |-> now]
           n == [r EXCEPT !.held = new, !.at = "check"]
           g == [r EXCEPT !.down = TRUE, !.at = "fallback"]
<1>1. RequestFits(r) /\ r.at = "load" /\ Keep /\ lock' = lock
  BY DEF SourceInv, Load
<1>2. kind = "fixture" /\ head.canon = NoTree
  BY <1>1, ReferenceSourceAssumption DEF SourceInv, RequestFits, PlaceFits, OfGit, OfFile, Resting, HeadFits
<1>3. head.main \in r.since.main /\ NoTree \in r.since.canon /\ head.main \in DOMAIN Trees /\ head.main \in Nat
  BY <1>1, <1>2, ReferenceSourceAssumption DEF RequestFits, SinceFits, Resting, SourceInv, HeadFits
<1>4. /\ r.key[1] \in r.since.main /\ r.key[2] \in r.since.canon
      /\ r.key = <<r.key[1], NoTree>> /\ r.key[1] <= head.main /\ r.key[1] \in DOMAIN Trees
  BY <1>1 DEF RequestFits, KeyFits, SinceFits
<1>5. CASE Readable(now)
  <2>1. Become(t, n) /\ cached' = new
    BY <1>5 DEF Load
  <2>2. /\ DOMAIN n = Fields /\ n.at = "check" /\ n.held = new /\ n.key = r.key
        /\ n.since = r.since /\ n.checks = r.checks /\ n.ask = r.ask
    BY <1>1 DEF RequestFits, Fields
  <2>3. HeldFits(n)
    BY <1>2, <1>3, <2>2 DEF HeldFits
  <2>4. CacheFits'
    <3>1. kind' = kind /\ head' = head /\ cached'.key = r.key /\ cached'.of = now
      BY <1>1, <2>1 DEF Keep
    <3>2. now[1] = head.main
      OBVIOUS
    <3> QED BY <1>2, <1>3, <1>4, <3>1, <3>2 DEF CacheFits
  <2>5. ScenePassed(n) <=> ScenePassed(r)
    BY <1>2, <2>2 DEF ScenePassed, Rewritten
  <2> HIDE DEF n, new
  <2>6. PlaceFits(n)
    BY <1>2, <2>2 DEF PlaceFits, OfGit, OfFile
  <2>7. SinceFits(n)
    BY <1>1, <2>2 DEF RequestFits, SinceFits, Resting
  <2>8. ChecksFit(n)
    BY <1>1, <2>2, <2>5 DEF RequestFits, ChecksFit, Resting, OfGit, OfFile
  <2>9. KeyFits(n) /\ AnswerFits(n)
    BY <1>4, <2>2 DEF KeyFits, AnswerFits
  <2>10. RequestFits(n)
    BY <2>2, <2>3, <2>6, <2>7, <2>8, <2>9 DEF RequestFits
  <2>11. LockFits'
    BY <1>1, <2>1, <2>2, LockStays
  <2> QED BY <1>1, <2>1, <2>4, <2>10, <2>11, OneRequest
<1>6. CASE ~Readable(now)
  <2>1. Become(t, g) /\ cached' = cached
    BY <1>6 DEF Load, Unavailable
  <2>2. RequestFits(g) /\ g.at = "fallback"
    BY <1>1, GivingUp DEF Resting
  <2> HIDE DEF g
  <2>3. LockFits' /\ CacheFits'
    BY <1>1, <2>1, <2>2, LockStays, CacheStays
  <2> QED BY <1>1, <2>1, <2>2, <2>3, OneRequest
<1> QED BY <1>5, <1>6

LEMMA HttpPreserves ==
  ASSUME SourceInv, NEW t \in Threads, Http(t)
  PROVE  SourceInv'
<1> DEFINE r == thread[t]
           g == [r EXCEPT !.down = TRUE, !.at = "fallback"]
           said(is) == [r EXCEPT !.at = "done", !.answer = [is |-> is, of |-> Key, refs |-> {}, home |-> {}]]
<1>1. RequestFits(r) /\ r.at = "http" /\ Keep /\ lock' = lock /\ cached' = cached
  BY DEF SourceInv, Http
<1>2. kind = "http"
  BY <1>1, ReferenceSourceAssumption DEF SourceInv, RequestFits, PlaceFits
<1>3. CASE Become(t, g)
  <2>1. RequestFits(g) /\ g.at = "fallback"
    BY <1>1, GivingUp DEF Resting
  <2> HIDE DEF g
  <2>2. LockFits' /\ CacheFits'
    BY <1>1, <1>3, <2>1, LockStays, CacheStays
  <2> QED BY <1>1, <1>3, <2>1, <2>2, OneRequest
<1>4. ASSUME NEW is, Become(t, said(is)) PROVE SourceInv'
  <2> DEFINE n == said(is)
  <2>1. /\ DOMAIN n = Fields /\ n.at = "done" /\ n.held = r.held /\ n.key = r.key
        /\ n.since = r.since /\ n.checks = r.checks /\ n.ask = r.ask
    BY <1>1 DEF RequestFits, Fields
  <2>2. Become(t, n)
    BY <1>4
  <2> HIDE DEF n, said
  <2>3. PlaceFits(n) /\ KeyFits(n) /\ HeldFits(n) /\ AnswerFits(n)
    BY <1>2, <2>1 DEF PlaceFits, KeyFits, HeldFits, AnswerFits, Resting, OfGit, OfFile
  <2>4. SinceFits(n) /\ ChecksFit(n)
    BY <1>1, <2>1 DEF RequestFits, SinceFits, ChecksFit, Resting, OfGit, OfFile
  <2>5. RequestFits(n)
    BY <2>1, <2>3, <2>4 DEF RequestFits
  <2>6. LockFits' /\ CacheFits'
    BY <1>1, <2>1, <2>2, LockStays, CacheStays
  <2> QED BY <1>1, <2>2, <2>5, <2>6, OneRequest
<1> HIDE DEF said
<1>5. Become(t, g) \/ Become(t, said("missing")) \/ Become(t, said("relayed"))
  BY DEF Http, Unavailable, said
<1> QED BY <1>3, <1>4, <1>5

\* What a request is told, its fields, and what is left to see to.
LEMMA AnsweredFields ==
  ASSUME NEW t \in Threads, NEW is
  PROVE  LET r == thread[t]
             n == Answered(t, is)
             d == IF is = "kept" THEN Snapshot ELSE Document(r.held.of)
         IN /\ DOMAIN n = Fields /\ n.at = "done" /\ n.checks = <<>>
            /\ n.ask = r.ask /\ n.since = r.since /\ n.down = r.down
            /\ n.answer.is = is
            /\ n.answer.of = IF is \in {"kept", "unavailable"} THEN <<NoTree, NoTree>> ELSE r.held.of
            /\ n.answer.refs = IF is \in {"answer", "kept"} THEN RefsOf(d, r.ask) ELSE {}
            /\ n.answer.home = IF is \in {"answer", "kept"} THEN HomeOf(d, r.ask) ELSE {}
BY DEF Answered, Unasked, Fields

LEMMA AnsweredFits ==
  ASSUME SourceInv, NEW t \in Threads, NEW is, AnswerFits(Answered(t, is))
  PROVE  RequestFits(Answered(t, is)) /\ Answered(t, is).at = "done"
<1> DEFINE r == thread[t]
           n == Answered(t, is)
<1>1. DOMAIN n = Fields /\ n.at = "done" /\ n.checks = <<>> /\ n.since = r.since /\ RequestFits(r)
  BY AnsweredFields DEF SourceInv
<1> HIDE DEF n
<1>2. PlaceFits(n) /\ KeyFits(n) /\ HeldFits(n)
  BY <1>1 DEF PlaceFits, KeyFits, HeldFits, Resting, OfGit, OfFile
<1>3. SinceFits(n)
  BY <1>1 DEF RequestFits, SinceFits, Resting
<1>4. ChecksFit(n)
  BY <1>1 DEF ChecksFit, Resting, OfFile
<1> QED BY <1>1, <1>2, <1>3, <1>4 DEF RequestFits, n

LEMMA FallbackPreserves ==
  ASSUME SourceInv, NEW t \in Threads, Fallback(t)
  PROVE  SourceInv'
<1>1. /\ RequestFits(thread[t]) /\ thread[t].at = "fallback" /\ Keep /\ lock' = lock /\ cached' = cached
      /\ \E is \in {"kept", "unavailable"} : Become(t, Answered(t, is))
  BY DEF SourceInv, Fallback
<1>2. PICK is \in {"kept", "unavailable"} : Become(t, Answered(t, is))
  BY <1>1
<1>3. AnswerFits(Answered(t, is))
  <2> DEFINE n == Answered(t, is)
  <2>1. n.answer.is = is /\ n.down = thread[t].down
    BY AnsweredFields
  <2>2. thread[t].down
    BY <1>1 DEF RequestFits
  <2> HIDE DEF n
  <2>3. AnswerFits(n)
    BY <1>2, <2>1, <2>2 DEF AnswerFits
  <2> QED BY <2>3 DEF n
<1>4. RequestFits(Answered(t, is)) /\ Answered(t, is).at = "done"
  BY <1>3, AnsweredFits
<1>5. LockFits' /\ CacheFits'
  BY <1>1, <1>2, <1>4, LockStays, CacheStays
<1> QED BY <1>1, <1>2, <1>4, <1>5, OneRequest

-----------------------------------------------------------------------------
\* A look at the document, by what comes of it.

\* What is not there is not there in a tree the refs pointed at.
LEMMA MissingFits ==
  ASSUME SourceInv, NEW t \in Threads, thread[t].at = "check"
  PROVE  AnswerFits(Answered(t, "missing"))
<1> DEFINE n == Answered(t, "missing")
<1>1. n.answer.is = "missing" /\ n.answer.of = thread[t].held.of /\ n.since = thread[t].since
  BY AnsweredFields
<1>2. thread[t].held.of[1] \in thread[t].since.main /\ thread[t].held.of[2] \in thread[t].since.canon
  BY DEF SourceInv, RequestFits, HeldFits
<1> HIDE DEF n
<1>3. AnswerFits(n)
  BY <1>1, <1>2 DEF AnswerFits
<1> QED BY <1>3 DEF n

\* A document breaks under a request only when the file was written meanwhile.
LEMMA BrokenFits ==
  ASSUME SourceInv, NEW t \in Threads, thread[t].at = "check", thread[t].checks = <<>>,
         thread[t].ask.op = "scene", ~IsThere(Document(thread[t].held.of), thread[t].ask)
  PROVE  AnswerFits(Answered(t, "broken"))
<1> DEFINE r == thread[t]
           n == Answered(t, "broken")
<1>1. n.answer.is = "broken" /\ n.answer.of = r.held.of /\ n.since = r.since
  BY AnsweredFields
<1>2. RequestFits(r) /\ kind \in {"git", "fixture", "http"} /\ kind # "http"
  BY ReferenceSourceAssumption DEF SourceInv, RequestFits, PlaceFits
<1>3. r.held.of[1] \in r.since.main /\ r.held.of[2] \in r.since.canon
  BY <1>2 DEF RequestFits, HeldFits
<1>4. ScenePassed(r)
  BY <1>2 DEF RequestFits, ChecksFit, WholeList
<1>5. ~Passes(Document(r.held.of), r.ask, "scene")
  BY DEF IsThere, Passes
<1>6. kind = "fixture" /\ Rewritten(r)
  <2>1. kind = "fixture"
    BY <1>2, <1>4, <1>5 DEF ScenePassed
  <2>2. r.held.of = <<r.held.of[1], NoTree>>
    BY <1>2, <2>1 DEF RequestFits, HeldFits
  <2>3. Passes(Document(r.held.of), r.ask, "scene") = Passes(Document(<<r.held.of[1], NoTree>>), r.ask, "scene")
    BY <2>2
  <2> QED BY <1>3, <1>4, <1>5, <2>1, <2>3 DEF ScenePassed
<1>7. Rewritten(n)
  BY <1>1, <1>6 DEF Rewritten
<1> HIDE DEF n
<1>8. AnswerFits(n)
  BY <1>1, <1>3, <1>6, <1>7 DEF AnswerFits
<1> QED BY <1>8 DEF n

\* What is told is of the one document that is looked at.
LEMMA AnswerIsOfDocument ==
  ASSUME SourceInv, NEW t \in Threads, thread[t].at = "check", thread[t].checks = <<>>,
         IsThere(Document(thread[t].held.of), thread[t].ask)
  PROVE  AnswerFits(Answered(t, "answer"))
<1> DEFINE r == thread[t]
           n == Answered(t, "answer")
           key == r.held.of
           d == Document(key)
<1>1. /\ n.answer.is = "answer" /\ n.answer.of = key /\ n.since = r.since /\ n.ask = r.ask
      /\ n.answer.refs = RefsOf(d, r.ask) /\ n.answer.home = HomeOf(d, r.ask)
  BY AnsweredFields
<1>2. RequestFits(r) /\ kind \in {"git", "fixture", "http"} /\ kind # "http"
  BY ReferenceSourceAssumption DEF SourceInv, RequestFits, PlaceFits
<1>3. key[1] \in r.since.main /\ key[2] \in r.since.canon
  BY <1>2 DEF RequestFits, HeldFits
<1>4. r.ask.project \in SourceProjects
  BY <1>2 DEF RequestFits, ChecksFit
<1>5. \A x \in RefsOf(d, r.ask) : IsOf(x, key)
  <2>1. CASE r.ask.op = "scene"
    <3>1. r.ask.scene \in Scenes(d) /\ RefsOf(d, r.ask) = d.refs[r.ask.scene]
      BY <2>1 DEF IsThere, RefsOf
    <3> QED BY <3>1, DocumentRefs
  <2>2. CASE r.ask.op \in {"canons", "canon"}
    <3>1. RefsOf(d, r.ask) \subseteq d.canon[r.ask.project]
      BY <2>2 DEF RefsOf
    <3> QED BY <1>4, <3>1, DocumentRefs
  <2>3. CASE r.ask.op \notin {"scene", "canons", "canon"}
    <3>1. RefsOf(d, r.ask) = {}
      BY <2>3 DEF RefsOf
    <3> QED BY <3>1
  <2> QED BY <2>1, <2>2, <2>3
<1>6. (kind = "fixture" /\ Rewritten(r)) \/ HomeOf(d, r.ask) \subseteq {r.ask.project}
  <2>1. CASE r.ask.op # "scene"
    BY <2>1 DEF HomeOf
  <2>2. CASE r.ask.op = "scene"
    <3>1. ScenePassed(r)
      BY <1>2, <2>2 DEF RequestFits, ChecksFit, WholeList
    <3>2. CASE Passes(d, r.ask, "scene")
      BY <2>2, <3>2 DEF Passes, HomeOf
    <3>3. CASE ~Passes(d, r.ask, "scene")
      <4>1. kind = "fixture"
        BY <1>2, <3>1, <3>3 DEF ScenePassed
      <4>2. key = <<key[1], NoTree>>
        BY <1>2, <4>1 DEF RequestFits, HeldFits
      <4>3. Passes(d, r.ask, "scene") = Passes(Document(<<key[1], NoTree>>), r.ask, "scene")
        BY <4>2
      <4> QED BY <1>3, <3>1, <3>3, <4>1, <4>3 DEF ScenePassed
    <3> QED BY <3>2, <3>3
  <2> QED BY <2>1, <2>2
<1>7. Rewritten(n) <=> Rewritten(r)
  BY <1>1 DEF Rewritten
<1> HIDE DEF n, d
<1>8. \A x \in n.answer.refs : IsOf(x, n.answer.of)
  BY <1>1, <1>5
<1>9. AnswerFits(n)
  BY <1>1, <1>3, <1>6, <1>7, <1>8 DEF AnswerFits, IsOf
<1> QED BY <1>9 DEF n

\* A check that is passed leaves one less.
LEMMA PassingFits ==
  ASSUME SourceInv, NEW t \in Threads, thread[t].at = "check", thread[t].checks # <<>>,
         Passes(Document(thread[t].held.of), thread[t].ask, Head(thread[t].checks))
  PROVE  LET n == [thread[t] EXCEPT !.checks = Tail(@), !.at = IF kind = "fixture" THEN "stat" ELSE "check"]
         IN RequestFits(n) /\ n.at \in {"stat", "check"}
<1> DEFINE r == thread[t]
           n == [r EXCEPT !.checks = Tail(@), !.at = IF kind = "fixture" THEN "stat" ELSE "check"]
<1>1. RequestFits(r) /\ kind \in {"git", "fixture", "http"} /\ kind # "http"
  BY ReferenceSourceAssumption DEF SourceInv, RequestFits, PlaceFits
<1>2. /\ DOMAIN n = Fields /\ n.at = (IF kind = "fixture" THEN "stat" ELSE "check") /\ n.held = r.held /\ n.key = r.key
      /\ n.since = r.since /\ n.checks = Tail(r.checks) /\ n.ask = r.ask
  BY <1>1 DEF RequestFits, Fields
<1>3. r.checks \in {<<"project">>, <<"project", "scene">>, <<"scene">>}
  BY <1>1 DEF RequestFits, ChecksFit
<1> HIDE DEF n
<1>4. PlaceFits(n)
  BY <1>1, <1>2 DEF PlaceFits, OfGit, OfFile
<1>5. SinceFits(n)
  BY <1>1, <1>2 DEF RequestFits, SinceFits, Resting
<1>6. KeyFits(n) /\ HeldFits(n) /\ AnswerFits(n)
  BY <1>1, <1>2 DEF RequestFits, KeyFits, HeldFits, AnswerFits
<1>7. r.ask.project \in SourceProjects
  <2>1. CASE r.checks = <<"scene">>
    BY <1>1, <2>1 DEF RequestFits, ChecksFit
  <2>2. CASE r.checks # <<"scene">>
    <3>1. Head(r.checks) = "project"
      BY <1>3, <2>2
    <3> QED BY <3>1, DocumentRefs DEF Passes
  <2> QED BY <2>1, <2>2
<1>8. ASSUME r.checks = <<"project">> PROVE ChecksFit(n)
  <2>1. n.checks = <<>> /\ n.ask.op \in WholeList
    BY <1>1, <1>2, <1>8 DEF RequestFits, ChecksFit, Resting
  <2> QED BY <1>2, <1>7, <2>1 DEF ChecksFit, OfGit
<1>9. ASSUME r.checks = <<"project", "scene">> PROVE ChecksFit(n)
  <2>1. n.checks = <<"scene">>
    BY <1>2, <1>9
  <2>2. n.checks # <<"project">> /\ n.checks # <<>>
    BY <2>1
  <2> QED BY <1>2, <1>7, <2>1, <2>2 DEF ChecksFit, OfGit
<1>10. ASSUME r.checks = <<"scene">> PROVE ChecksFit(n)
  <2>1. n.checks = <<>> /\ Head(r.checks) = "scene"
    BY <1>2, <1>10
  <2>2. Passes(Document(r.held.of), r.ask, "scene")
    BY <2>1
  <2>3. r.held.of[1] \in r.since.main
    BY <1>1 DEF RequestFits, HeldFits
  <2>4. ScenePassed(n)
    <3>1. CASE kind = "git"
      BY <1>2, <2>2, <3>1 DEF ScenePassed
    <3>2. CASE kind = "fixture"
      <4>1. r.held.of = <<r.held.of[1], NoTree>>
        BY <1>1, <3>2 DEF RequestFits, HeldFits
      <4>2. Passes(Document(<<r.held.of[1], NoTree>>), r.ask, "scene")
        BY <2>2, <4>1
      <4> QED BY <1>2, <2>3, <3>2, <4>2 DEF ScenePassed, Rewritten
    <3> QED BY <1>1, <3>1, <3>2
  <2>5. n.checks # <<"project">>
    BY <2>1
  <2> QED BY <1>2, <1>7, <2>1, <2>4, <2>5 DEF ChecksFit, OfGit
<1>11. ChecksFit(n)
  BY <1>3, <1>8, <1>9, <1>10
<1>12. n.at \in {"stat", "check"}
  BY <1>2
<1>13. RequestFits(n)
  BY <1>2, <1>4, <1>5, <1>6, <1>11, <1>12 DEF RequestFits
<1> QED BY <1>12, <1>13 DEF n

LEMMA CheckPreserves ==
  ASSUME SourceInv, NEW t \in Threads, Check(t)
  PROVE  SourceInv'
<1> DEFINE r == thread[t]
           d == Document(r.held.of)
           n == [r EXCEPT !.checks = Tail(@), !.at = IF kind = "fixture" THEN "stat" ELSE "check"]
<1>1. r.at = "check" /\ Keep /\ lock' = lock /\ cached' = cached
  BY DEF Check
<1>2. ASSUME NEW x, RequestFits(x), x.at \in {"stat", "check", "done"}, Become(t, x) PROVE SourceInv'
  <2>1. LockFits' /\ CacheFits'
    BY <1>1, <1>2, LockStays, CacheStays
  <2> QED BY <1>1, <1>2, <2>1, OneRequest
<1>3. ASSUME NEW is, AnswerFits(Answered(t, is)), Become(t, Answered(t, is)) PROVE SourceInv'
  <2>1. RequestFits(Answered(t, is)) /\ Answered(t, is).at = "done"
    BY <1>3, AnsweredFits
  <2> QED BY <1>2, <1>3, <2>1
<1>4. CASE r.checks # <<>> /\ Passes(d, r.ask, Head(r.checks))
  <2>1. Become(t, n)
    BY <1>4 DEF Check
  <2>2. RequestFits(n) /\ n.at \in {"stat", "check"}
    BY <1>1, <1>4, PassingFits
  <2> HIDE DEF n
  <2> QED BY <1>2, <2>1, <2>2
<1>5. CASE r.checks # <<>> /\ ~Passes(d, r.ask, Head(r.checks))
  <2>1. Become(t, Answered(t, "missing"))
    BY <1>5 DEF Check
  <2> QED BY <1>1, <1>3, <2>1, MissingFits
<1>6. CASE r.checks = <<>> /\ IsThere(d, r.ask)
  <2>1. Become(t, Answered(t, "answer"))
    BY <1>6 DEF Check
  <2>2. AnswerFits(Answered(t, "answer"))
    BY <1>1, <1>6, AnswerIsOfDocument
  <2> QED BY <1>3, <2>1, <2>2
<1>7. CASE r.checks = <<>> /\ ~IsThere(d, r.ask)
  <2>1. CASE r.ask.op = "scene"
    <3>1. Become(t, Answered(t, "broken"))
      BY <1>7, <2>1 DEF Check
    <3>2. AnswerFits(Answered(t, "broken"))
      BY <1>1, <1>7, <2>1, BrokenFits
    <3> QED BY <1>3, <3>1, <3>2
  <2>2. CASE r.ask.op # "scene"
    <3>1. Become(t, Answered(t, "missing"))
      BY <1>7, <2>2 DEF Check
    <3> QED BY <1>1, <1>3, <3>1, MissingFits
  <2> QED BY <2>1, <2>2
<1> QED BY <1>4, <1>5, <1>6, <1>7

-----------------------------------------------------------------------------
\* The refs move, or the file is written: requests that are not done have seen it.
LEMMA TurnKeepsRequest ==
  ASSUME SourceInv, NEW r, RequestFits(r), NEW n, kind' = kind,
         head'.main \in DOMAIN Trees,
         kind = "fixture" => head.main <= head'.main,
         IF r.at \in Resting THEN n = r
         ELSE n = [r EXCEPT !.since = [main |-> @.main \cup {head'.main}, canon |-> @.canon \cup {head'.canon}]]
  PROVE  RequestFits(n)'
<1>1. CASE r.at \in Resting
  <2>1. n = r /\ r.at # "fallback"
    BY <1>1 DEF Resting
  <2>2. PlaceFits(n)' /\ SinceFits(n)' /\ KeyFits(n)' /\ HeldFits(n)'
    BY <1>1, <2>1 DEF RequestFits, PlaceFits, SinceFits, KeyFits, HeldFits, Resting
  <2>3. AnswerFits(n)'
    BY <2>1 DEF RequestFits, AnswerFits
  <2>4. ChecksFit(n)'
    BY <1>1, <2>1 DEF RequestFits, ChecksFit, Resting, OfFile
  <2> QED BY <2>1, <2>2, <2>3, <2>4 DEF RequestFits
<1>2. CASE r.at \notin Resting
  <2>1. /\ DOMAIN n = Fields /\ n.at = r.at /\ n.held = r.held /\ n.key = r.key /\ n.down = r.down
        /\ n.checks = r.checks /\ n.ask = r.ask
        /\ n.since = [main |-> r.since.main \cup {head'.main}, canon |-> r.since.canon \cup {head'.canon}]
    BY <1>2 DEF RequestFits, Fields
  <2>2. n.since.main = r.since.main \cup {head'.main} /\ n.since.canon = r.since.canon \cup {head'.canon}
    BY <2>1
  <2>3. PlaceFits(n)'
    BY <2>1 DEF RequestFits, PlaceFits
  <2>4. SinceFits(n)'
    BY <2>2 DEF RequestFits, SinceFits
  <2>5. HeldFits(n)'
    BY <2>1, <2>2 DEF RequestFits, HeldFits
  <2>6. KeyFits(n)'
    <3>1. r.at = "load" => r.key[1] <= head'.main
      <4>1. SUFFICES ASSUME r.at = "load" PROVE r.key[1] <= head'.main
        OBVIOUS
      <4>2. kind = "fixture"
        BY <4>1, ReferenceSourceAssumption DEF SourceInv, RequestFits, PlaceFits, OfFile
      <4>3. r.key[1] \in DOMAIN Trees /\ r.key[1] <= head.main
        BY <4>1 DEF RequestFits, KeyFits, SinceFits
      <4> QED BY <4>2, <4>3, ReferenceSourceAssumption DEF SourceInv, HeadFits
    <3> QED BY <2>1, <2>2, <3>1 DEF RequestFits, KeyFits
  <2>7. AnswerFits(n)'
    BY <1>2, <2>1 DEF AnswerFits, Resting
  <2>8. r.at \in {"check"} \cup OfFile /\ ScenePassed(r) => ScenePassed(n)'
    <3>1. SUFFICES ASSUME ScenePassed(r), kind # "git" PROVE ScenePassed(n)'
      BY <2>1 DEF ScenePassed
    <3>2. CASE Rewritten(r)
      BY <2>2, <3>1, <3>2 DEF ScenePassed, Rewritten
    <3>3. CASE ~Rewritten(r)
      <4>1. \A m \in r.since.main : Passes(Document(<<m, NoTree>>), r.ask, "scene")
        BY <3>1, <3>3 DEF ScenePassed
      <4>2. CASE head'.main \in r.since.main
        <5>1. n.since.main = r.since.main
          BY <2>2, <4>2
        <5> QED BY <2>1, <3>1, <4>1, <5>1 DEF ScenePassed
      <4>3. CASE head'.main \notin r.since.main
        <5>1. head.main \in r.since.main
          BY <1>2 DEF RequestFits, SinceFits
        <5>2. Rewritten(n)
          BY <2>2, <4>3, <5>1 DEF Rewritten
        <5> QED BY <3>1, <5>2 DEF ScenePassed
      <4> QED BY <4>2, <4>3
    <3> QED BY <3>2, <3>3
  <2>9. ChecksFit(n)'
    BY <2>1, <2>8 DEF RequestFits, ChecksFit
  <2>10. (n.at = "fallback" => n.down)'
    BY <2>1 DEF RequestFits
  <2> QED BY <2>1, <2>3, <2>4, <2>5, <2>6, <2>7, <2>9, <2>10 DEF RequestFits
<1> QED BY <1>1, <1>2

LEMMA RefMovesPreserves ==
  ASSUME SourceInv, RefMoves
  PROVE  SourceInv'
<1>1. /\ DOMAIN head' = {"main", "canon", "moves"} /\ head'.main \in DOMAIN Trees
      /\ kind = "fixture" => head.main <= head'.main
      /\ kind # "git" => head'.canon = NoTree
      /\ \E h : h.main = head'.main /\ h.canon = head'.canon /\ Turn(h)
  <2>1. ASSUME NEW m \in DOMAIN Trees, kind = "fixture" => m > head.main, Turn([head EXCEPT !.main = m])
        PROVE  <1>1!:
    <3> DEFINE h == [head EXCEPT !.main = m]
    <3>1. DOMAIN h = {"main", "canon", "moves"} /\ h.main = m /\ h.canon = head.canon
      BY DEF SourceInv, HeadFits
    <3>2. Turn(h) /\ head' = [h EXCEPT !.moves = @ + 1]
      BY <2>1 DEF Turn
    <3> HIDE DEF h
    <3>3. DOMAIN head' = {"main", "canon", "moves"} /\ head'.main = m /\ head'.canon = head.canon
      BY <3>1, <3>2
    <3>4. kind = "fixture" => head.main <= m
      BY <2>1, ReferenceSourceAssumption DEF SourceInv, HeadFits
    <3> QED BY <3>1, <3>2, <3>3, <3>4 DEF SourceInv, HeadFits
  <2>2. ASSUME NEW c \in DOMAIN CanonTrees, head.canon \notin {NoTree, c}, Turn([head EXCEPT !.canon = c])
        PROVE  <1>1!:
    <3> DEFINE h == [head EXCEPT !.canon = c]
    <3>1. DOMAIN h = {"main", "canon", "moves"} /\ h.main = head.main /\ h.canon = c
      BY DEF SourceInv, HeadFits
    <3>2. Turn(h) /\ head' = [h EXCEPT !.moves = @ + 1]
      BY <2>2 DEF Turn
    <3> HIDE DEF h
    <3>3. DOMAIN head' = {"main", "canon", "moves"} /\ head'.main = head.main /\ head'.canon = c
      BY <3>1, <3>2
    <3>4. kind = "git"
      BY <2>2 DEF SourceInv, HeadFits
    <3>5. head.main \in DOMAIN Trees /\ kind # "fixture"
      BY <3>4 DEF SourceInv, HeadFits
    <3> QED BY <3>1, <3>2, <3>3, <3>4, <3>5
  <2> QED BY <2>1, <2>2 DEF RefMoves
<1>2. PICK h : h.main = head'.main /\ h.canon = head'.canon /\ Turn(h)
  BY <1>1
<1>3. kind' = kind /\ cached' = cached /\ lock' = lock /\ DOMAIN thread' = Threads
  BY <1>2 DEF Turn
<1>4. \A t \in Threads :
        IF thread[t].at \in Resting THEN thread'[t] = thread[t]
        ELSE thread'[t] = [thread[t] EXCEPT !.since = [main |-> @.main \cup {head'.main}, canon |-> @.canon \cup {head'.canon}]]
  BY <1>2 DEF Turn, Resting
<1>5. ASSUME NEW t \in Threads PROVE RequestFits(thread[t])' /\ thread'[t].at = thread[t].at
  <2>1. PICK r : r = thread[t]
    OBVIOUS
  <2>2. PICK n : n = thread'[t]
    OBVIOUS
  <2>3. RequestFits(r)
    BY <2>1 DEF SourceInv
  <2>4. IF r.at \in Resting THEN n = r
        ELSE n = [r EXCEPT !.since = [main |-> @.main \cup {head'.main}, canon |-> @.canon \cup {head'.canon}]]
    BY <1>4, <2>1, <2>2
  <2>5. RequestFits(n)'
    BY <1>1, <1>3, <2>3, <2>4, TurnKeepsRequest
  <2>6. n.at = r.at
    BY <2>3, <2>4 DEF RequestFits, Fields
  <2> QED BY <2>1, <2>2, <2>5, <2>6
<1>6. HeadFits'
  BY <1>1, <1>3 DEF HeadFits
<1>7. CacheFits'
  <2>1. SUFFICES ASSUME kind = "fixture" PROVE CacheFits'
    BY <1>3 DEF SourceInv, CacheFits
  <2> QED BY <1>1, <1>3, <2>1, ReferenceSourceAssumption DEF SourceInv, CacheFits, HeadFits
<1>8. LockFits'
  BY <1>3, <1>5 DEF SourceInv, LockFits
<1> QED BY <1>3, <1>5, <1>6, <1>7, <1>8 DEF SourceInv

-----------------------------------------------------------------------------
LEMMA SourceSteps == SourceInv /\ [SourceNext]_sourceVars => SourceInv'
<1> SUFFICES ASSUME SourceInv, [SourceNext]_sourceVars PROVE SourceInv'
  OBVIOUS
<1>1. CASE RefMoves
  BY <1>1, RefMovesPreserves
<1>2. ASSUME NEW t \in Threads, Serve(t) PROVE SourceInv'
  BY <1>2, ArrivePreserves, FirstMainPreserves, FirstCanonPreserves, LockPreserves, LockedMainPreserves,
     LockedCanonPreserves, BuildDocumentPreserves, GitFailsPreserves, StatPreserves, LoadPreserves, HttpPreserves,
     CheckPreserves, FallbackPreserves DEF Serve
<1>3. CASE UNCHANGED sourceVars
  <2>1. kind' = kind /\ head' = head /\ cached' = cached /\ lock' = lock /\ thread' = thread
    BY <1>3 DEF sourceVars
  <2>2. ASSUME NEW u \in Threads PROVE RequestFits(thread[u])'
    BY <2>1 DEF SourceInv, RequestFits, PlaceFits, SinceFits, KeyFits, HeldFits, ChecksFit, AnswerFits, ScenePassed
  <2> QED BY <2>1, <2>2 DEF SourceInv, HeadFits, CacheFits, LockFits
<1> QED BY <1>1, <1>2, <1>3 DEF SourceNext

\* What each request for the document knows at its step, and what is kept, fit the trees.
THEOREM SourceInvariance == SourceSpec => []SourceInv
BY SourceStarts, SourceSteps, PTL DEF SourceSpec

\* A file that was written during a request has more than one tree seen.
LEMMA WrittenCounts ==
  ASSUME NEW r, r.since.main \subseteq DOMAIN Trees, Rewritten(r)
  PROVE  Cardinality(r.since.main) > 1
<1> DEFINE S == r.since.main
<1>1. IsFiniteSet(DOMAIN Trees)
  BY ReferenceSourceAssumption, FS_Interval
<1>2. IsFiniteSet(S) /\ Cardinality(S) \in Nat
  BY <1>1, FS_Subset, FS_CardinalityType
<1>3. PICK m, n \in S : m # n
  BY DEF Rewritten
<1>4. Cardinality(S) # 0
  BY <1>2, <1>3, FS_EmptySet
<1>5. Cardinality(S) # 1
  BY <1>2, <1>3, FS_Singleton
<1> QED BY <1>2, <1>4, <1>5

\* However the refs of a repository or a file change while requests build, keep and
\* share documents, what each is told is of trees the refs pointed at meanwhile, its
\* references are of one commit, and the lock is given back.
THEOREM SourceIsSound == SourceSpec => []SourceSound
<1>1. SourceInv => SourceSound
  <2> SUFFICES ASSUME SourceInv PROVE SourceSound
    OBVIOUS
  <2>1. \A t \in Threads : RequestFits(thread[t])
    BY DEF SourceInv
  <2>2. SourceTypeOK
    <3>1. \A t \in Threads : PlaceFits(thread[t])
      BY <2>1 DEF RequestFits
    <3> QED BY <3>1 DEF SourceInv, HeadFits, LockFits, SourceTypeOK, Heads, PlaceFits, Resting, OfGit, OfFile
  <2>3. \A t \in Threads : AnswerFits(thread[t]) /\ SinceFits(thread[t])
    BY <2>1 DEF RequestFits
  <2>4. AnswersAreCurrent /\ ReferencesAreOfOneCommit
    BY <2>3 DEF AnswerFits, AnswersAreCurrent, ReferencesAreOfOneCommit, Finished
  <2>5. ScenesAreOwn
    <3> SUFFICES ASSUME NEW t \in Threads, Finished(t)
                 PROVE  LET given == thread[t].answer
                            written == kind = "fixture" /\ Cardinality(thread[t].since.main) > 1
                        IN /\ given.is = "answer" => written \/ given.home \subseteq {thread[t].ask.project}
                           /\ given.is = "broken" => written
                           /\ given.is \in {"kept", "unavailable"} => thread[t].down
      BY DEF ScenesAreOwn
    <3>1. Rewritten(thread[t]) => Cardinality(thread[t].since.main) > 1
      BY <2>3, WrittenCounts DEF SinceFits
    <3> QED BY <2>3, <3>1 DEF AnswerFits, Finished
  <2>6. KeptUnderItsKey /\ LockIsReturned
    BY DEF SourceInv, CacheFits, LockFits, KeptUnderItsKey, LockIsReturned
  <2> QED BY <2>2, <2>4, <2>5, <2>6 DEF SourceSound
<1> QED BY <1>1, SourceInvariance, PTL

-----------------------------------------------------------------------------
(* Preparation of ComfyUI Jobs.                                            *)

-----------------------------------------------------------------------------
(* Templates: what leaving nodes out does to each.                         *)

\* Of a node that is left, an input comes from x once D is left out.
Leads(t, D, r, x) ==
  /\ r \in DOMAIN t.inputs \ D /\ x # Nothing
  /\ \E i \in DOMAIN t.inputs[r] : x = Through(t, D, t.inputs[r][i])

LEMMA LedBehind ==
  ASSUME NEW t, NEW D, NEW S, NEW r \in S, NEW x, Leads(t, D, r, x)
  PROVE  x \in Behind(Rewired(t, D), S)
  <1> DEFINE G == Rewired(t, D)
  <1>1. PICK i \in DOMAIN t.inputs[r] : x = Through(t, D, t.inputs[r][i])
    BY DEF Leads
  <1>2. r \in DOMAIN G /\ i \in DOMAIN G[r] /\ G[r][i] = x
    BY <1>1 DEF Leads, Rewired, Linked
  <1> HIDE DEF G
  <1>3. x \in {G[r][j] : j \in DOMAIN G[r]}
    BY <1>2
  <1> QED
    BY <1>2, <1>3 DEF Behind, G

LEMMA BehindGrows ==
  ASSUME NEW G, NEW S PROVE S \subseteq Behind(G, S)
  BY DEF Behind

\* Roles found from "save" in eight layers.
Layer(t, D, S, T) == \A x \in T : x \in S \/ \E r \in S : Leads(t, D, r, x)

LEMMA LayerBehind ==
  ASSUME NEW t, NEW D, NEW S, NEW T, NEW B, S \subseteq B, Layer(t, D, S, T)
  PROVE  T \subseteq Behind(Rewired(t, D), B)
  <1> SUFFICES ASSUME NEW x \in T PROVE x \in Behind(Rewired(t, D), B)
    OBVIOUS
  <1>1. CASE x \in S
    BY <1>1, BehindGrows
  <1>2. CASE \E r \in S : Leads(t, D, r, x)
    BY <1>2, LedBehind
  <1> QED BY <1>1, <1>2 DEF Layer

LEMMA LayersNeeded ==
  ASSUME NEW t, NEW D, NEW L1, NEW L2, NEW L3, NEW L4, NEW L5, NEW L6, NEW L7, NEW L8,
         Layer(t, D, {"save"}, L1), Layer(t, D, L1, L2), Layer(t, D, L2, L3), Layer(t, D, L3, L4),
         Layer(t, D, L4, L5), Layer(t, D, L5, L6), Layer(t, D, L6, L7), Layer(t, D, L7, L8)
  PROVE  L8 \subseteq Needed(Rewired(t, D))
  <1> DEFINE G == Rewired(t, D)
             B1 == Behind(G, {"save"})  B2 == Behind(G, B1)  B3 == Behind(G, B2)  B4 == Behind(G, B3)
             B5 == Behind(G, B4)  B6 == Behind(G, B5)  B7 == Behind(G, B6)  B8 == Behind(G, B7)
  <1>0. Needed(G) = B8
    BY DEF Needed, Behind4, Behind2
  <1>1. L1 \subseteq B1  BY LayerBehind
  <1> HIDE DEF B1
  <1>2. L2 \subseteq B2  BY <1>1, LayerBehind
  <1> HIDE DEF B2
  <1>3. L3 \subseteq B3  BY <1>2, LayerBehind
  <1> HIDE DEF B3
  <1>4. L4 \subseteq B4  BY <1>3, LayerBehind
  <1> HIDE DEF B4
  <1>5. L5 \subseteq B5  BY <1>4, LayerBehind
  <1> HIDE DEF B5
  <1>6. L6 \subseteq B6  BY <1>5, LayerBehind
  <1> HIDE DEF B6
  <1>7. L7 \subseteq B7  BY <1>6, LayerBehind
  <1> HIDE DEF B7
  <1>8. L8 \subseteq B8  BY <1>7, LayerBehind
  <1> QED BY <1>0, <1>8

\* No input that a node needs is missing.
Covered(t, D) ==
  \A r \in DOMAIN t.inputs \ D : \A i \in DOMAIN t.inputs[r] :
    <<r, i>> \in Dispensable \/ Through(t, D, t.inputs[r][i]) # Nothing

\* What takes the place of a node, if anything does, is of the template.
Substituted(t) == \A n \in DOMAIN t.optional : t.optional[n] \in RolesOf(t) \cup {Nothing}

\* A value is written into a node that is left out or that the output needs; only
\* the name of the audio VAE is written also where no sound is decoded.
Reaching(t, D) ==
  \A w \in t.writes :
    \/ w[2] \in D \/ w[2] \in Needed(Rewired(t, D))
    \/ (w = <<"audio_vae_name", "audio_vae">> /\ "audio_decode" \in D)

\* The input i of the node r comes from the node n.
Link(t, r, i, n) == r \in DOMAIN t.inputs /\ i \in DOMAIN t.inputs[r] /\ t.inputs[r][i] = n

LEMMA LinkRole ==
  ASSUME NEW t, NEW r, NEW i, NEW n, Link(t, r, i, n) PROVE r \in RolesOf(t) /\ n \in RolesOf(t)
  <1>1. n \in {t.inputs[r][j] : j \in DOMAIN t.inputs[r]}
    BY DEF Link
  <1> QED BY <1>1 DEF Link, RolesOf

LEMMA LinkLeads ==
  ASSUME NEW t, NEW D, NEW r, NEW i, NEW n, Nothing \notin RolesOf(t),
         Link(t, r, i, n), r \notin D, n \notin D
  PROVE  Leads(t, D, r, n)
  BY LinkRole DEF Link, Leads, Through

LEMMA LinkPasses ==
  ASSUME NEW t, NEW D, NEW r, NEW i, NEW n, NEW m, Nothing \notin RolesOf(t), Link(t, r, i, n), r \notin D,
         n \in D, n \in DOMAIN t.optional, t.optional[n] = m, m \notin D, m \in RolesOf(t)
  PROVE  Leads(t, D, r, m)
  BY DEF Link, Leads, Through, Droppable

\* Nodes are left out only where something takes their place.
Replaced(t, D) == \A n \in D : n \in DOMAIN t.optional /\ t.optional[n] \in RolesOf(t) \ D

LEMMA ReplacedCovers ==
  ASSUME NEW t, NEW D, Nothing \notin RolesOf(t), Replaced(t, D)
  PROVE  Covered(t, D)
  <1> SUFFICES ASSUME NEW r \in DOMAIN t.inputs \ D, NEW i \in DOMAIN t.inputs[r]
               PROVE  Through(t, D, t.inputs[r][i]) # Nothing
    BY DEF Covered
  <1>1. t.inputs[r][i] \in RolesOf(t)
    BY LinkRole DEF Link
  <1> QED BY <1>1 DEF Replaced, Through, Droppable

LEMMA Txt2ImgLinks ==
  /\ Link(Txt2Img, "save", "images", "vae_decode")
  /\ Link(Txt2Img, "vae_decode", "samples", "hires_ksampler")
  /\ Link(Txt2Img, "vae_decode", "vae", "vae_loader")
  /\ Link(Txt2Img, "hires_ksampler", "model", "lora_loader")
  /\ Link(Txt2Img, "hires_ksampler", "positive", "positive_prompt")
  /\ Link(Txt2Img, "hires_ksampler", "negative", "negative_prompt")
  /\ Link(Txt2Img, "hires_ksampler", "latent_image", "hires_upscale")
  /\ Link(Txt2Img, "hires_upscale", "samples", "ksampler")
  /\ Link(Txt2Img, "ksampler", "model", "lora_loader")
  /\ Link(Txt2Img, "ksampler", "positive", "positive_prompt")
  /\ Link(Txt2Img, "ksampler", "negative", "negative_prompt")
  /\ Link(Txt2Img, "ksampler", "latent_image", "latent")
  /\ Link(Txt2Img, "positive_prompt", "clip", "clip_loader")
  /\ Link(Txt2Img, "negative_prompt", "clip", "clip_loader")
  /\ Link(Txt2Img, "lora_loader", "model", "unet_loader")
  BY DEF Link, Txt2Img, Encode, Sampler, Decode, Save

LEMMA Txt2ImgUpscaled ==
  \A r \in DOMAIN Txt2Img.inputs : \A i \in DOMAIN Txt2Img.inputs[r] :
    Txt2Img.inputs[r][i] = "hires_upscale" => r = "hires_ksampler"
  BY DEF Txt2Img, Encode, Sampler, Decode, Save

LEMMA Txt2ImgCut ==
  ASSUME NEW D, D \subseteq DOMAIN Txt2Img.optional, Nothing \notin RolesOf(Txt2Img),
         "hires_upscale" \in D <=> "hires_ksampler" \in D
  PROVE  Covered(Txt2Img, D) /\ Substituted(Txt2Img) /\ Reaching(Txt2Img, D)
  <1> DEFINE t == Txt2Img
             L1 == {"save"} \cup {"vae_decode"}
             L2 == L1 \cup {"vae_loader"} \cup (IF "hires_ksampler" \in D THEN {"ksampler"} ELSE {"hires_ksampler"})
             L3 == L2 \cup {"positive_prompt", "negative_prompt"}
                      \cup (IF "lora_loader" \in D THEN {"unet_loader"} ELSE {"lora_loader"})
                      \cup (IF "hires_ksampler" \in D THEN {} ELSE {"hires_upscale"})
             L4 == L3 \cup {"clip_loader", "unet_loader", "ksampler"}
             L5 == L4 \cup {"latent"}
  <1>1. /\ DOMAIN t.optional = {"lora_loader", "hires_upscale", "hires_ksampler"}
        /\ t.optional["lora_loader"] = "unet_loader" /\ t.optional["hires_upscale"] = Nothing
        /\ t.optional["hires_ksampler"] = "ksampler"
    BY DEF Txt2Img
  <1>2. "unet_loader" \in RolesOf(t) /\ "ksampler" \in RolesOf(t)
    BY Txt2ImgLinks, LinkRole
  <1>3. Substituted(t)
    BY <1>1, <1>2 DEF Substituted
  <1>4. Covered(t, D)
    <2> SUFFICES ASSUME NEW r \in DOMAIN t.inputs \ D, NEW i \in DOMAIN t.inputs[r]
                 PROVE  Through(t, D, t.inputs[r][i]) # Nothing
      BY DEF Covered
    <2>1. t.inputs[r][i] \in RolesOf(t)
      BY LinkRole DEF Link
    <2>2. t.inputs[r][i] \in D => t.inputs[r][i] # "hires_upscale"
      BY Txt2ImgUpscaled
    <2> HIDE DEF t
    <2> QED BY <1>1, <1>2, <2>1, <2>2 DEF Through, Droppable, t
  <1>5. \A w \in t.writes : w[2] \in D \/ w[2] \in L5
    BY DEF t, Txt2Img, AnimaWrites, TextWrites, LoraWrites
  <1>6. \A r, i, n : Link(t, r, i, n) /\ r \notin D /\ n \notin D => Leads(t, D, r, n)
    BY LinkLeads
  <1>7. \A r : Link(t, r, "model", "lora_loader") /\ r \notin D /\ "lora_loader" \in D
           => Leads(t, D, r, "unet_loader")
    BY <1>1, <1>2, LinkPasses
  <1>8. "hires_ksampler" \in D => Leads(t, D, "vae_decode", "ksampler")
    BY <1>1, <1>2, Txt2ImgLinks, LinkPasses
  <1> HIDE DEF t
  <1>9. Layer(t, D, {"save"}, L1)
    BY <1>1, <1>6, Txt2ImgLinks DEF Layer, t
  <1>10. Layer(t, D, L1, L2)
    BY <1>1, <1>6, <1>8, Txt2ImgLinks DEF Layer, t
  <1>11. Layer(t, D, L2, L3)
    BY <1>1, <1>6, <1>7, Txt2ImgLinks DEF Layer, t
  <1>12. Layer(t, D, L3, L4)
    BY <1>1, <1>6, <1>7, Txt2ImgLinks DEF Layer, t
  <1>13. Layer(t, D, L4, L5)
    BY <1>1, <1>6, <1>7, Txt2ImgLinks DEF Layer, t
  <1>14. Layer(t, D, L5, L5)
    BY DEF Layer
  <1>15. L5 \subseteq Needed(Rewired(t, D))
    <2> HIDE DEF L1, L2, L3, L4, L5
    <2> QED BY <1>9, <1>10, <1>11, <1>12, <1>13, <1>14, LayersNeeded
  <1> QED BY <1>3, <1>4, <1>5, <1>15 DEF Reaching, t

LEMMA Img2ImgLinks ==
  /\ Link(Img2Img, "save", "images", "vae_decode")
  /\ Link(Img2Img, "vae_decode", "samples", "ksampler")
  /\ Link(Img2Img, "vae_decode", "vae", "vae_loader")
  /\ Link(Img2Img, "ksampler", "model", "lora_loader")
  /\ Link(Img2Img, "ksampler", "positive", "positive_prompt")
  /\ Link(Img2Img, "ksampler", "negative", "negative_prompt")
  /\ Link(Img2Img, "ksampler", "latent_image", "vae_encode")
  /\ Link(Img2Img, "positive_prompt", "clip", "clip_loader")
  /\ Link(Img2Img, "negative_prompt", "clip", "clip_loader")
  /\ Link(Img2Img, "lora_loader", "model", "unet_loader")
  /\ Link(Img2Img, "vae_encode", "pixels", "source_image")
  BY DEF Link, Img2Img, Encode, Sampler, Decode, Save

LEMMA Img2ImgCut ==
  ASSUME NEW D, D \subseteq DOMAIN Img2Img.optional, Nothing \notin RolesOf(Img2Img)
  PROVE  Covered(Img2Img, D) /\ Substituted(Img2Img) /\ Reaching(Img2Img, D)
  <1> DEFINE t == Img2Img
             L1 == {"save"} \cup {"vae_decode"}
             L2 == L1 \cup {"ksampler", "vae_loader"}
             L3 == L2 \cup {"positive_prompt", "negative_prompt", "vae_encode"}
                      \cup (IF "lora_loader" \in D THEN {"unet_loader"} ELSE {"lora_loader"})
             L4 == L3 \cup {"unet_loader", "clip_loader", "source_image"}
  <1>1. DOMAIN t.optional = {"lora_loader"} /\ t.optional["lora_loader"] = "unet_loader"
    BY DEF Img2Img
  <1>2. "unet_loader" \in RolesOf(t)
    BY Img2ImgLinks, LinkRole
  <1>3. Covered(t, D) /\ Substituted(t)
    BY <1>1, <1>2, ReplacedCovers DEF Replaced, Substituted
  <1>4. \A w \in t.writes : w[2] \in D \/ w[2] \in L4
    BY DEF t, Img2Img, SourceWrites, AnimaWrites, TextWrites, LoraWrites
  <1>5. \A r, i, n : Link(t, r, i, n) /\ r \notin D /\ n \notin D => Leads(t, D, r, n)
    BY LinkLeads
  <1>6. \A r : Link(t, r, "model", "lora_loader") /\ r \notin D /\ "lora_loader" \in D
           => Leads(t, D, r, "unet_loader")
    BY <1>1, <1>2, LinkPasses
  <1> HIDE DEF t
  <1>7. Layer(t, D, {"save"}, L1)
    BY <1>1, <1>5, <1>6, Img2ImgLinks DEF Layer, t
  <1>8. Layer(t, D, L1, L2)
    BY <1>1, <1>5, <1>6, Img2ImgLinks DEF Layer, t
  <1>9. Layer(t, D, L2, L3)
    BY <1>1, <1>5, <1>6, Img2ImgLinks DEF Layer, t
  <1>10. Layer(t, D, L3, L4)
    BY <1>1, <1>5, <1>6, Img2ImgLinks DEF Layer, t
  <1>11. Layer(t, D, L4, L4)
    BY DEF Layer
  <1>12. L4 \subseteq Needed(Rewired(t, D))
    <2> HIDE DEF L1, L2, L3, L4
    <2> QED BY <1>7, <1>8, <1>9, <1>10, <1>11, LayersNeeded
  <1> QED BY <1>3, <1>4, <1>12 DEF Reaching, t

LEMMA SiglipLinks ==
  /\ Link(Siglip, "save", "images", "vae_decode")
  /\ Link(Siglip, "vae_decode", "samples", "ksampler")
  /\ Link(Siglip, "vae_decode", "vae", "vae_loader")
  /\ Link(Siglip, "ksampler", "model", "ip_adapter_apply")
  /\ Link(Siglip, "ksampler", "positive", "positive_prompt")
  /\ Link(Siglip, "ksampler", "negative", "negative_prompt")
  /\ Link(Siglip, "ksampler", "latent_image", "latent")
  /\ Link(Siglip, "positive_prompt", "clip", "clip_loader")
  /\ Link(Siglip, "negative_prompt", "clip", "clip_loader")
  /\ Link(Siglip, "lora_loader", "model", "unet_loader")
  /\ Link(Siglip, "ip_adapter_apply", "model", "lora_loader")
  /\ Link(Siglip, "ip_adapter_apply", "ip_adapter", "ip_adapter_loader")
  /\ Link(Siglip, "ip_adapter_apply", "ref_image", "source_image")
  BY DEF Link, Siglip, Encode, Sampler, Decode, Save

LEMMA SiglipCut ==
  ASSUME NEW D, D \subseteq DOMAIN Siglip.optional, Nothing \notin RolesOf(Siglip)
  PROVE  Covered(Siglip, D) /\ Substituted(Siglip) /\ Reaching(Siglip, D)
  <1> DEFINE t == Siglip
             L1 == {"save"} \cup {"vae_decode"}
             L2 == L1 \cup {"ksampler", "vae_loader"}
             L3 == L2 \cup {"ip_adapter_apply", "positive_prompt", "negative_prompt", "latent"}
             L4 == L3 \cup {"ip_adapter_loader", "source_image", "clip_loader"}
                      \cup (IF "lora_loader" \in D THEN {"unet_loader"} ELSE {"lora_loader"})
             L5 == L4 \cup {"unet_loader"}
  <1>1. DOMAIN t.optional = {"lora_loader"} /\ t.optional["lora_loader"] = "unet_loader"
    BY DEF Siglip
  <1>2. "unet_loader" \in RolesOf(t)
    BY SiglipLinks, LinkRole
  <1>3. Covered(t, D) /\ Substituted(t)
    BY <1>1, <1>2, ReplacedCovers DEF Replaced, Substituted
  <1>4. \A w \in t.writes : w[2] \in D \/ w[2] \in L5
    BY DEF t, Siglip, SourceWrites, AnimaWrites, TextWrites, LoraWrites
  <1>5. \A r, i, n : Link(t, r, i, n) /\ r \notin D /\ n \notin D => Leads(t, D, r, n)
    BY LinkLeads
  <1>6. \A r : Link(t, r, "model", "lora_loader") /\ r \notin D /\ "lora_loader" \in D
           => Leads(t, D, r, "unet_loader")
    BY <1>1, <1>2, LinkPasses
  <1> HIDE DEF t
  <1>7. Layer(t, D, {"save"}, L1)
    BY <1>1, <1>5, <1>6, SiglipLinks DEF Layer, t
  <1>8. Layer(t, D, L1, L2)
    BY <1>1, <1>5, <1>6, SiglipLinks DEF Layer, t
  <1>9. Layer(t, D, L2, L3)
    BY <1>1, <1>5, <1>6, SiglipLinks DEF Layer, t
  <1>10. Layer(t, D, L3, L4)
    BY <1>1, <1>5, <1>6, SiglipLinks DEF Layer, t
  <1>11. Layer(t, D, L4, L5)
    BY <1>1, <1>5, <1>6, SiglipLinks DEF Layer, t
  <1>12. Layer(t, D, L5, L5)
    BY DEF Layer
  <1>13. L5 \subseteq Needed(Rewired(t, D))
    <2> HIDE DEF L1, L2, L3, L4, L5
    <2> QED BY <1>7, <1>8, <1>9, <1>10, <1>11, <1>12, LayersNeeded
  <1> QED BY <1>3, <1>4, <1>13 DEF Reaching, t

LEMMA InpaintLinks ==
  /\ Link(Inpaint, "save", "images", "vae_decode")
  /\ Link(Inpaint, "vae_decode", "samples", "ksampler")
  /\ Link(Inpaint, "vae_decode", "vae", "vae_loader")
  /\ Link(Inpaint, "ksampler", "model", "unet_loader")
  /\ Link(Inpaint, "ksampler", "positive", "positive_prompt")
  /\ Link(Inpaint, "ksampler", "negative", "negative_prompt")
  /\ Link(Inpaint, "ksampler", "latent_image", "vae_encode")
  /\ Link(Inpaint, "positive_prompt", "clip", "clip_loader")
  /\ Link(Inpaint, "negative_prompt", "clip", "clip_loader")
  /\ Link(Inpaint, "vae_encode", "pixels", "source_image")
  /\ Link(Inpaint, "vae_encode", "mask", "mask_image")
  BY DEF Link, Inpaint, Encode, Sampler, Decode, Save

LEMMA InpaintCut ==
  ASSUME NEW D, D \subseteq DOMAIN Inpaint.optional, Nothing \notin RolesOf(Inpaint)
  PROVE  Covered(Inpaint, D) /\ Substituted(Inpaint) /\ Reaching(Inpaint, D)
  <1> DEFINE t == Inpaint
             L1 == {"save"} \cup {"vae_decode"}
             L2 == L1 \cup {"ksampler", "vae_loader"}
             L3 == L2 \cup {"unet_loader", "positive_prompt", "negative_prompt", "vae_encode"}
             L4 == L3 \cup {"clip_loader", "source_image", "mask_image"}
  <1>1. DOMAIN t.optional = {}
    BY DEF Inpaint
  <1>2. Covered(t, D) /\ Substituted(t)
    BY <1>1, ReplacedCovers DEF Replaced, Substituted
  <1>3. \A w \in t.writes : w[2] \in L4
    BY DEF t, Inpaint, SourceWrites, AnimaWrites, TextWrites
  <1>4. \A r, i, n : Link(t, r, i, n) => Leads(t, D, r, n)
    BY <1>1, LinkLeads
  <1> HIDE DEF t
  <1>5. Layer(t, D, {"save"}, L1)
    BY <1>4, InpaintLinks DEF Layer, t
  <1>6. Layer(t, D, L1, L2)
    BY <1>4, InpaintLinks DEF Layer, t
  <1>7. Layer(t, D, L2, L3)
    BY <1>4, InpaintLinks DEF Layer, t
  <1>8. Layer(t, D, L3, L4)
    BY <1>4, InpaintLinks DEF Layer, t
  <1>9. Layer(t, D, L4, L4)
    BY DEF Layer
  <1>10. L4 \subseteq Needed(Rewired(t, D))
    <2> HIDE DEF L1, L2, L3, L4
    <2> QED BY <1>5, <1>6, <1>7, <1>8, <1>9, LayersNeeded
  <1> QED BY <1>2, <1>3, <1>10 DEF Reaching, t

LEMMA InContextLinks ==
  /\ Link(InContext, "save", "images", "vae_decode")
  /\ Link(InContext, "vae_decode", "samples", "ksampler")
  /\ Link(InContext, "vae_decode", "vae", "vae_loader")
  /\ Link(InContext, "ksampler", "model", "incontext_apply")
  /\ Link(InContext, "ksampler", "positive", "positive_prompt")
  /\ Link(InContext, "ksampler", "negative", "negative_prompt")
  /\ Link(InContext, "ksampler", "latent_image", "latent")
  /\ Link(InContext, "positive_prompt", "clip", "clip_loader")
  /\ Link(InContext, "negative_prompt", "clip", "clip_loader")
  /\ Link(InContext, "lora_loader", "model", "unet_loader")
  /\ Link(InContext, "incontext_apply", "model", "lora_loader")
  /\ Link(InContext, "incontext_apply", "ref_latent", "ref_encode")
  /\ Link(InContext, "ref_encode", "image", "source_image")
  BY DEF Link, InContext, Encode, Sampler, Decode, Save

LEMMA InContextCut ==
  ASSUME NEW D, D \subseteq DOMAIN InContext.optional, Nothing \notin RolesOf(InContext)
  PROVE  Covered(InContext, D) /\ Substituted(InContext) /\ Reaching(InContext, D)
  <1> DEFINE t == InContext
             L1 == {"save"} \cup {"vae_decode"}
             L2 == L1 \cup {"ksampler", "vae_loader"}
             L3 == L2 \cup {"incontext_apply", "positive_prompt", "negative_prompt", "latent"}
             L4 == L3 \cup {"lora_loader", "ref_encode", "clip_loader"}
             L5 == L4 \cup {"unet_loader", "source_image"}
  <1>1. DOMAIN t.optional = {}
    BY DEF InContext
  <1>2. Covered(t, D) /\ Substituted(t)
    BY <1>1, ReplacedCovers DEF Replaced, Substituted
  <1>3. \A w \in t.writes : w[2] \in L5
    BY DEF t, InContext, SourceWrites, AnimaWrites, TextWrites
  <1>4. \A r, i, n : Link(t, r, i, n) => Leads(t, D, r, n)
    BY <1>1, LinkLeads
  <1> HIDE DEF t
  <1>5. Layer(t, D, {"save"}, L1)
    BY <1>4, InContextLinks DEF Layer, t
  <1>6. Layer(t, D, L1, L2)
    BY <1>4, InContextLinks DEF Layer, t
  <1>7. Layer(t, D, L2, L3)
    BY <1>4, InContextLinks DEF Layer, t
  <1>8. Layer(t, D, L3, L4)
    BY <1>4, InContextLinks DEF Layer, t
  <1>9. Layer(t, D, L4, L5)
    BY <1>4, InContextLinks DEF Layer, t
  <1>10. Layer(t, D, L5, L5)
    BY DEF Layer
  <1>11. L5 \subseteq Needed(Rewired(t, D))
    <2> HIDE DEF L1, L2, L3, L4, L5
    <2> QED BY <1>5, <1>6, <1>7, <1>8, <1>9, <1>10, LayersNeeded
  <1> QED BY <1>2, <1>3, <1>11 DEF Reaching, t

LEMMA ControlNetLinks ==
  /\ Link(ControlNet, "save", "images", "vae_decode")
  /\ Link(ControlNet, "vae_decode", "samples", "ksampler")
  /\ Link(ControlNet, "vae_decode", "vae", "checkpoint")
  /\ Link(ControlNet, "ksampler", "positive", "control_apply")
  /\ Link(ControlNet, "ksampler", "latent_image", "latent")
  /\ Link(ControlNet, "control_apply", "positive", "positive_prompt")
  /\ Link(ControlNet, "control_apply", "negative", "negative_prompt")
  /\ Link(ControlNet, "control_apply", "control_net", "control_loader")
  /\ Link(ControlNet, "control_apply", "image", "canny")
  /\ Link(ControlNet, "canny", "image", "source_image")
  BY DEF Link, ControlNet, Decode, Save

LEMMA ControlNetCut ==
  ASSUME NEW D, D \subseteq DOMAIN ControlNet.optional, Nothing \notin RolesOf(ControlNet)
  PROVE  Covered(ControlNet, D) /\ Substituted(ControlNet) /\ Reaching(ControlNet, D)
  <1> DEFINE t == ControlNet
             L1 == {"save"} \cup {"vae_decode"}
             L2 == L1 \cup {"ksampler", "checkpoint"}
             L3 == L2 \cup {"control_apply", "latent"}
             L4 == L3 \cup {"positive_prompt", "negative_prompt", "control_loader", "canny"}
             L5 == L4 \cup {"source_image"}
  <1>1. DOMAIN t.optional = {}
    BY DEF ControlNet
  <1>2. Covered(t, D) /\ Substituted(t)
    BY <1>1, ReplacedCovers DEF Replaced, Substituted
  <1>3. \A w \in t.writes : w[2] \in L5
    BY DEF t, ControlNet, TextWrites
  <1>4. \A r, i, n : Link(t, r, i, n) => Leads(t, D, r, n)
    BY <1>1, LinkLeads
  <1> HIDE DEF t
  <1>5. Layer(t, D, {"save"}, L1)
    BY <1>4, ControlNetLinks DEF Layer, t
  <1>6. Layer(t, D, L1, L2)
    BY <1>4, ControlNetLinks DEF Layer, t
  <1>7. Layer(t, D, L2, L3)
    BY <1>4, ControlNetLinks DEF Layer, t
  <1>8. Layer(t, D, L3, L4)
    BY <1>4, ControlNetLinks DEF Layer, t
  <1>9. Layer(t, D, L4, L5)
    BY <1>4, ControlNetLinks DEF Layer, t
  <1>10. Layer(t, D, L5, L5)
    BY DEF Layer
  <1>11. L5 \subseteq Needed(Rewired(t, D))
    <2> HIDE DEF L1, L2, L3, L4, L5
    <2> QED BY <1>5, <1>6, <1>7, <1>8, <1>9, <1>10, LayersNeeded
  <1> QED BY <1>2, <1>3, <1>11 DEF Reaching, t

LEMMA UpscaleLinks ==
  /\ Link(Upscale, "save", "images", "upscale")
  /\ Link(Upscale, "upscale", "upscale_model", "upscale_loader")
  /\ Link(Upscale, "upscale", "image", "source_image")
  BY DEF Link, Upscale, Save

LEMMA UpscaleCut ==
  ASSUME NEW D, D \subseteq DOMAIN Upscale.optional, Nothing \notin RolesOf(Upscale)
  PROVE  Covered(Upscale, D) /\ Substituted(Upscale) /\ Reaching(Upscale, D)
  <1> DEFINE t == Upscale
             L1 == {"save"} \cup {"upscale"}
             L2 == L1 \cup {"upscale_loader", "source_image"}
  <1>1. DOMAIN t.optional = {}
    BY DEF Upscale
  <1>2. Covered(t, D) /\ Substituted(t)
    BY <1>1, ReplacedCovers DEF Replaced, Substituted
  <1>3. \A w \in t.writes : w[2] \in L2
    BY DEF t, Upscale
  <1>4. \A r, i, n : Link(t, r, i, n) => Leads(t, D, r, n)
    BY <1>1, LinkLeads
  <1> HIDE DEF t
  <1>5. Layer(t, D, {"save"}, L1)
    BY <1>4, UpscaleLinks DEF Layer, t
  <1>6. Layer(t, D, L1, L2)
    BY <1>4, UpscaleLinks DEF Layer, t
  <1>7. Layer(t, D, L2, L2)
    BY DEF Layer
  <1>8. L2 \subseteq Needed(Rewired(t, D))
    <2> HIDE DEF L1, L2
    <2> QED BY <1>5, <1>6, <1>7, LayersNeeded
  <1> QED BY <1>2, <1>3, <1>8 DEF Reaching, t

LEMMA BgmLinks ==
  /\ Link(Bgm, "save", "audio", "decode")
  /\ Link(Bgm, "decode", "samples", "ksampler")
  /\ Link(Bgm, "decode", "vae", "checkpoint")
  /\ Link(Bgm, "ksampler", "positive", "positive_tags")
  /\ Link(Bgm, "ksampler", "negative", "negative_tags")
  /\ Link(Bgm, "ksampler", "latent_image", "latent")
  BY DEF Link, Bgm, Decode

LEMMA BgmCut ==
  ASSUME NEW D, D \subseteq DOMAIN Bgm.optional, Nothing \notin RolesOf(Bgm)
  PROVE  Covered(Bgm, D) /\ Substituted(Bgm) /\ Reaching(Bgm, D)
  <1> DEFINE t == Bgm
             L1 == {"save"} \cup {"decode"}
             L2 == L1 \cup {"ksampler", "checkpoint"}
             L3 == L2 \cup {"positive_tags", "negative_tags", "latent"}
  <1>1. DOMAIN t.optional = {}
    BY DEF Bgm
  <1>2. Covered(t, D) /\ Substituted(t)
    BY <1>1, ReplacedCovers DEF Replaced, Substituted
  <1>3. \A w \in t.writes : w[2] \in L3
    BY DEF t, Bgm
  <1>4. \A r, i, n : Link(t, r, i, n) => Leads(t, D, r, n)
    BY <1>1, LinkLeads
  <1> HIDE DEF t
  <1>5. Layer(t, D, {"save"}, L1)
    BY <1>4, BgmLinks DEF Layer, t
  <1>6. Layer(t, D, L1, L2)
    BY <1>4, BgmLinks DEF Layer, t
  <1>7. Layer(t, D, L2, L3)
    BY <1>4, BgmLinks DEF Layer, t
  <1>8. Layer(t, D, L3, L3)
    BY DEF Layer
  <1>9. L3 \subseteq Needed(Rewired(t, D))
    <2> HIDE DEF L1, L2, L3
    <2> QED BY <1>5, <1>6, <1>7, <1>8, LayersNeeded
  <1> QED BY <1>2, <1>3, <1>9 DEF Reaching, t

LEMMA SlotNames ==
  /\ \A i \in 1 .. 9 : Slots[i] \in {"reference_0", "reference_1", "reference_2", "reference_3", "reference_4",
                                     "reference_5", "reference_6", "reference_7", "reference_8"}
  /\ \A i, j \in 1 .. 9 : Slots[i] = Slots[j] => i = j
  /\ Len(Slots) = 9
  BY DEF Slots

\* A video: the nodes after h3, whose inputs for images are those of frames.
LEMMA H3Links ==
  ASSUME NEW t, NEW frames, t.inputs = H3Inputs(frames)
  PROVE  /\ Link(t, "save", "video", "create_video")
         /\ Link(t, "create_video", "images", "video_decode")
         /\ Link(t, "create_video", "audio", "audio_decode")
         /\ Link(t, "video_decode", "samples", "sampling")
         /\ Link(t, "video_decode", "vae", "video_vae")
         /\ Link(t, "audio_decode", "samples", "sampling")
         /\ Link(t, "audio_decode", "vae", "audio_vae")
         /\ Link(t, "sampling", "noise", "noise")
         /\ Link(t, "sampling", "guider", "guider")
         /\ Link(t, "sampling", "sampler", "sampler")
         /\ Link(t, "sampling", "sigmas", "scheduler")
         /\ Link(t, "sampling", "latent_image", "h3")
         /\ Link(t, "scheduler", "model", "unet_loader")
         /\ Link(t, "guider", "conditioning", "add_guide")
         /\ Link(t, "add_guide", "audio_vae", "audio_vae")
         /\ Link(t, "add_guide", "audio", "guide_audio")
         /\ Link(t, "h3", "clip", "clip_loader")
  BY DEF Link, H3Inputs, Decode, Over

H3Core ==
  {"save", "create_video", "video_decode", "sampling", "video_vae", "noise", "guider", "sampler", "scheduler", "h3",
   "unet_loader", "clip_loader"}

LEMMA H3Needed ==
  ASSUME NEW t, NEW frames, t.inputs = H3Inputs(frames), Nothing \notin RolesOf(t), NEW D, D \cap H3Core = {},
         "guide_audio" \in D <=> "add_guide" \in D, "add_guide" \in DOMAIN t.optional, t.optional["add_guide"] = "h3",
         "audio_vae" \notin D,
         NEW X, \A x \in X : Leads(t, D, "h3", x)
  PROVE  /\ H3Core \cup X \subseteq Needed(Rewired(t, D))
         /\ "add_guide" \notin D => {"add_guide", "guide_audio", "audio_vae"} \subseteq Needed(Rewired(t, D))
         /\ "audio_decode" \notin D => {"audio_decode", "audio_vae"} \subseteq Needed(Rewired(t, D))
  <1> DEFINE L1 == {"save"} \cup {"create_video"}
             L2 == L1 \cup {"video_decode"} \cup (IF "audio_decode" \in D THEN {} ELSE {"audio_decode"})
             L3 == L2 \cup {"sampling", "video_vae"} \cup (IF "audio_decode" \in D THEN {} ELSE {"audio_vae"})
             L4 == L3 \cup {"noise", "guider", "sampler", "scheduler", "h3"}
             L5 == L4 \cup {"unet_loader", "clip_loader"} \cup X
                      \cup (IF "add_guide" \in D THEN {} ELSE {"add_guide"})
             L6 == L5 \cup (IF "add_guide" \in D THEN {} ELSE {"guide_audio", "audio_vae"})
  <1>1. \A r, i, n : Link(t, r, i, n) /\ r \notin D /\ n \notin D => Leads(t, D, r, n)
    BY LinkLeads
  <1>2. \A x \in H3Core : x \notin D
    OBVIOUS
  <1>3. Layer(t, D, {"save"}, L1)
    BY <1>1, <1>2, H3Links DEF Layer, H3Core
  <1>4. Layer(t, D, L1, L2)
    BY <1>1, <1>2, H3Links DEF Layer, H3Core
  <1>5. Layer(t, D, L2, L3)
    BY <1>1, <1>2, H3Links DEF Layer, H3Core
  <1>6. Layer(t, D, L3, L4)
    BY <1>1, <1>2, H3Links DEF Layer, H3Core
  <1>7. Layer(t, D, L4, L5)
    BY <1>1, <1>2, H3Links DEF Layer, H3Core
  <1>8. Layer(t, D, L5, L6)
    BY <1>1, <1>2, H3Links DEF Layer, H3Core
  <1>9. Layer(t, D, L6, L6)
    BY DEF Layer
  <1>10. L6 \subseteq Needed(Rewired(t, D))
    <2> HIDE DEF L1, L2, L3, L4, L5, L6
    <2> QED BY <1>3, <1>4, <1>5, <1>6, <1>7, <1>8, <1>9, LayersNeeded
  <1> QED BY <1>10 DEF H3Core

LEMMA H3Covered ==
  ASSUME NEW t, NEW frames, t.inputs = H3Inputs(frames), Nothing \notin RolesOf(t), NEW D,
         "guide_audio" \in D <=> "add_guide" \in D, "add_guide" \in DOMAIN t.optional, t.optional["add_guide"] = "h3",
         "h3" \notin D, D \cap (H3Core \cup {"audio_vae"}) = {},
         \A i \in DOMAIN H3Inputs(frames).h3 : H3Inputs(frames).h3[i] \notin D \/ <<"h3", i>> \in Dispensable
  PROVE  Covered(t, D)
  <1> SUFFICES ASSUME NEW r \in DOMAIN t.inputs \ D, NEW i \in DOMAIN t.inputs[r], t.inputs[r][i] \in D
               PROVE  <<r, i>> \in Dispensable \/ Through(t, D, t.inputs[r][i]) # Nothing
    <2> SUFFICES ASSUME NEW r \in DOMAIN t.inputs \ D, NEW i \in DOMAIN t.inputs[r], t.inputs[r][i] \notin D
                 PROVE  Through(t, D, t.inputs[r][i]) # Nothing
      BY DEF Covered
    <2>1. t.inputs[r][i] \in RolesOf(t)
      BY LinkRole DEF Link
    <2> QED BY <2>1 DEF Through
  <1>1. CASE r = "h3"
    BY <1>1
  <1>2. CASE r # "h3"
    <2>1. \/ t.inputs[r][i] = "add_guide"
          \/ t.inputs[r][i] = "guide_audio" /\ r = "add_guide"
          \/ t.inputs[r][i] = "audio_decode" /\ r = "create_video" /\ i = "audio"
      BY <1>2 DEF H3Inputs, Decode, H3Core
    <2>2. <<"create_video", "audio">> \in Dispensable
      BY DEF Dispensable
    <2>3. "h3" \in RolesOf(t)
      BY H3Links, LinkRole
    <2> QED BY <2>1, <2>2, <2>3 DEF Through, Droppable
  <1> QED BY <1>1, <1>2

LEMMA I2VCut ==
  ASSUME NEW D, D \subseteq DOMAIN I2V.optional, Nothing \notin RolesOf(I2V),
         "guide_audio" \in D <=> "add_guide" \in D
  PROVE  Covered(I2V, D) /\ Substituted(I2V) /\ Reaching(I2V, D)
  <1> DEFINE t == I2V
             frames == [first_frame |-> "first_frame"]
  <1>1. t.inputs = H3Inputs(frames)
    BY DEF I2V
  <1>2. /\ DOMAIN t.optional = {"add_guide", "guide_audio", "audio_decode"}
        /\ t.optional["add_guide"] = "h3" /\ t.optional["guide_audio"] = Nothing
        /\ t.optional["audio_decode"] = Nothing
    BY DEF I2V, H3Optional
  <1>3. D \cap (H3Core \cup {"audio_vae"}) = {} /\ "first_frame" \notin D
    BY <1>2 DEF H3Core
  <1>4. Substituted(t)
    <2>1. "h3" \in RolesOf(t)
      BY <1>1, H3Links, LinkRole
    <2> QED BY <1>2, <2>1 DEF Substituted
  <1>5. H3Inputs(frames).h3 = Over([clip |-> "clip_loader", vae |-> "video_vae"], frames)
    BY DEF H3Inputs
  <1>6. Covered(t, D)
    <2>1. \A i \in DOMAIN H3Inputs(frames).h3 : H3Inputs(frames).h3[i] \in {"clip_loader", "video_vae", "first_frame"}
      BY <1>5 DEF Over
    <2> QED BY <1>1, <1>2, <1>3, <2>1, H3Covered DEF H3Core
  <1>7. Leads(t, D, "h3", "first_frame")
    <2>1. Link(t, "h3", "first_frame", "first_frame")
      BY <1>1, <1>5 DEF Link, Over, H3Inputs
    <2> QED BY <1>3, <2>1, LinkLeads DEF H3Core
  <1>8. \A w \in t.writes : w[2] \in H3Core \cup {"first_frame", "add_guide", "guide_audio"}
                             \/ w = <<"audio_vae_name", "audio_vae">>
    BY DEF I2V, H3Writes, H3Core
  <1> HIDE DEF t, frames
  <1>9. /\ H3Core \cup {"first_frame"} \subseteq Needed(Rewired(t, D))
        /\ "add_guide" \notin D => {"add_guide", "guide_audio", "audio_vae"} \subseteq Needed(Rewired(t, D))
        /\ "audio_decode" \notin D => {"audio_decode", "audio_vae"} \subseteq Needed(Rewired(t, D))
    <2> DEFINE X == {"first_frame"}
    <2>1. \A x \in X : Leads(t, D, "h3", x)
      BY <1>7
    <2> HIDE DEF X
    <2>2. H3Core \cup X \subseteq Needed(Rewired(t, D))
      BY <1>1, <1>2, <1>3, <2>1, H3Needed DEF t
    <2>3. /\ "add_guide" \notin D => {"add_guide", "guide_audio", "audio_vae"} \subseteq Needed(Rewired(t, D))
          /\ "audio_decode" \notin D => {"audio_decode", "audio_vae"} \subseteq Needed(Rewired(t, D))
      BY <1>1, <1>2, <1>3, <2>1, H3Needed DEF t
    <2> QED BY <2>2, <2>3 DEF X
  <1>10. Reaching(t, D)
    BY <1>8, <1>9 DEF Reaching
  <1> QED BY <1>4, <1>6, <1>10 DEF t

LEMMA ReferenceNames ==
  /\ \A s \in References : s \in {"reference_0", "reference_1", "reference_2", "reference_3", "reference_4",
                                  "reference_5", "reference_6", "reference_7", "reference_8"}
  /\ Slots[1] \in References
  <1>1. 1 .. MaxReferences \subseteq 1 .. 9 /\ 1 \in 1 .. MaxReferences
    BY SlotNames, PreparationAssumption
  <1> QED BY <1>1, SlotNames DEF References

LEMMA Ref2VCut ==
  ASSUME NEW D, D \subseteq DOMAIN Ref2V.optional, Nothing \notin RolesOf(Ref2V),
         "guide_audio" \in D <=> "add_guide" \in D
  PROVE  Covered(Ref2V, D) /\ Substituted(Ref2V) /\ Reaching(Ref2V, D)
  <1> DEFINE t == Ref2V
             slots == [s \in References |-> s]
             frames == Over([audio_vae |-> "audio_vae"], slots)
  <1>1. t.inputs = H3Inputs(frames)
    BY DEF Ref2V
  <1>2. /\ DOMAIN t.optional = {"add_guide", "guide_audio", "audio_decode"} \cup (References \ {Slots[1]})
        /\ t.optional["add_guide"] = "h3" /\ t.optional["guide_audio"] = Nothing
        /\ t.optional["audio_decode"] = Nothing
        /\ \A s \in References \ {Slots[1]} : t.optional[s] = Nothing
    BY ReferenceNames DEF Ref2V, H3Optional, Over
  <1>3. D \cap (H3Core \cup {"audio_vae"}) = {} /\ Slots[1] \notin D
    BY <1>2, ReferenceNames DEF H3Core
  <1>4. Substituted(t)
    <2>1. "h3" \in RolesOf(t)
      BY <1>1, H3Links, LinkRole
    <2> QED BY <1>2, <2>1 DEF Substituted
  <1>5. /\ DOMAIN frames = {"audio_vae"} \cup References
        /\ frames["audio_vae"] = "audio_vae" /\ \A s \in References : frames[s] = s
    BY ReferenceNames DEF Over
  <1> HIDE DEF frames
  <1>6. /\ DOMAIN H3Inputs(frames).h3 = {"clip", "vae", "audio_vae"} \cup References
        /\ H3Inputs(frames).h3["clip"] = "clip_loader" /\ H3Inputs(frames).h3["vae"] = "video_vae"
        /\ H3Inputs(frames).h3["audio_vae"] = "audio_vae"
        /\ \A s \in References : H3Inputs(frames).h3[s] = s
    BY <1>5, ReferenceNames DEF H3Inputs, Over
  <1>7. Covered(t, D)
    <2>1. \A i \in DOMAIN H3Inputs(frames).h3 :
            H3Inputs(frames).h3[i] \notin D \/ <<"h3", i>> \in Dispensable
      BY <1>3, <1>6 DEF Dispensable, H3Core
    <2> QED BY <1>1, <1>2, <1>3, <2>1, H3Covered DEF H3Core
  <1>8. Leads(t, D, "h3", "audio_vae") /\ \A s \in References \ D : Leads(t, D, "h3", s)
    <2>1. /\ Link(t, "h3", "audio_vae", "audio_vae")
          /\ \A s \in References : Link(t, "h3", s, s)
      BY <1>1, <1>6 DEF Link, H3Inputs
    <2> QED BY <1>3, <2>1, LinkLeads DEF H3Core
  <1>9. \A w \in t.writes : w[2] \in H3Core \cup {"audio_vae", "add_guide", "guide_audio"} \cup References
    BY DEF Ref2V, H3Writes, H3Core
  <1> HIDE DEF t
  <1>10. /\ H3Core \cup {"audio_vae"} \cup (References \ D) \subseteq Needed(Rewired(t, D))
         /\ "add_guide" \notin D => {"add_guide", "guide_audio", "audio_vae"} \subseteq Needed(Rewired(t, D))
    <2> DEFINE X == {"audio_vae"} \cup (References \ D)
    <2>1. \A x \in X : Leads(t, D, "h3", x)
      BY <1>8
    <2> HIDE DEF X
    <2>2. H3Core \cup X \subseteq Needed(Rewired(t, D))
      BY <1>1, <1>2, <1>3, <2>1, H3Needed DEF t
    <2>3. "add_guide" \notin D => {"add_guide", "guide_audio", "audio_vae"} \subseteq Needed(Rewired(t, D))
      BY <1>1, <1>2, <1>3, <2>1, H3Needed DEF t
    <2> QED BY <2>2, <2>3 DEF X
  <1>11. Reaching(t, D)
    BY <1>9, <1>10 DEF Reaching
  <1> QED BY <1>4, <1>7, <1>11 DEF t

-----------------------------------------------------------------------------
(* Requests: the nodes they leave out and the files they ask for.          *)

LEMMA TemplateNames ==
  /\ DOMAIN Templates = {"anima_txt2img", "anima_img2img", "anima_inpaint", "anima_ref_siglip",
                         "anima_ref_incontext", "sd15_controlnet", "image_upscale", "minimax_h3_ref2v",
                         "minimax_h3_i2v", "ace_step_bgm"}
  /\ Templates["anima_txt2img"] = Txt2Img /\ Templates["anima_img2img"] = Img2Img
  /\ Templates["anima_inpaint"] = Inpaint /\ Templates["anima_ref_siglip"] = Siglip
  /\ Templates["anima_ref_incontext"] = InContext /\ Templates["sd15_controlnet"] = ControlNet
  /\ Templates["image_upscale"] = Upscale /\ Templates["minimax_h3_ref2v"] = Ref2V
  /\ Templates["minimax_h3_i2v"] = I2V /\ Templates["ace_step_bgm"] = Bgm
  BY DEF Templates

\* What the cut of a template is good for.
Fit(t, D) == Covered(t, D) /\ Substituted(t) /\ Reaching(t, D) /\ D \subseteq Droppable(t)

LEMMA ReferenceCount ==
  ASSUME wanted \in Submissions, Complete, wanted.template = "minimax_h3_ref2v"
  PROVE  Asked["references"] \in Seq(Sources) /\ Len(Asked["references"]) \in 1 .. MaxReferences
  <1>1. Given("references") /\ Len(Asked["references"]) \in 1 .. MaxReferences
    BY DEF Complete, VideoTemplates, VideoSound
  <1>2. Asked["references"] \in Seq(Sources)
    BY <1>1, SubmissionsAssumption DEF Given, Asked, Over
  <1> QED BY <1>1, <1>2

LEMMA DropsFit ==
  ASSUME wanted \in Submissions, Complete
  PROVE  Fit(Template, Drops) /\ ("audio_decode" \in Drops => Mode = "silent")
  <1>0. wanted.template \in DOMAIN Templates /\ Nothing \notin RolesOf(Template)
    BY SubmissionsAssumption, RolesAssumption DEF Template
  <1>1. CASE wanted.template = "anima_txt2img"
    <2>1. Template = Txt2Img
      BY <1>1, TemplateNames DEF Template
    <2>2. Drops = (IF LoraOn THEN {} ELSE {"lora_loader"})
                    \cup (IF ~HiresOn THEN {"hires_upscale", "hires_ksampler"} ELSE {})
      BY <1>1 DEF Drops, VideoTemplates, LoraTemplates
    <2>3. Drops \subseteq DOMAIN Txt2Img.optional
      BY <2>2 DEF Txt2Img
    <2> QED BY <1>0, <2>1, <2>2, <2>3, Txt2ImgCut DEF Fit, Droppable
  <1>2. CASE wanted.template \in {"anima_img2img", "anima_ref_siglip"}
    <2>1. Drops = IF LoraOn THEN {} ELSE {"lora_loader"}
      BY <1>2 DEF Drops, VideoTemplates, LoraTemplates
    <2>2. Template = Img2Img \/ Template = Siglip
      BY <1>2, TemplateNames DEF Template
    <2>3. Drops \subseteq DOMAIN Img2Img.optional
      BY <2>1 DEF Img2Img
    <2>4. Drops \subseteq DOMAIN Siglip.optional
      BY <2>1 DEF Siglip
    <2>5. CASE Template = Img2Img
      BY <1>0, <2>1, <2>3, <2>5, Img2ImgCut DEF Fit, Droppable
    <2>6. CASE Template = Siglip
      BY <1>0, <2>1, <2>4, <2>6, SiglipCut DEF Fit, Droppable
    <2> QED BY <2>2, <2>5, <2>6
  <1>3. CASE wanted.template \in {"anima_inpaint", "anima_ref_incontext", "sd15_controlnet", "image_upscale",
                                  "ace_step_bgm"}
    <2>1. Drops = {}
      BY <1>3 DEF Drops, VideoTemplates, LoraTemplates
    <2>2. Template \in {Inpaint, InContext, ControlNet, Upscale, Bgm}
      BY <1>3, TemplateNames DEF Template
    <2>3. CASE Template = Inpaint
      BY <1>0, <2>1, <2>3, InpaintCut DEF Fit
    <2>4. CASE Template = InContext
      BY <1>0, <2>1, <2>4, InContextCut DEF Fit
    <2>5. CASE Template = ControlNet
      BY <1>0, <2>1, <2>5, ControlNetCut DEF Fit
    <2>6. CASE Template = Upscale
      BY <1>0, <2>1, <2>6, UpscaleCut DEF Fit
    <2>7. CASE Template = Bgm
      BY <1>0, <2>1, <2>7, BgmCut DEF Fit
    <2> QED BY <2>2, <2>3, <2>4, <2>5, <2>6, <2>7
  <1>4. CASE wanted.template = "minimax_h3_ref2v"
    <2>1. Template = Ref2V
      BY <1>4, TemplateNames DEF Template
    <2> DEFINE n == Len(Asked["references"])
               unused == {Slots[i] : i \in (n + 1) .. MaxReferences}
    <2>2. Drops = unused \cup (IF Mode = "external_voice" THEN {} ELSE {"guide_audio", "add_guide"})
                    \cup (IF Mode = "silent" THEN {"audio_decode"} ELSE {})
      <3>1. wanted.template \in VideoTemplates /\ wanted.template \notin LoraTemplates
        BY <1>4 DEF VideoTemplates, LoraTemplates
      <3>2. Drops = (IF wanted.template = "minimax_h3_ref2v" THEN unused ELSE {})
                      \cup (IF Mode = "external_voice" THEN {} ELSE {"guide_audio", "add_guide"})
                      \cup (IF Mode = "silent" THEN {"audio_decode"} ELSE {})
        BY <3>1 DEF Drops
      <3> QED BY <1>4, <3>2
    <2>3. unused \subseteq References \ {Slots[1]}
      <3>1. n \in 1 .. MaxReferences /\ MaxReferences \in 1 .. 9
        BY <1>4, ReferenceCount, SlotNames, PreparationAssumption
      <3> HIDE DEF n
      <3>2. \A i \in (n + 1) .. MaxReferences : i \in 1 .. MaxReferences /\ i \in 1 .. 9 /\ i # 1
        BY <3>1
      <3> QED BY <3>2, SlotNames DEF References
    <2> HIDE DEF unused
    <2>4. DOMAIN Ref2V.optional = {"add_guide", "guide_audio", "audio_decode"} \cup (References \ {Slots[1]})
      BY DEF Ref2V, H3Optional, Over
    <2>5. "audio_decode" \notin unused /\ "guide_audio" \notin unused /\ "add_guide" \notin unused
      BY <2>3, ReferenceNames
    <2>6. Drops \subseteq DOMAIN Ref2V.optional
      BY <2>2, <2>3, <2>4
    <2> QED BY <1>0, <2>1, <2>2, <2>5, <2>6, Ref2VCut DEF Fit, Droppable
  <1>5. CASE wanted.template = "minimax_h3_i2v"
    <2>1. Template = I2V
      BY <1>5, TemplateNames DEF Template
    <2>2. Drops = (IF Mode = "external_voice" THEN {} ELSE {"guide_audio", "add_guide"})
                    \cup (IF Mode = "silent" THEN {"audio_decode"} ELSE {})
      <3> DEFINE unused == {Slots[i] : i \in (Len(Asked["references"]) + 1) .. MaxReferences}
      <3>1. wanted.template \in VideoTemplates /\ wanted.template \notin LoraTemplates
        BY <1>5 DEF VideoTemplates, LoraTemplates
      <3>2. Drops = (IF wanted.template = "minimax_h3_ref2v" THEN unused ELSE {})
                      \cup (IF Mode = "external_voice" THEN {} ELSE {"guide_audio", "add_guide"})
                      \cup (IF Mode = "silent" THEN {"audio_decode"} ELSE {})
        BY <3>1 DEF Drops
      <3> HIDE DEF unused
      <3> QED BY <1>5, <3>2
    <2>3. Drops \subseteq DOMAIN I2V.optional
      BY <2>2 DEF I2V, H3Optional
    <2> QED BY <1>0, <2>1, <2>2, <2>3, I2VCut DEF Fit, Droppable
  <1> QED BY <1>0, <1>1, <1>2, <1>3, <1>4, <1>5, TemplateNames

FileVariables == References \cup {"first_frame", "guide_audio", "source_image", "mask_image"}

\* The files a request asks for, one for each input for a file that is left.
FilesAnswer ==
  /\ Len(Files) \in Nat /\ DOMAIN Files = 1 .. Len(Files)
  /\ \A i \in 1 .. Len(Files) : Files[i][1] \in FileVariables
  /\ \A i, j \in 1 .. Len(Files) : Files[i][1] = Files[j][1] => i = j
  /\ \A w \in Template.writes :
       w[1] \in Template.uploads /\ w[2] \notin Drops => \E i \in 1 .. Len(Files) : Files[i][1] = w[1]

LEMMA ImageFilesFit ==
  ASSUME wanted \in Submissions, wanted.template \notin VideoTemplates
  PROVE  /\ ImageFiles \in {<<>>, <<"source_image">>, <<"source_image", "mask_image">>}
         /\ \A v \in Template.uploads : \E i \in 1 .. Len(ImageFiles) : ImageFiles[i] = v
  <1>1. wanted.template \in DOMAIN Templates
    BY SubmissionsAssumption
  <1>2. Template \in {Txt2Img, Img2Img, Inpaint, Siglip, InContext, ControlNet, Upscale, Bgm}
    BY <1>1, TemplateNames DEF Template, VideoTemplates
  <1>3. Template.uploads \in {{}, {"source_image"}, {"source_image", "mask_image"}}
    <2>1. /\ Txt2Img.uploads = {} /\ Img2Img.uploads = {"source_image"}
          /\ Inpaint.uploads = {"source_image", "mask_image"} /\ Siglip.uploads = {"source_image"}
          /\ InContext.uploads = {"source_image"} /\ ControlNet.uploads = {"source_image"}
          /\ Upscale.uploads = {"source_image"} /\ Bgm.uploads = {}
      BY DEF Txt2Img, Img2Img, Inpaint, Siglip, InContext, ControlNet, Upscale, Bgm
    <2> QED BY <1>2, <2>1
  <1>4. CASE Template.uploads = {}
    <2>1. ImageFiles = <<>>
      BY <1>4 DEF ImageFiles
    <2> QED BY <1>4, <2>1
  <1>5. CASE Template.uploads = {"source_image"}
    <2>1. ImageFiles = <<"source_image">>
      BY <1>5 DEF ImageFiles
    <2> QED BY <1>5, <2>1
  <1>6. CASE Template.uploads = {"source_image", "mask_image"}
    <2>1. ImageFiles = <<"source_image", "mask_image">>
      BY <1>6 DEF ImageFiles
    <2> QED BY <1>6, <2>1
  <1> QED BY <1>3, <1>4, <1>5, <1>6

LEMMA ImageAnswer ==
  ASSUME wanted \in Submissions, Complete, wanted.template \notin VideoTemplates
  PROVE  FilesAnswer
  <1> DEFINE names == ImageFiles
  <1>1. Files = [i \in 1 .. Len(names) |-> <<names[i], Asked[names[i]]>>]
    BY DEF Files
  <1>2. /\ names \in {<<>>, <<"source_image">>, <<"source_image", "mask_image">>}
        /\ \A v \in Template.uploads : \E i \in 1 .. Len(names) : names[i] = v
    BY ImageFilesFit
  <1>3. Len(names) \in Nat
    BY <1>2
  <1> HIDE DEF names
  <1>4. Len(Files) = Len(names) /\ DOMAIN Files = 1 .. Len(Files)
    BY <1>1, <1>3
  <1>5. \A i \in 1 .. Len(Files) : Files[i][1] = names[i]
    BY <1>1, <1>4
  <1>6. \A i \in 1 .. Len(names) : names[i] \in FileVariables
    BY <1>2 DEF FileVariables
  <1>7. \A i, j \in 1 .. Len(names) : names[i] = names[j] => i = j
    BY <1>2
  <1> QED BY <1>2, <1>3, <1>4, <1>5, <1>6, <1>7 DEF FilesAnswer

LEMMA FramesFit ==
  ASSUME wanted \in Submissions, Complete, wanted.template \in VideoTemplates
  PROVE  /\ FrameFiles = [i \in 1 .. Len(FrameFiles) |-> FrameFiles[i]] /\ Len(FrameFiles) \in Nat
         /\ \A i \in 1 .. Len(FrameFiles) : FrameFiles[i][1] \in FileVariables \ {"guide_audio"}
         /\ \A i, j \in 1 .. Len(FrameFiles) : FrameFiles[i][1] = FrameFiles[j][1] => i = j
         /\ \A w \in Template.writes :
              w[1] \in Template.uploads \ {"guide_audio"} /\ w[2] \notin Drops
                => \E i \in 1 .. Len(FrameFiles) : FrameFiles[i][1] = w[1]
  <1>1. CASE wanted.template = "minimax_h3_i2v"
    <2>1. FrameFiles = << <<"first_frame", Asked["first_frame"]>> >>
      BY <1>1 DEF FrameFiles
    <2>2. Template = I2V
      BY <1>1, TemplateNames DEF Template
    <2>3. Template.uploads = {"guide_audio", "first_frame"}
      BY <2>2 DEF I2V
    <2>4. Len(FrameFiles) = 1 /\ FrameFiles[1][1] = "first_frame" /\ FrameFiles = [i \in 1 .. 1 |-> FrameFiles[i]]
      BY <2>1
    <2> QED BY <2>3, <2>4 DEF FileVariables
  <1>2. CASE wanted.template # "minimax_h3_i2v"
    <2>0. wanted.template = "minimax_h3_ref2v"
      BY <1>2 DEF VideoTemplates
    <2> DEFINE refs == Asked["references"]
               n == Len(refs)
    <2>1. FrameFiles = [i \in 1 .. n |-> <<Slots[i], refs[i]>>]
      BY <1>2 DEF FrameFiles
    <2>2. n \in 1 .. MaxReferences /\ MaxReferences \in 1 .. 9
      BY <2>0, ReferenceCount, SlotNames, PreparationAssumption
    <2> HIDE DEF n, refs
    <2>3. Len(FrameFiles) = n /\ \A i \in 1 .. n : FrameFiles[i][1] = Slots[i]
      BY <2>1, <2>2
    <2>4. \A i \in 1 .. n : i \in 1 .. MaxReferences /\ i \in 1 .. 9
      BY <2>2
    <2>5. \A i \in 1 .. n : Slots[i] \in FileVariables \ {"guide_audio"}
      BY <2>4, SlotNames DEF FileVariables, References
    <2>6. Template = Ref2V
      BY <2>0, TemplateNames DEF Template
    <2>7. ASSUME NEW w \in Template.writes, w[1] \in Template.uploads \ {"guide_audio"}, w[2] \notin Drops
          PROVE  \E i \in 1 .. n : Slots[i] = w[1]
      <3>1. w[1] \in References
        BY <2>6, <2>7 DEF Ref2V
      <3>2. w = <<w[1], w[1]>>
        BY <2>6, <2>7, <3>1, ReferenceNames DEF Ref2V, H3Writes
      <3>3. PICK i \in 1 .. MaxReferences : Slots[i] = w[1]
        BY <3>1 DEF References
      <3>4. CASE i \in 1 .. n
        BY <3>3, <3>4
      <3>5. CASE i \notin 1 .. n
        <4>1. i \in (n + 1) .. MaxReferences
          BY <2>2, <3>5
        <4>2. Slots[i] \in Drops
          <5>1. wanted.template \in VideoTemplates /\ wanted.template \notin LoraTemplates
            BY <2>0 DEF VideoTemplates, LoraTemplates
          <5>2. {Slots[k] : k \in (n + 1) .. MaxReferences} \subseteq Drops
            BY <2>0, <5>1 DEF Drops, n, refs
          <5> QED BY <4>1, <5>2
        <4> QED BY <2>7, <3>2, <3>3, <4>2
      <3> QED BY <3>4, <3>5
    <2>8. FrameFiles = [i \in 1 .. Len(FrameFiles) |-> FrameFiles[i]] /\ Len(FrameFiles) \in Nat
      BY <2>1, <2>2, <2>3
    <2>9. \A i, j \in 1 .. n : Slots[i] = Slots[j] => i = j
      BY <2>4, SlotNames
    <2> QED BY <2>3, <2>5, <2>7, <2>8, <2>9
  <1> QED BY <1>1, <1>2

LEMMA VideoAnswer ==
  ASSUME wanted \in Submissions, Complete, wanted.template \in VideoTemplates
  PROVE  FilesAnswer
  <1> DEFINE n == Len(FrameFiles)
  <1>1. Files = IF Mode = "external_voice" THEN Append(FrameFiles, <<"guide_audio", Asked["guide_audio"]>>) ELSE FrameFiles
    BY DEF Files, VideoFiles
  <1>2. /\ FrameFiles = [i \in 1 .. n |-> FrameFiles[i]] /\ n \in Nat
        /\ \A i \in 1 .. n : FrameFiles[i][1] \in FileVariables \ {"guide_audio"}
        /\ \A i, j \in 1 .. n : FrameFiles[i][1] = FrameFiles[j][1] => i = j
        /\ \A w \in Template.writes :
             w[1] \in Template.uploads \ {"guide_audio"} /\ w[2] \notin Drops
               => \E i \in 1 .. n : FrameFiles[i][1] = w[1]
    BY FramesFit
  <1>3. FrameFiles \in Seq({FrameFiles[i] : i \in 1 .. n})
    <2> HIDE DEF n
    <2> QED BY <1>2
  <1> HIDE DEF n
  <1>4. CASE Mode = "external_voice"
    <2>1. /\ Len(Files) = n + 1 /\ DOMAIN Files = 1 .. n + 1 /\ Files[n + 1] = <<"guide_audio", Asked["guide_audio"]>>
          /\ \A i \in 1 .. n : Files[i] = FrameFiles[i]
      <3> DEFINE e == <<"guide_audio", Asked["guide_audio"]>>
                 S == {FrameFiles[i] : i \in 1 .. n} \cup {e}
      <3>1. FrameFiles \in Seq(S) /\ e \in S
        BY <1>2
      <3>2. Files = Append(FrameFiles, e) /\ Len(FrameFiles) = n
        BY <1>1, <1>4 DEF n
      <3> HIDE DEF S, e
      <3>3. Len(Files) = n + 1 /\ DOMAIN Files = 1 .. n + 1 /\ Files[n + 1] = e
            /\ \A i \in 1 .. n : Files[i] = FrameFiles[i]
        BY <3>1, <3>2, <1>2
      <3> QED BY <3>3 DEF e
    <2>2. \A i \in 1 .. n + 1 : i \in 1 .. n \/ i = n + 1
      BY <1>2
    <2>3. \A i \in 1 .. n + 1 : Files[i][1] \in FileVariables
      BY <1>2, <2>1, <2>2 DEF FileVariables
    <2>4. \A i, j \in 1 .. n + 1 : Files[i][1] = Files[j][1] => i = j
      BY <1>2, <2>1, <2>2
    <2>5. \A w \in Template.writes :
            w[1] \in Template.uploads /\ w[2] \notin Drops => \E i \in 1 .. n + 1 : Files[i][1] = w[1]
      <3>1. n + 1 \in 1 .. n + 1 /\ 1 .. n \subseteq 1 .. n + 1
        BY <1>2
      <3> QED BY <1>2, <2>1, <3>1
    <2>6. n + 1 \in Nat
      BY <1>2
    <2> QED BY <2>1, <2>3, <2>4, <2>5, <2>6 DEF FilesAnswer
  <1>5. CASE Mode # "external_voice"
    <2>1. Files = FrameFiles /\ Len(Files) = n /\ DOMAIN Files = 1 .. n
      BY <1>1, <1>2, <1>5 DEF n
    <2>2. wanted.template \in VideoTemplates /\ wanted.template \notin LoraTemplates
      BY DEF VideoTemplates, LoraTemplates
    <2>3. "guide_audio" \in Drops
      <3>1. {"guide_audio", "add_guide"} \subseteq Drops
        BY <1>5, <2>2 DEF Drops
      <3> QED BY <3>1
    <2>4. \A w \in Template.writes : w[1] = "guide_audio" => w[2] \in Drops
      <3>1. \A w \in Ref2V.writes : w[1] = "guide_audio" => w[2] = "guide_audio"
        BY ReferenceNames DEF Ref2V, H3Writes
      <3>2. \A w \in I2V.writes : w[1] = "guide_audio" => w[2] = "guide_audio"
        BY DEF I2V, H3Writes
      <3>3. Template = Ref2V \/ Template = I2V
        BY TemplateNames DEF Template, VideoTemplates
      <3> QED BY <2>3, <3>1, <3>2, <3>3
    <2>5. \A w \in Template.writes :
            w[1] \in Template.uploads /\ w[2] \notin Drops => \E i \in 1 .. n : Files[i][1] = w[1]
      BY <1>2, <2>1, <2>4
    <2>6. /\ \A i \in 1 .. n : Files[i][1] \in FileVariables
          /\ \A i, j \in 1 .. n : Files[i][1] = Files[j][1] => i = j
      BY <1>2, <2>1
    <2> QED BY <1>2, <2>1, <2>5, <2>6 DEF FilesAnswer
  <1> QED BY <1>4, <1>5

LEMMA FilesFit ==
  ASSUME wanted \in Submissions, Complete
  PROVE  FilesAnswer
  BY ImageAnswer, VideoAnswer

\* What only depends on the request.
LEMMA RequestStays ==
  ASSUME wanted' = wanted
  PROVE  Template' = Template /\ Files' = Files /\ Drops' = Drops /\ (Complete' <=> Complete) /\ Mode' = Mode
  <1>1. Template' = Template
    BY DEF Template
  <1>2. Asked' = Asked
    BY DEF Asked
  <1>3. Mode' = Mode /\ \A n : Given(n)' <=> Given(n)
    BY <1>2 DEF Mode, Given
  <1>4. ImageFiles' = ImageFiles
    BY <1>1 DEF ImageFiles
  <1>5. FrameFiles' = FrameFiles
    BY <1>2 DEF FrameFiles
  <1>6. Files' = Files
    BY <1>2, <1>3, <1>4, <1>5 DEF Files, VideoFiles
  <1>7. LoraOn' = LoraOn /\ HiresOn' = HiresOn
    BY <1>2, <1>3 DEF LoraOn, HiresOn
  <1>8. Drops' = Drops
    BY <1>2, <1>3, <1>7 DEF Drops
  <1>9. Complete' <=> Complete
    BY <1>2, <1>3, <1>4 DEF Complete, VideoSound
  <1> QED BY <1>1, <1>3, <1>6, <1>8, <1>9

-----------------------------------------------------------------------------
(* The inductive invariant.                                                *)

BaseNames == {Base[p] : p \in Places}
FileRecords == [variable : FileVariables, path : Places, content : Sources]

\* A plan is the one of the request, and the files resolved are those it asks for.
PlanInForce ==
  /\ Complete /\ media.drops = Drops
  /\ media.uploads \in Seq(FileRecords) /\ Len(media.uploads) <= Len(Files)
  /\ \A i \in 1 .. Len(media.uploads) :
       /\ media.uploads[i].variable = Files[i][1] /\ media.uploads[i].content = Files[i][2]
       /\ Files[i][1] \in DOMAIN media.values

\* A name leads to the content of the file that was uploaded under it.
NamesLead ==
  /\ named \in Seq(BaseNames \X Nat) /\ Len(named) <= Len(media.uploads)
  /\ \A i \in 1 .. Len(named) :
       /\ named[i][2] \in DOMAIN inputDir[named[i][1]]
       /\ inputDir[named[i][1]][named[i][2]] = media.uploads[i].content

FilesInPlace ==
  /\ where \in [Sources -> Places \cup {Nothing}]
  /\ disk \in [Places -> Sources \cup {Nothing}]
  /\ \A s \in Cached : where[s] = s
  /\ inputDir \in [BaseNames -> Seq(Sources \cup {Foreign})]

PreparationInv ==
  /\ wanted \in Submissions
  /\ FilesInPlace
  /\ \/ step \in {"asked", "refused"} /\ media = NoPlan
     \/ step \in {"refused", "resolving", "queued", "failed", "submitted"} /\ PlanInForce
  /\ ~Prepared => named = <<>>
  /\ Prepared => /\ Resolved /\ NamesLead
                 /\ graph = [inputs |-> Rewired(Template, media.drops), writes |-> Written(Template, media)]
  /\ step = "submitted" => Uploaded

LEMMA InitHolds ==
  ASSUME PreparationInit PROVE PreparationInv
  <1>1. Sources \subseteq Places /\ Cached \subseteq Sources
    BY PreparationAssumption DEF Places
  <1>2. where \in [Sources -> Places \cup {Nothing}] /\ \A s \in Cached : where[s] = s
    BY <1>1 DEF PreparationInit
  <1>3. disk \in [Places -> Sources \cup {Nothing}]
    BY DEF PreparationInit
  <1>4. inputDir \in [BaseNames -> Seq(Sources \cup {Foreign})]
    <2>1. <<Foreign>> \in Seq(Sources \cup {Foreign})
      OBVIOUS
    <2> QED BY <2>1 DEF PreparationInit, BaseNames
  <1>5. FilesInPlace
    BY <1>2, <1>3, <1>4 DEF FilesInPlace
  <1> QED BY <1>5 DEF PreparationInit, PreparationInv, Prepared

LEMMA MediaPlanKeeps ==
  ASSUME PreparationInv, Plan PROVE PreparationInv'
  <1>1. wanted' = wanted /\ where' = where /\ disk' = disk /\ inputDir' = inputDir /\ step = "asked"
    BY DEF Plan
  <1>2. named = <<>> /\ media = NoPlan /\ ~Prepared
    <2>1. step = "asked"
      BY <1>1
    <2> QED BY <2>1 DEF PreparationInv, Prepared
  <1>3. FilesInPlace' /\ wanted' \in Submissions
    BY <1>1 DEF PreparationInv, FilesInPlace
  <1>4. CASE AgainstSchema /\ Complete
    <2>1. step' = "resolving" /\ named' = named
          /\ media' = [values |-> Values, drops |-> Drops, uploads |-> <<>>]
      BY <1>4 DEF Plan
    <2>2. FilesAnswer
      BY <1>4, FilesFit DEF PreparationInv
    <2>3. Complete' /\ Drops' = Drops /\ Files' = Files
      BY <1>1, <1>4, RequestStays
    <2>4. media'.drops = Drops /\ media'.uploads = <<>>
      BY <2>1
    <2>5. PlanInForce'
      BY <2>2, <2>3, <2>4 DEF PlanInForce, FilesAnswer
    <2> QED BY <1>2, <1>3, <2>1, <2>5 DEF PreparationInv, Prepared
  <1>5. CASE ~(AgainstSchema /\ Complete)
    <2>1. step' = "refused" /\ media' = media /\ named' = named
      BY <1>5 DEF Plan, Refuse
    <2> QED BY <1>2, <1>3, <2>1 DEF PreparationInv, Prepared, NoPlan
  <1> QED BY <1>4, <1>5

LEMMA ResolveKeeps ==
  ASSUME PreparationInv, Resolve PROVE PreparationInv'
  <1>1. wanted' = wanted /\ where' = where /\ disk' = disk /\ inputDir' = inputDir /\ step = "resolving" /\ ~Resolved
    BY DEF Resolve
  <1>2. named = <<>> /\ PlanInForce /\ ~Prepared
    BY <1>1 DEF PreparationInv, Prepared
  <1>3. FilesInPlace' /\ wanted' \in Submissions
    BY <1>1 DEF PreparationInv, FilesInPlace
  <1>4. Complete' /\ Drops' = Drops /\ Files' = Files
    BY <1>1, <1>2, RequestStays DEF PlanInForce
  <1>5. FilesAnswer
    BY <1>2, FilesFit DEF PreparationInv, PlanInForce
  <1> DEFINE n == Len(media.uploads)
             variable == Files[n + 1][1]
             s == Files[n + 1][2]
             u == [variable |-> variable, path |-> where[s], content |-> s]
  <1>6. n \in Nat /\ n + 1 \in 1 .. Len(Files)
    BY <1>1, <1>2, <1>5 DEF Resolved, PlanInForce, FilesAnswer
  <1>7. CASE Usable(variable, s)
    <2>1. /\ step' = "resolving" /\ named' = named
          /\ media' = [values |-> Over([k \in {variable} |-> "good"], media.values), drops |-> media.drops,
                       uploads |-> Append(media.uploads, u)]
      BY <1>1, <1>7 DEF Resolve
    <2>2. u \in FileRecords
      <3>1. s \in Sources /\ where[s] \in Places
        BY <1>7, PreparationAssumption DEF Usable, PreparationInv, FilesInPlace, Places
      <3>2. variable \in FileVariables
        BY <1>5, <1>6 DEF FilesAnswer
      <3> QED BY <3>1, <3>2 DEF FileRecords
    <2> DEFINE uploads2 == Append(media.uploads, u)
               values2 == Over([k \in {variable} |-> "good"], media.values)
    <2>3. DOMAIN values2 = {variable} \cup DOMAIN media.values
      BY DEF Over
    <2>4. media'.drops = media.drops /\ media'.uploads = uploads2 /\ media'.values = values2
      BY <2>1
    <2>5. u.variable = variable /\ u.content = s
      OBVIOUS
    <2>6. media.uploads \in Seq(FileRecords)
      BY <1>2 DEF PlanInForce
    <2> HIDE DEF u
    <2>7. /\ uploads2 \in Seq(FileRecords) /\ Len(uploads2) = n + 1 /\ uploads2[n + 1] = u
          /\ \A i \in 1 .. n : uploads2[i] = media.uploads[i]
      BY <2>2, <2>6
    <2> HIDE DEF uploads2, values2
    <2>8. \A i \in 1 .. n + 1 : /\ uploads2[i].variable = Files[i][1] /\ uploads2[i].content = Files[i][2]
                                /\ Files[i][1] \in DOMAIN values2
      <3>1. \A i \in 1 .. n + 1 : i \in 1 .. n \/ i = n + 1
        BY <1>6
      <3> QED BY <1>2, <2>3, <2>5, <2>7, <3>1 DEF PlanInForce
    <2>9. PlanInForce'
      BY <1>2, <1>4, <1>6, <2>4, <2>7, <2>8 DEF PlanInForce
    <2> QED BY <1>2, <1>3, <2>1, <2>9 DEF PreparationInv, Prepared
  <1>8. CASE ~Usable(variable, s)
    <2>1. step' = "refused" /\ media' = media /\ named' = named
      BY <1>8 DEF Resolve, Refuse
    <2>2. PlanInForce'
      BY <1>2, <1>4, <2>1 DEF PlanInForce
    <2> QED BY <1>2, <1>3, <2>1, <2>2 DEF PreparationInv, Prepared
  <1> QED BY <1>7, <1>8

LEMMA BuildKeeps ==
  ASSUME PreparationInv, Build PROVE PreparationInv'
  <1>1. /\ wanted' = wanted /\ where' = where /\ disk' = disk /\ inputDir' = inputDir /\ step = "resolving" /\ Resolved
        /\ media' = media /\ named' = named
    BY DEF Build, Refuse
  <1>2. named = <<>> /\ PlanInForce
    BY <1>1 DEF PreparationInv, Prepared
  <1>3. FilesInPlace' /\ wanted' \in Submissions
    BY <1>1 DEF PreparationInv, FilesInPlace
  <1>4. Complete' /\ Drops' = Drops /\ Files' = Files /\ Template' = Template
    BY <1>1, <1>2, RequestStays DEF PlanInForce
  <1>5. PlanInForce'
    BY <1>1, <1>2, <1>4 DEF PlanInForce
  <1>6. CASE step' = "refused"
    BY <1>1, <1>2, <1>3, <1>5, <1>6 DEF PreparationInv, Prepared
  <1>7. CASE step' # "refused"
    <2>1. step' = "queued" /\ graph' = [inputs |-> Rewired(Template, media.drops), writes |-> Written(Template, media)]
      BY <1>7 DEF Build, Refuse
    <2>2. graph' = [inputs |-> Rewired(Template', media'.drops), writes |-> Written(Template', media')]
      BY <1>1, <1>4, <2>1
    <2>3. Resolved' /\ NamesLead'
      BY <1>1, <1>2, <1>4 DEF Resolved, NamesLead, PlanInForce
    <2> QED BY <1>3, <1>5, <2>1, <2>2, <2>3 DEF PreparationInv, Prepared
  <1> QED BY <1>6, <1>7

\* The input directory with a file; what was there stays.
DirWith(base, content) ==
  IF NameFor(base, content)[2] \in DOMAIN inputDir[base] THEN inputDir
  ELSE [inputDir EXCEPT ![base] = Append(@, content)]

LEMMA NameLeads ==
  ASSUME FilesInPlace, NEW base \in BaseNames, NEW content \in Sources
  PROVE  /\ NameFor(base, content) \in BaseNames \X Nat
         /\ NameFor(base, content)[1] = base
         /\ NameFor(base, content)[2] \in DOMAIN DirWith(base, content)[base]
         /\ DirWith(base, content)[base][NameFor(base, content)[2]] = content
         /\ DirWith(base, content) \in [BaseNames -> Seq(Sources \cup {Foreign})]
         /\ \A b \in BaseNames : \A i \in DOMAIN inputDir[b] :
              i \in DOMAIN DirWith(base, content)[b] /\ DirWith(base, content)[b][i] = inputDir[b][i]
  <1> DEFINE Names == BaseNames
             Contents == Sources \cup {Foreign}
             old == inputDir[base]
             name == NameFor(base, content)
             dir == DirWith(base, content)
  <1>1. inputDir \in [Names -> Seq(Contents)] /\ base \in Names /\ content \in Contents
    BY DEF FilesInPlace
  <1> HIDE DEF Names, Contents
  <1>2. old \in Seq(Contents) /\ Len(old) \in Nat /\ DOMAIN old = 1 .. Len(old)
    BY <1>1
  <1>3. CASE \E i \in DOMAIN old : old[i] = content
    <2> DEFINE k == CHOOSE i \in DOMAIN old : old[i] = content
    <2>1. k \in DOMAIN old /\ old[k] = content
      BY <1>3
    <2>2. name = <<base, k>>
      BY <1>3 DEF NameFor
    <2> HIDE DEF k
    <2>3. name[1] = base /\ name[2] = k /\ dir = inputDir /\ name \in Names \X Nat
      BY <1>1, <1>2, <2>1, <2>2 DEF DirWith
    <2> HIDE DEF name, dir
    <2> QED BY <1>1, <2>1, <2>3 DEF Names, Contents, name, dir
  <1>4. CASE ~\E i \in DOMAIN old : old[i] = content
    <2> DEFINE k == Len(old) + 1
               new == Append(old, content)
    <2>1. name = <<base, k>>
      BY <1>4 DEF NameFor
    <2>2. name[1] = base /\ name[2] = k /\ k \notin DOMAIN old /\ name \in Names \X Nat
      BY <1>1, <1>2, <2>1
    <2>3. dir = [inputDir EXCEPT ![base] = new]
      BY <2>2 DEF DirWith
    <2>4. new \in Seq(Contents) /\ k \in DOMAIN new /\ new[k] = content
          /\ \A i \in DOMAIN old : i \in DOMAIN new /\ new[i] = old[i]
      BY <1>1, <1>2
    <2> HIDE DEF name, dir, new, k
    <2>5. dir \in [Names -> Seq(Contents)] /\ dir[base] = new /\ \A b \in Names : b # base => dir[b] = inputDir[b]
      BY <1>1, <2>3, <2>4
    <2> QED BY <2>2, <2>4, <2>5 DEF Names, Contents, name, dir
  <1> QED BY <1>3, <1>4

LEMMA UploadKeeps ==
  ASSUME PreparationInv, Upload PROVE PreparationInv'
  <1>1. /\ wanted' = wanted /\ where' = where /\ disk' = disk /\ media' = media /\ graph' = graph
        /\ step = "queued" /\ ~Uploaded
    BY DEF Upload
  <1>2. PlanInForce /\ Resolved /\ NamesLead /\ FilesInPlace
        /\ graph = [inputs |-> Rewired(Template, media.drops), writes |-> Written(Template, media)]
    BY <1>1 DEF PreparationInv, Prepared
  <1>3. Complete' /\ Drops' = Drops /\ Files' = Files /\ Template' = Template
    BY <1>1, <1>2, RequestStays DEF PlanInForce
  <1>4. PlanInForce' /\ Resolved' /\ wanted' \in Submissions
        /\ graph' = [inputs |-> Rewired(Template', media'.drops), writes |-> Written(Template', media')]
    BY <1>1, <1>2, <1>3 DEF PlanInForce, Resolved, PreparationInv
  <1> DEFINE n == Len(named)
             u == media.uploads[n + 1]
             base == Base[u.path]
             name == NameFor(base, u.content)
             dir == DirWith(base, u.content)
  <1>5. n \in Nat /\ Len(media.uploads) \in Nat /\ n + 1 \in 1 .. Len(media.uploads)
    BY <1>1, <1>2 DEF NamesLead, PlanInForce, Uploaded
  <1>6. u \in FileRecords
    BY <1>2, <1>5 DEF PlanInForce
  <1>7. base \in BaseNames /\ u.content \in Sources
    BY <1>6 DEF FileRecords, BaseNames
  <1>8. CASE disk[u.path] = u.content
    <2>1. named' = Append(named, name) /\ inputDir' = dir /\ step' = step
      BY <1>1, <1>8 DEF Upload, DirWith
    <2>2. /\ name \in BaseNames \X Nat
          /\ name[1] = base /\ name[2] \in DOMAIN dir[base] /\ dir[base][name[2]] = u.content
          /\ dir \in [BaseNames -> Seq(Sources \cup {Foreign})]
          /\ \A b \in BaseNames : \A i \in DOMAIN inputDir[b] :
               i \in DOMAIN dir[b] /\ dir[b][i] = inputDir[b][i]
      <3>1. PICK b0 \in BaseNames, c0 \in Sources : b0 = base /\ c0 = u.content
        BY <1>7
      <3>2. FilesInPlace
        BY <1>2
      <3>3. name = NameFor(b0, c0) /\ dir = DirWith(b0, c0)
        BY <3>1
      <3> HIDE DEF u, base, name, dir
      <3>4. /\ NameFor(b0, c0) \in BaseNames \X Nat
            /\ NameFor(b0, c0)[1] = b0
            /\ NameFor(b0, c0)[2] \in DOMAIN DirWith(b0, c0)[b0]
            /\ DirWith(b0, c0)[b0][NameFor(b0, c0)[2]] = c0
            /\ DirWith(b0, c0) \in [BaseNames -> Seq(Sources \cup {Foreign})]
            /\ \A b \in BaseNames : \A i \in DOMAIN inputDir[b] :
                 i \in DOMAIN DirWith(b0, c0)[b] /\ DirWith(b0, c0)[b][i] = inputDir[b][i]
        BY <3>2, NameLeads
      <3> QED BY <3>1, <3>3, <3>4
    <2> HIDE DEF u, base, name, dir
    <2>3. FilesInPlace'
      BY <1>1, <1>2, <2>1, <2>2 DEF FilesInPlace
    <2>4. Len(named') = n + 1 /\ DOMAIN named' = 1 .. n + 1 /\ named'[n + 1] = name
          /\ \A i \in 1 .. n : named'[i] = named[i]
      <3> DEFINE S == BaseNames \X Nat
      <3>1. named \in Seq(S) /\ name \in S /\ Len(named) = n
        BY <1>2, <2>2 DEF NamesLead
      <3> HIDE DEF S
      <3> QED BY <2>1, <3>1
    <2>5. NamesLead'
      <3>1. \A i \in 1 .. n + 1 : i \in 1 .. n \/ i = n + 1
        BY <1>5
      <3>2. n + 1 \in Nat /\ n + 1 <= Len(media'.uploads)
        BY <1>1, <1>5
      <3>3. ASSUME NEW i \in 1 .. n + 1
            PROVE  /\ named'[i][2] \in DOMAIN inputDir'[named'[i][1]]
                   /\ inputDir'[named'[i][1]][named'[i][2]] = media'.uploads[i].content
        <4>1. CASE i \in 1 .. n
          <5>1. /\ named[i][1] \in BaseNames /\ named[i][2] \in DOMAIN inputDir[named[i][1]]
                /\ inputDir[named[i][1]][named[i][2]] = media.uploads[i].content
            BY <1>2, <4>1 DEF NamesLead
          <5> QED BY <1>1, <2>1, <2>2, <2>4, <4>1, <5>1
        <4>2. CASE i = n + 1
          BY <1>1, <1>7, <2>1, <2>2, <2>4, <4>2 DEF u
        <4> QED BY <3>1, <4>1, <4>2
      <3>4. named' \in Seq(BaseNames \X Nat)
        BY <1>2, <2>1, <2>2 DEF NamesLead
      <3> QED BY <2>4, <3>2, <3>3, <3>4 DEF NamesLead
    <2> QED BY <1>1, <1>4, <2>1, <2>3, <2>5 DEF PreparationInv, Prepared
  <1>9. CASE disk[u.path] # u.content
    <2>1. named' = named /\ inputDir' = inputDir /\ step' = "failed"
      BY <1>1, <1>9 DEF Upload
    <2>2. FilesInPlace' /\ NamesLead'
      BY <1>1, <1>2, <2>1 DEF FilesInPlace, NamesLead
    <2> QED BY <1>4, <2>1, <2>2 DEF PreparationInv, Prepared
  <1> QED BY <1>8, <1>9

LEMMA SubmitPromptKeeps ==
  ASSUME PreparationInv, SubmitPrompt PROVE PreparationInv'
  <1>1. /\ wanted' = wanted /\ where' = where /\ disk' = disk /\ media' = media /\ graph' = graph
        /\ named' = named /\ inputDir' = inputDir /\ step = "queued" /\ Uploaded /\ step' = "submitted"
    BY DEF SubmitPrompt
  <1>2. PlanInForce /\ Resolved /\ NamesLead /\ FilesInPlace
        /\ graph = [inputs |-> Rewired(Template, media.drops), writes |-> Written(Template, media)]
    BY <1>1 DEF PreparationInv, Prepared
  <1>3. Complete' /\ Drops' = Drops /\ Files' = Files /\ Template' = Template
    BY <1>1, <1>2, RequestStays DEF PlanInForce
  <1>4. /\ PlanInForce' /\ Resolved' /\ wanted' \in Submissions /\ NamesLead' /\ FilesInPlace' /\ Uploaded'
        /\ graph' = [inputs |-> Rewired(Template', media'.drops), writes |-> Written(Template', media')]
    BY <1>1, <1>2, <1>3 DEF PlanInForce, Resolved, PreparationInv, NamesLead, FilesInPlace, Uploaded
  <1> QED BY <1>1, <1>4 DEF PreparationInv, Prepared

\* A file is moved or purged, or nothing happens to what the Job holds.
LEMMA RestKeeps ==
  ASSUME PreparationInv, FilesInPlace', UNCHANGED <<wanted, step, media, graph, named, inputDir>>
  PROVE  PreparationInv'
  <1>1. (Complete' <=> Complete) /\ Drops' = Drops /\ Files' = Files /\ Template' = Template
    BY RequestStays
  <1>2. Prepared' <=> Prepared
    BY DEF Prepared
  <1>3. (PlanInForce' <=> PlanInForce) /\ (Resolved' <=> Resolved) /\ (NamesLead' <=> NamesLead)
        /\ (Uploaded' <=> Uploaded)
    BY <1>1 DEF PlanInForce, Resolved, NamesLead, Uploaded
  <1> QED BY <1>1, <1>2, <1>3 DEF PreparationInv

LEMMA FilesChangeKeeps ==
  ASSUME PreparationInv, FilesChange PROVE PreparationInv'
  <1>1. PICK s \in Sources \ Cached : PurgeFile(s) \/ \E p \in Places : Move(s, p)
    BY DEF FilesChange
  <1>2. FilesInPlace /\ inputDir' = inputDir
    BY DEF PreparationInv, FilesChange
  <1>3. CASE PurgeFile(s)
    <2>1. FilesInPlace'
      BY <1>2, <1>3, PreparationAssumption DEF PurgeFile, FilesInPlace, Places
    <2> QED BY <2>1, RestKeeps DEF FilesChange
  <1>4. CASE \E p \in Places : Move(s, p)
    <2>1. PICK p \in Places : Move(s, p)
      BY <1>4
    <2>2. FilesInPlace'
      BY <1>2, <2>1, PreparationAssumption DEF Move, FilesInPlace, Places
    <2> QED BY <2>2, RestKeeps DEF FilesChange
  <1> QED BY <1>1, <1>3, <1>4

\* The plan, the files resolved and uploaded, and the graph stay those that were
\* asked for.
LEMMA PreparationInvariance ==
  PreparationSpec => []PreparationInv
  <1>1. PreparationInit => PreparationInv
    BY InitHolds
  <1>2. PreparationInv /\ [PreparationNext]_preparationVars => PreparationInv'
    <2> SUFFICES ASSUME PreparationInv, [PreparationNext]_preparationVars PROVE PreparationInv'
      OBVIOUS
    <2>1. CASE Plan  BY <2>1, MediaPlanKeeps
    <2>2. CASE Resolve  BY <2>2, ResolveKeeps
    <2>3. CASE Build  BY <2>3, BuildKeeps
    <2>4. CASE Upload  BY <2>4, UploadKeeps
    <2>5. CASE SubmitPrompt  BY <2>5, SubmitPromptKeeps
    <2>6. CASE FilesChange  BY <2>6, FilesChangeKeeps
    <2>7. CASE UNCHANGED preparationVars
      <3>1. FilesInPlace'
        BY <2>7 DEF PreparationInv, FilesInPlace, preparationVars
      <3> QED BY <2>7, <3>1, RestKeeps DEF preparationVars
    <2> QED BY <2>1, <2>2, <2>3, <2>4, <2>5, <2>6, <2>7 DEF PreparationNext
  <1> QED BY <1>1, <1>2, PTL DEF PreparationSpec

-----------------------------------------------------------------------------
(* A prepared prompt is as asked.                                          *)

\* A cut that fits leads only to nodes that are left.
LEMMA CutWired ==
  ASSUME NEW t, NEW D, Fit(t, D), NEW r \in DOMAIN Rewired(t, D), NEW i \in DOMAIN Rewired(t, D)[r]
  PROVE  r \in RolesOf(t) \ D /\ Rewired(t, D)[r][i] \in RolesOf(t) \ D
  <1>1. r \in DOMAIN t.inputs \ D /\ i \in Linked(t, D, r)
    BY DEF Rewired
  <1>2. Rewired(t, D)[r][i] = Through(t, D, t.inputs[r][i]) /\ Through(t, D, t.inputs[r][i]) # Nothing
    BY <1>1 DEF Rewired, Linked
  <1>3. i \in DOMAIN t.inputs[r]
    BY <1>1 DEF Linked
  <1>4. r \in RolesOf(t) /\ t.inputs[r][i] \in RolesOf(t)
    BY <1>1, <1>3, LinkRole DEF Link
  <1>5. Through(t, D, t.inputs[r][i]) \in RolesOf(t) \ D
    BY <1>2, <1>4 DEF Through, Fit, Substituted, Droppable
  <1> QED BY <1>1, <1>2, <1>4, <1>5

LEMMA CutCovered ==
  ASSUME NEW t, NEW D, Fit(t, D), NEW r \in DOMAIN t.inputs \ D, NEW i \in DOMAIN t.inputs[r],
         <<r, i>> \notin Dispensable
  PROVE  r \in DOMAIN Rewired(t, D) /\ i \in DOMAIN Rewired(t, D)[r]
  BY DEF Fit, Covered, Rewired, Linked

LEMMA PreparedImplied ==
  ASSUME PreparationInv PROVE PreparedAsAsked
  <1> USE DEF PreparationInv
  <1>1. wanted \in Submissions /\ wanted.template \in DOMAIN Templates
    BY SubmissionsAssumption
  <1>2. PlanInForce => Fit(Template, Drops) /\ ("audio_decode" \in Drops => Mode = "silent") /\ FilesAnswer
    BY <1>1, DropsFit, FilesFit DEF PlanInForce
  <1>3. PreparationTypeOK
    <2>1. media.drops \subseteq Droppable(Template)
      <3>1. CASE media = NoPlan
        BY <3>1 DEF NoPlan
      <3>2. CASE PlanInForce
        BY <1>2, <3>2 DEF PlanInForce, Fit
      <3> QED BY <3>1, <3>2
    <2>2. step \in {"asked", "refused", "resolving", "queued", "failed", "submitted"}
      OBVIOUS
    <2> QED BY <1>1, <2>1, <2>2 DEF PreparationTypeOK, FilesInPlace
  <1>4. ASSUME Prepared
        PROVE  /\ PlanInForce /\ Resolved /\ NamesLead /\ Fit(Template, Drops) /\ media.drops = Drops
               /\ ("audio_decode" \in Drops => Mode = "silent") /\ FilesAnswer
               /\ graph.inputs = Rewired(Template, Drops) /\ graph.writes = Written(Template, media)
    <2>1. PlanInForce
      BY <1>4 DEF Prepared
    <2> QED BY <1>2, <1>4, <2>1 DEF PlanInForce
  <1>5. Wired
    <2> SUFFICES ASSUME Prepared
                 PROVE  /\ \A r \in DOMAIN graph.inputs : \A i \in DOMAIN graph.inputs[r] : {r, graph.inputs[r][i]} \subseteq Kept
                        /\ \A r \in DOMAIN Template.inputs \ media.drops : \A i \in DOMAIN Template.inputs[r] :
                             <<r, i>> \in Dispensable \/ (r \in DOMAIN graph.inputs /\ i \in DOMAIN graph.inputs[r])
                        /\ \A w \in Template.writes : w[1] \in Template.uploads /\ w[2] \in Kept => w \in graph.writes
      BY DEF Wired
    <2>1. \A r \in DOMAIN graph.inputs : \A i \in DOMAIN graph.inputs[r] : {r, graph.inputs[r][i]} \subseteq Kept
      BY <1>4, CutWired DEF Kept
    <2>2. \A r \in DOMAIN Template.inputs \ media.drops : \A i \in DOMAIN Template.inputs[r] :
            <<r, i>> \in Dispensable \/ (r \in DOMAIN graph.inputs /\ i \in DOMAIN graph.inputs[r])
      BY <1>4, CutCovered
    <2>3. ASSUME NEW w \in Template.writes, w[1] \in Template.uploads, w[2] \in Kept
          PROVE  w \in graph.writes
      <3>1. w[2] \notin media.drops /\ w[2] \notin Drops
        BY <1>4, <2>3 DEF Kept
      <3>2. PICK i \in 1 .. Len(Files) : Files[i][1] = w[1]
        BY <1>4, <2>3, <3>1 DEF FilesAnswer
      <3>3. w[1] \in DOMAIN media.values
        BY <1>4, <3>2 DEF PlanInForce, Resolved
      <3> QED BY <1>4, <3>1, <3>3 DEF Written
    <2> QED BY <2>1, <2>2, <2>3
  <1>6. NothingIdle
    <2> SUFFICES ASSUME Prepared, NEW w \in graph.writes
                 PROVE  w[2] \in Needed(graph.inputs) \/ (w = <<"audio_vae_name", "audio_vae">> /\ Mode = "silent")
      BY DEF NothingIdle
    <2>1. w \in Template.writes /\ w[2] \notin Drops
      BY <1>4 DEF Written
    <2> QED BY <1>4, <2>1 DEF Fit, Reaching
  <1>7. RightFiles
    <2> SUFFICES ASSUME step = "submitted"
                 PROVE  /\ \A w \in graph.writes : w[1] \in Template.uploads => \E i \in DOMAIN Files : Files[i][1] = w[1]
                        /\ \A i, j \in DOMAIN Files : Files[i][1] = Files[j][1] => i = j
                        /\ DOMAIN named = DOMAIN Files
                        /\ \A i \in DOMAIN Files :
                             /\ media.uploads[i].variable = Files[i][1]
                             /\ named[i][2] \in DOMAIN inputDir[named[i][1]]
                             /\ inputDir[named[i][1]][named[i][2]] = Files[i][2]
      BY DEF RightFiles
    <2>1. Prepared /\ Uploaded
      BY DEF Prepared
    <2>2. DOMAIN Files = 1 .. Len(Files) /\ \A i, j \in DOMAIN Files : Files[i][1] = Files[j][1] => i = j
      BY <1>4, <2>1 DEF FilesAnswer
    <2>3. \A w \in graph.writes : w[1] \in Template.uploads => \E i \in DOMAIN Files : Files[i][1] = w[1]
      BY <1>4, <2>1, <2>2 DEF FilesAnswer, Written
    <2>4. Len(named) = Len(Files) /\ DOMAIN named = DOMAIN Files /\ Len(media.uploads) = Len(Files)
      BY <1>4, <2>1, <2>2 DEF NamesLead, Uploaded, Resolved
    <2>5. \A i \in DOMAIN Files :
            /\ media.uploads[i].variable = Files[i][1]
            /\ named[i][2] \in DOMAIN inputDir[named[i][1]]
            /\ inputDir[named[i][1]][named[i][2]] = Files[i][2]
      BY <1>4, <2>1, <2>2, <2>4 DEF NamesLead, PlanInForce
    <2> QED BY <2>2, <2>3, <2>4, <2>5
  <1> QED BY <1>3, <1>5, <1>6, <1>7 DEF PreparedAsAsked

\* Every ComfyUI Job runs what was asked for: see WorkflowPreparation.
THEOREM PreparationCorrect ==
  PreparationSpec => []PreparedAsAsked
  <1>1. PreparationInv => PreparedAsAsked
    BY PreparedImplied
  <1> QED BY <1>1, PreparationInvariance, PTL
=============================================================================
