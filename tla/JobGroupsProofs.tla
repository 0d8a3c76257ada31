--------------------------- MODULE JobGroupsProofs ---------------------------
(***************************************************************************)
(* Machine-checked proofs about JobGroups, for any number of groups, items, *)
(* Jobs and overlapping requests, and any limits.                          *)
(***************************************************************************)
EXTENDS JobGroups, FiniteSetTheorems, TLAPS

Work ==
  [op: {"create", "retry", "cancel"}, group: Groups, todo: SUBSET Items,
   read: [Items -> RowsOf], at: Items \cup {None}, made: Jobs \cup {None}]

-----------------------------------------------------------------------------
(* The inductive invariant.                                                *)

\* A request visits items of its group; what it has made is for the item in
\* its hands.
Shape ==
  \A c \in Clients : request[c] # Idle =>
    /\ \A i \in request[c].todo : GroupOf[i] = request[c].group
    /\ request[c].at # None => request[c].at \in request[c].todo
    /\ request[c].made # None => request[c].at # None /\ request[c].op \in {"create", "retry"}

\* Who works on an experiment holds the lock, and nobody else does; so the
\* experiment stays while it does.
Held ==
  \A c \in Clients :
    /\ lock = c <=> (request[c] # Idle /\ kind[request[c].group] # "batch")
    /\ lock = c => group[request[c].group] = "stored"

\* Nothing is known of an experiment before it is stored.
Blank ==
  \A i \in Items : group[GroupOf[i]] = "absent" /\ kind[GroupOf[i]] # "batch" =>
    item[i] = NoRow /\ \A j \in Jobs : maker[j] # i

Unborn == \A j \in Jobs : job[j] = "absent" => maker[j] = None

\* What the holder of the lock has read of an item still stands, but for the
\* attempt it has just counted; and there was one left.
ReadsStand ==
  \A c \in Clients, i \in Items : lock = c /\ i \in request[c].todo =>
    /\ request[c].read[i].job = item[i].job
    /\ item[i].attempts = IF request[c].at = i /\ request[c].made # None
                          THEN request[c].read[i].attempts + 1 ELSE request[c].read[i].attempts
    /\ request[c].op \in {"create", "retry"} => request[c].read[i].attempts < MaxAttempts
    /\ request[c].op = "create" => item[i].job = None

\* What an item has waiting or running is the Job it shows, or the one in hand.
Tracked ==
  \A i \in Items, j \in Jobs :
    kind[GroupOf[i]] # "batch" /\ group[GroupOf[i]] = "stored" /\ i \notin lost /\ maker[j] = i /\ job[j] \in Waiting =>
      item[i].job = j \/ \E c \in Clients : lock = c /\ request[c].at = i /\ request[c].made = j

\* When a Job is in hand, it is the only one, and the one it replaces failed.
Single ==
  \A c \in Clients : lock = c /\ request[c].made # None =>
    /\ item[request[c].at].job = None \/ job[item[request[c].at].job] = "failed"
    /\ request[c].at \notin lost =>
         \A j \in Jobs : maker[j] = request[c].at /\ job[j] \in Waiting => j = request[c].made

\* Attempts cover the Jobs.
AttemptsCount ==
  \A i \in Items : kind[GroupOf[i]] # "batch" /\ group[GroupOf[i]] = "stored" =>
    /\ IsFiniteSet({j \in Jobs : maker[j] = i})
    /\ Cardinality({j \in Jobs : maker[j] = i}) <= item[i].attempts
    /\ item[i].attempts <= MaxAttempts

IInv == TypeOK /\ Shape /\ Held /\ Blank /\ Unborn /\ ReadsStand /\ Tracked /\ Single /\ AttemptsCount

-----------------------------------------------------------------------------
LEMMA Constants ==
  /\ GroupOf \in [Items -> Groups] /\ None \notin Jobs /\ None \notin Items /\ None \notin Clients
  /\ MaxAttempts \in Nat /\ MaxAttempts > 0 /\ MaxActive \in Nat
BY GroupsAssumption

LEMMA Working ==
  ASSUME NEW r \in Requests, r # Idle
  PROVE  /\ r \in Work /\ r.op \in {"create", "retry", "cancel"} /\ r.group \in Groups /\ r.todo \subseteq Items
         /\ r.read \in [Items -> RowsOf] /\ r.at \in Items \cup {None} /\ r.made \in Jobs \cup {None}
BY DEF Requests, Work

LEMMA WorkIsRequest ==
  ASSUME NEW r \in Work
  PROVE  r \in Requests /\ r # Idle
BY DEF Requests, Work, Idle

LEMMA IInvInit == Init => IInv
<1> SUFFICES ASSUME Init PROVE IInv
  OBVIOUS
<1>1. NoRow \in RowsOf /\ Idle \in Requests
  BY DEF NoRow, RowsOf, Requests
<1>2. TypeOK
  BY <1>1, GroupsAssumption DEF Init, TypeOK, JobStates
<1>3. Shape /\ Held /\ ReadsStand /\ Single
  BY Constants DEF Init, Shape, Held, ReadsStand, Single
<1>4. Blank /\ Unborn
  BY Constants DEF Init, Blank, Unborn
<1>5. Tracked /\ AttemptsCount
  BY Constants DEF Init, Tracked, AttemptsCount
<1> QED
  BY <1>2, <1>3, <1>4, <1>5 DEF IInv

-----------------------------------------------------------------------------
(* Requests begin.                                                         *)

\* What a request that begins is.
LEMMA BegunRequest ==
  ASSUME TypeOK, NEW c \in Clients, NEW g \in Groups, NEW op \in {"create", "retry", "cancel"},
         NEW todo \in SUBSET Items, Begin(c, g, op, todo)
  PROVE  /\ request[c] = Idle
         /\ kind[g] = "batch" \/ lock = None
         /\ lock' = IF kind[g] = "batch" THEN lock ELSE c
         /\ request' \in [Clients -> Requests]
         /\ \A d \in Clients : d # c => request'[d] = request[d]
         /\ request'[c] # Idle
         /\ request'[c].op = op /\ request'[c].group = g /\ request'[c].todo = todo
         /\ request'[c].at = None /\ request'[c].made = None
         /\ \A i \in todo : request'[c].read[i] = item[i]
<1> DEFINE n == [op |-> op, group |-> g, todo |-> todo, read |-> RowsRead(todo), at |-> None, made |-> None]
<1>1. NoRow \in RowsOf
  BY DEF NoRow, RowsOf
<1>2. RowsRead(todo) \in [Items -> RowsOf] /\ \A i \in todo : RowsRead(todo)[i] = item[i]
  BY <1>1 DEF RowsRead, TypeOK
<1>3. n \in Work
  BY <1>2 DEF Work
<1>4. n \in Requests /\ n # Idle
  BY <1>3, WorkIsRequest
<1>5. request' = [request EXCEPT ![c] = n]
  BY DEF Begin
<1>6. request'[c] = n /\ request' \in [Clients -> Requests] /\ \A d \in Clients : d # c => request'[d] = request[d]
  BY <1>4, <1>5 DEF TypeOK
<1> QED
  BY <1>2, <1>4, <1>6 DEF Begin, Guarded, Locked

\* Beginning keeps the invariant when the attempts are left and the group stands.
LEMMA BegunKeeps ==
  ASSUME IInv, NEW c \in Clients, NEW g \in Groups, NEW op \in {"create", "retry", "cancel"},
         NEW todo \in SUBSET Items, Begin(c, g, op, todo), UNCHANGED <<kind, item, job, maker, lost>>,
         \A i \in todo : GroupOf[i] = g,
         group' \in [Groups -> {"absent", "stored", "deleted"}],
         group'[g] = "stored", \A h \in Groups : h # g => group'[h] = group[h],
         group[g] = "stored" \/ group[g] = "absent",
         kind[g] # "batch" /\ op \in {"create", "retry"} => \A i \in todo : item[i].attempts < MaxAttempts,
         kind[g] # "batch" /\ op = "create" => \A i \in todo : item[i].job = None
  PROVE  IInv'
<1> USE DEF IInv
<1>1. /\ request[c] = Idle
      /\ kind[g] = "batch" \/ lock = None
      /\ lock' = IF kind[g] = "batch" THEN lock ELSE c
      /\ request' \in [Clients -> Requests]
      /\ \A d \in Clients : d # c => request'[d] = request[d]
      /\ request'[c] # Idle
      /\ request'[c].op = op /\ request'[c].group = g /\ request'[c].todo = todo
      /\ request'[c].at = None /\ request'[c].made = None
      /\ \A i \in todo : request'[c].read[i] = item[i]
  BY BegunRequest
<1>2. TypeOK'
  BY <1>1 DEF TypeOK
<1>3. Shape'
  BY <1>1 DEF Shape
<1>4. \A d \in Clients : lock' = d <=> (d = c /\ kind[g] # "batch") \/ (d # c /\ lock = d)
  BY <1>1, Constants DEF Held
<1>5. Held'
  <2> SUFFICES ASSUME NEW d \in Clients
               PROVE /\ lock' = d <=> (request'[d] # Idle /\ kind'[request'[d].group] # "batch")
                     /\ lock' = d => group'[request'[d].group] = "stored"
    BY DEF Held
  <2>1. CASE d = c
    BY <1>1, <1>4, <2>1
  <2>2. CASE d # c
    <3>1. request[d] # Idle => request[d].group \in Groups
      BY Working DEF TypeOK
    <3> QED
      BY <1>1, <1>4, <2>2, <3>1 DEF Held
  <2> QED
    BY <2>1, <2>2
<1>6. Blank' /\ Unborn'
  BY Constants DEF Blank, Unborn
<1>7. ReadsStand'
  BY <1>1, <1>4 DEF ReadsStand
<1>8. \A i \in Items : kind[GroupOf[i]] # "batch" /\ group[GroupOf[i]] = "absent" /\ group'[GroupOf[i]] = "stored" =>
        item[i] = NoRow /\ \A j \in Jobs : maker[j] # i
  BY DEF Blank
<1>9. Tracked'
  <2> SUFFICES ASSUME NEW i \in Items, NEW j \in Jobs, kind[GroupOf[i]] # "batch", group'[GroupOf[i]] = "stored",
                      i \notin lost, maker[j] = i, job[j] \in Waiting
               PROVE  item[i].job = j \/ \E d \in Clients : lock' = d /\ request'[d].at = i /\ request'[d].made = j
    BY DEF Tracked
  <2>1. group[GroupOf[i]] = "stored"
    BY <1>8, Constants
  <2> QED
    BY <2>1, <1>1, <1>4, Constants DEF Tracked
<1>10. Single'
  BY <1>1, <1>4 DEF Single
<1>11. AttemptsCount'
  <2> SUFFICES ASSUME NEW i \in Items, kind[GroupOf[i]] # "batch", group'[GroupOf[i]] = "stored"
               PROVE /\ IsFiniteSet({j \in Jobs : maker[j] = i})
                     /\ Cardinality({j \in Jobs : maker[j] = i}) <= item[i].attempts
                     /\ item[i].attempts <= MaxAttempts
    BY DEF AttemptsCount
  <2>1. CASE group[GroupOf[i]] = "stored"
    BY <2>1 DEF AttemptsCount
  <2>2. CASE group[GroupOf[i]] # "stored"
    <3>1. item[i] = NoRow /\ {j \in Jobs : maker[j] = i} = {}
      BY <2>2, <1>8, Constants
    <3> DEFINE made == {j \in Jobs : maker[j] = i}
    <3>2. IsFiniteSet(made) /\ Cardinality(made) = 0
      <4> HIDE DEF made
      <4>1. made = {}
        BY <3>1 DEF made
      <4> QED
        BY <4>1, FS_EmptySet
    <3>3. item[i].attempts = 0
      BY <3>1 DEF NoRow
    <3> HIDE DEF made
    <3>4. IsFiniteSet(made) /\ Cardinality(made) <= item[i].attempts /\ item[i].attempts <= MaxAttempts
      BY <3>2, <3>3, Constants
    <3> QED
      BY <3>4 DEF made
  <2> QED
    BY <2>1, <2>2
<1> QED
  BY <1>2, <1>3, <1>5, <1>6, <1>7, <1>9, <1>10, <1>11

LEMMA StoreGroupKeeps ==
  ASSUME IInv, NEW c \in Clients, NEW g \in Groups, StoreGroup(c, g)
  PROVE  IInv'
<1>1. ItemsOf(g) \in SUBSET Items /\ \A i \in ItemsOf(g) : GroupOf[i] = g
  BY DEF ItemsOf
<1>2. kind[g] # "batch" => \A i \in ItemsOf(g) : item[i] = NoRow
  BY <1>1 DEF StoreGroup, IInv, Blank
<1>3. Begin(c, g, "create", ItemsOf(g)) /\ UNCHANGED <<kind, item, job, maker, lost>> /\ group[g] = "absent"
  BY DEF StoreGroup
<1>4. /\ group' \in [Groups -> {"absent", "stored", "deleted"}] /\ group'[g] = "stored"
      /\ \A h \in Groups : h # g => group'[h] = group[h]
  BY DEF StoreGroup, IInv, TypeOK
<1>5. kind[g] # "batch" => \A i \in ItemsOf(g) : item[i].attempts < MaxAttempts /\ item[i].job = None
  BY <1>2, Constants DEF NoRow
<1> HIDE DEF ItemsOf
<1> QED
  BY <1>1, <1>3, <1>4, <1>5, BegunKeeps

LEMMA RetryKeeps ==
  ASSUME IInv, NEW c \in Clients, NEW g \in Groups, Retry(c, g)
  PROVE  IInv'
<1> DEFINE todo == IF kind[g] = "batch" THEN {i \in ItemsOf(g) : item[i].job # None \/ item[i].error}
                   ELSE Retryable(g)
<1>1. todo \in SUBSET Items /\ \A i \in todo : GroupOf[i] = g
  BY DEF ItemsOf, Retryable
<1>2. kind[g] # "batch" => \A i \in todo : item[i].attempts < MaxAttempts
  BY DEF Retryable, AttemptsLeft
<1>3. Begin(c, g, "retry", todo) /\ UNCHANGED <<kind, item, job, maker, lost>>
  BY DEF Retry
<1>4. /\ group[g] = "stored" /\ group' \in [Groups -> {"absent", "stored", "deleted"}] /\ group'[g] = "stored"
      /\ \A h \in Groups : h # g => group'[h] = group[h]
  BY DEF Retry, IInv, TypeOK
<1> HIDE DEF todo
<1> QED
  BY <1>1, <1>2, <1>3, <1>4, BegunKeeps

LEMMA CancelPendingKeeps ==
  ASSUME IInv, NEW c \in Clients, NEW g \in Groups, CancelPending(c, g)
  PROVE  IInv'
<1> DEFINE todo == {i \in ItemsOf(g) : item[i].job # None}
<1>1. todo \in SUBSET Items /\ \A i \in todo : GroupOf[i] = g
  BY DEF ItemsOf
<1>2. Begin(c, g, "cancel", todo) /\ UNCHANGED <<kind, item, job, maker, lost>>
  BY DEF CancelPending
<1>3. /\ group[g] = "stored" /\ group' \in [Groups -> {"absent", "stored", "deleted"}] /\ group'[g] = "stored"
      /\ \A h \in Groups : h # g => group'[h] = group[h]
  BY DEF CancelPending, IInv, TypeOK
<1> HIDE DEF todo
<1> QED
  BY <1>1, <1>2, <1>3, BegunKeeps

LEMMA DeleteKeeps ==
  ASSUME IInv, NEW c \in Clients, NEW g \in Groups, Delete(c, g)
  PROVE  IInv'
<1> USE DEF IInv
<1>1. NoRow \in RowsOf
  BY DEF NoRow, RowsOf
<1>2. /\ lock = None /\ group[g] = "stored" /\ UNCHANGED <<kind, job, request, lock, maker, lost>>
      /\ \A h \in Groups : group'[h] = IF h = g THEN "deleted" ELSE group[h]
      /\ \A i \in Items : item'[i] = IF GroupOf[i] = g THEN NoRow ELSE item[i]
  BY DEF Delete, TypeOK
<1>3. TypeOK'
  BY <1>1 DEF TypeOK, Delete
<1>4. Shape'
  BY <1>2 DEF Shape
<1>5. \A d \in Clients : lock # d
  BY <1>2, Constants
<1>6. Held' /\ ReadsStand' /\ Single'
  BY <1>2, <1>5 DEF Held, ReadsStand, Single
<1>7. Blank' /\ Unborn'
  BY <1>2, Constants DEF Blank, Unborn
<1>8. Tracked' /\ AttemptsCount'
  BY <1>2, <1>5, Constants DEF Tracked, AttemptsCount
<1> QED
  BY <1>3, <1>4, <1>6, <1>7, <1>8

-----------------------------------------------------------------------------
(* Visits that end with their item.                                        *)

\* The request has ended, or goes on with the other items.
LeftAs(c, i) ==
  \/ request'[c] = Idle /\ lock' = IF lock = c THEN None ELSE lock
  \/ /\ lock' = lock /\ request'[c] # Idle
     /\ request'[c].op = request[c].op /\ request'[c].group = request[c].group
     /\ request'[c].todo = request[c].todo \ {i}
     /\ request'[c].at = None /\ request'[c].made = None
     /\ \A k \in Items : k # i => request'[c].read[k] = request[c].read[k]

LEMMA EndLeaves ==
  ASSUME TypeOK, NEW c \in Clients, NEW i, End(c)
  PROVE  /\ request' \in [Clients -> Requests] /\ \A d \in Clients : d # c => request'[d] = request[d]
         /\ LeftAs(c, i)
<1>1. Idle \in Requests
  BY DEF Requests
<1> QED
  BY <1>1 DEF End, TypeOK, LeftAs

LEMMA LeaveLeaves ==
  ASSUME TypeOK, NEW c \in Clients, NEW i \in Items, request[c] # Idle, Leave(c, i)
  PROVE  /\ request' \in [Clients -> Requests] /\ \A d \in Clients : d # c => request'[d] = request[d]
         /\ LeftAs(c, i)
<1>1. CASE request[c].todo = {i}
  BY <1>1, EndLeaves DEF Leave
<1>2. CASE request[c].todo # {i}
  <2>1. request[c] \in Work
    BY Working DEF TypeOK
  <2> DEFINE r == request[c]
             n == [r EXCEPT !.todo = @ \ {i}, !.read[i] = NoRow, !.at = None, !.made = None]
  <2>2. request' = [request EXCEPT ![c] = n] /\ lock' = lock
    BY <1>2 DEF Leave, TypeOK
  <2>3. /\ n \in Work
        /\ n.op = r.op /\ n.group = r.group /\ n.todo = r.todo \ {i} /\ n.at = None /\ n.made = None
        /\ \A k \in Items : k # i => n.read[k] = r.read[k]
    <3> HIDE DEF r
    <3>1. n = [r EXCEPT !.todo = @ \ {i}, !.read[i] = NoRow, !.at = None, !.made = None]
      OBVIOUS
    <3>2. r \in Work
      BY <2>1 DEF r
    <3> HIDE DEF n
    <3>3. /\ n.op = r.op /\ n.group = r.group /\ n.todo = r.todo \ {i} /\ n.at = None /\ n.made = None
          /\ n.read = [r.read EXCEPT ![i] = NoRow]
      BY <3>1, <3>2 DEF Work
    <3>4. n = [op |-> n.op, group |-> n.group, todo |-> n.todo, read |-> n.read, at |-> n.at, made |-> n.made]
      BY <3>1, <3>2 DEF Work
    <3>5. /\ r.op \in {"create", "retry", "cancel"} /\ r.group \in Groups /\ r.todo \in SUBSET Items
          /\ r.read \in [Items -> RowsOf] /\ NoRow \in RowsOf
      BY <3>2 DEF Work, NoRow, RowsOf
    <3>6. n.read \in [Items -> RowsOf] /\ \A k \in Items : k # i => n.read[k] = r.read[k]
      BY <3>3, <3>5
    <3>7. n \in Work
      BY <3>3, <3>4, <3>5, <3>6 DEF Work
    <3> QED
      BY <3>3, <3>6, <3>7
  <2> HIDE DEF n
  <2>4. n \in Requests /\ n # Idle
    BY <2>3, WorkIsRequest
  <2>5. request'[c] = n /\ request' \in [Clients -> Requests] /\ \A d \in Clients : d # c => request'[d] = request[d]
    BY <2>2, <2>4 DEF TypeOK
  <2> QED
    BY <2>2, <2>3, <2>4, <2>5 DEF LeftAs
<1> QED
  BY <1>1, <1>2

\* It keeps the invariant if it leaves the item with the Job it made, or the one it
\* had, and with attempts that are allowed.
LEMMA LeavingKeeps ==
  ASSUME IInv, NEW c \in Clients, NEW i \in Items, request[c] # Idle, i \in request[c].todo,
         request' \in [Clients -> Requests], \A d \in Clients : d # c => request'[d] = request[d], LeftAs(c, i),
         UNCHANGED <<kind, group, maker, lost>>, item' \in [Items -> RowsOf], job' \in [Jobs -> JobStates],
         \A k \in Items : k # i => item'[k] = item[k],
         \A j \in Jobs : job'[j] = job[j] \/ (job[j] = "queued" /\ job'[j] = "cancelled"),
         lock = c =>
           /\ request[c].made = None => item'[i].job = item[i].job
           /\ request[c].made # None => request[c].at = i /\ item'[i].job = request[c].made
           /\ item[i].attempts <= item'[i].attempts /\ item'[i].attempts <= MaxAttempts
  PROVE  IInv'
<1> USE DEF IInv
<1>1. GroupOf[i] = request[c].group /\ (lock = c <=> kind[GroupOf[i]] # "batch")
  BY DEF Shape, Held
<1>2. TypeOK'
  <2>1. lock' \in Clients \cup {None}
    BY DEF LeftAs, TypeOK
  <2> QED
    BY <2>1 DEF TypeOK
<1>3. Shape'
  BY DEF Shape, LeftAs
<1>4. \A d \in Clients : lock' = d => lock = d
  BY Constants DEF LeftAs
<1>5. lock' = c => /\ request'[c] # Idle
                   /\ request'[c].op = request[c].op /\ request'[c].todo = request[c].todo \ {i}
                   /\ request'[c].at = None /\ request'[c].made = None
                   /\ \A k \in Items : k # i => request'[c].read[k] = request[c].read[k]
  BY Constants DEF LeftAs
<1>6. \A d \in Clients : d # c /\ lock = d => lock' = d
  BY DEF LeftAs
<1>7. Held'
  BY <1>4, <1>6, Constants DEF Held, LeftAs
<1>8. \A d \in Clients : d # c /\ lock = d => \A k \in Items : k \in request[d].todo => k # i
  BY <1>1 DEF Shape, Held
<1>9. Blank' /\ Unborn'
  BY <1>1 DEF Blank, Unborn, Held
<1>10. ReadsStand'
  <2> SUFFICES ASSUME NEW d \in Clients, NEW k \in Items, lock' = d, k \in request'[d].todo
               PROVE /\ request'[d].read[k].job = item'[k].job
                     /\ item'[k].attempts = IF request'[d].at = k /\ request'[d].made # None
                                            THEN request'[d].read[k].attempts + 1 ELSE request'[d].read[k].attempts
                     /\ request'[d].op \in {"create", "retry"} => request'[d].read[k].attempts < MaxAttempts
                     /\ request'[d].op = "create" => item'[k].job = None
    BY DEF ReadsStand
  <2>1. lock = d
    BY <1>4
  <2>2. CASE d = c
    <3>1. k # i /\ k \in request[c].todo /\ item'[k] = item[k] /\ request'[c].read[k] = request[c].read[k]
      BY <1>5, <2>2
    <3>2. ~(request[c].at = k /\ request[c].made # None)
      BY <2>1, <2>2, <3>1
    <3> QED
      BY <1>5, <2>1, <2>2, <3>1, <3>2 DEF ReadsStand
  <2>3. CASE d # c
    BY <1>8, <2>1, <2>3 DEF ReadsStand
  <2> QED
    BY <2>2, <2>3
<1>11. Tracked'
  <2> SUFFICES ASSUME NEW k \in Items, NEW j \in Jobs, kind[GroupOf[k]] # "batch", group[GroupOf[k]] = "stored",
                      k \notin lost, maker[j] = k, job'[j] \in Waiting
               PROVE  item'[k].job = j \/ \E d \in Clients : lock' = d /\ request'[d].at = k /\ request'[d].made = j
    BY DEF Tracked
  <2>1. job[j] \in Waiting
    BY DEF Waiting
  <2>2. item[k].job = j \/ \E d \in Clients : lock = d /\ request[d].at = k /\ request[d].made = j
    BY <2>1 DEF Tracked
  <2>3. CASE k = i
    <3>1. lock = c
      BY <1>1, <2>3
    <3>2. CASE request[c].made = None
      BY <2>2, <2>3, <3>1, <3>2, Constants
    <3>3. CASE request[c].made # None
      BY <2>1, <2>3, <3>1, <3>3 DEF Single
    <3> QED
      BY <3>2, <3>3
  <2>4. CASE k # i
    BY <2>2, <2>4, <1>6, Constants
  <2> QED
    BY <2>3, <2>4
<1>12. Single'
  <2> SUFFICES ASSUME NEW d \in Clients, lock' = d, request'[d].made # None
               PROVE /\ item'[request'[d].at].job = None \/ job'[item'[request'[d].at].job] = "failed"
                     /\ request'[d].at \notin lost =>
                          \A j \in Jobs : maker[j] = request'[d].at /\ job'[j] \in Waiting => j = request'[d].made
    BY DEF Single
  <2>1. d # c /\ lock = d /\ request'[d] = request[d]
    BY <1>4, <1>5
  <2>2. request[d].at \in Items /\ request[d].at # i
    <3>1. request[d].at # None /\ request[d].at \in request[d].todo /\ request[d].todo \subseteq Items
      BY <2>1, Working DEF Shape, Held, TypeOK
    <3> QED
      BY <3>1, <2>1, <1>8
  <2>3. item'[request[d].at] = item[request[d].at]
    BY <2>2
  <2>4. item[request[d].at].job \in Jobs \cup {None}
    BY <2>2 DEF TypeOK, RowsOf
  <2>5. item[request[d].at].job = None \/ job'[item[request[d].at].job] = "failed"
    BY <2>1, <2>4 DEF Single
  <2>6. request[d].at \notin lost =>
          \A j \in Jobs : maker[j] = request[d].at /\ job'[j] \in Waiting => j = request[d].made
    BY <2>1 DEF Single, Waiting
  <2> QED
    BY <2>1, <2>3, <2>5, <2>6
<1>13. AttemptsCount'
  <2> SUFFICES ASSUME NEW k \in Items, kind[GroupOf[k]] # "batch", group[GroupOf[k]] = "stored"
               PROVE /\ IsFiniteSet({j \in Jobs : maker[j] = k})
                     /\ Cardinality({j \in Jobs : maker[j] = k}) <= item'[k].attempts
                     /\ item'[k].attempts <= MaxAttempts
    BY DEF AttemptsCount
  <2>1. item[k].attempts <= item'[k].attempts /\ item'[k].attempts <= MaxAttempts
    <3>1. item[k].attempts \in Nat /\ item[k].attempts <= MaxAttempts
      BY DEF TypeOK, RowsOf, AttemptsCount
    <3> QED
      BY <1>1, <3>1, Constants
  <2> DEFINE made == {j \in Jobs : maker[j] = k}
  <2>2. IsFiniteSet(made) /\ Cardinality(made) <= item[k].attempts
    BY DEF AttemptsCount
  <2>3. Cardinality(made) \in Nat
    BY <2>2, FS_CardinalityType
  <2>4. item[k].attempts \in Nat /\ item'[k].attempts \in Nat
    BY DEF TypeOK, RowsOf
  <2> HIDE DEF made
  <2>5. Cardinality(made) <= item'[k].attempts
    BY <2>1, <2>2, <2>3, <2>4
  <2> QED
    BY <2>1, <2>2, <2>5 DEF made
<1> QED
  BY <1>2, <1>3, <1>7, <1>9, <1>10, <1>11, <1>12, <1>13

LEMMA LinkKeeps ==
  ASSUME IInv, NEW c \in Clients, NEW i \in Items, Link(c, i)
  PROVE  IInv'
<1> USE DEF IInv
<1>1. /\ request[c] # Idle /\ request[c].at = i /\ request[c].made # None /\ Leave(c, i)
      /\ UNCHANGED <<kind, group, job, maker, lost>>
      /\ item' = [item EXCEPT ![i].job = request[c].made, ![i].error = @ /\ ~request[c].read[i].error]
  BY DEF Link, LinkedTo
<1>2. i \in request[c].todo /\ request[c].made \in Jobs
  BY <1>1, Working, Constants DEF Shape, TypeOK
<1> DEFINE row == item[i]
           new == [row EXCEPT !.job = request[c].made, !.error = @ /\ ~request[c].read[i].error]
<1>3. item' = [item EXCEPT ![i] = new]
  BY <1>1 DEF TypeOK
<1>4. new \in RowsOf /\ new.job = request[c].made /\ new.attempts = row.attempts
  <2>1. row \in RowsOf
    BY DEF TypeOK
  <2> DEFINE made == request[c].made
             wrong == request[c].read[i].error
  <2>2. made \in Jobs /\ new = [row EXCEPT !.job = made, !.error = @ /\ ~wrong]
    BY <1>2
  <2> HIDE DEF row, new, made, wrong
  <2>3. new.job = made /\ new.attempts = row.attempts /\ new.error = (row.error /\ ~wrong)
    BY <2>1, <2>2 DEF RowsOf
  <2>4. new = [job |-> new.job, attempts |-> new.attempts, error |-> new.error]
    BY <2>1, <2>2 DEF RowsOf
  <2>5. new.error \in BOOLEAN
    BY <2>3, Zenon
  <2>6. new \in RowsOf
    BY <2>1, <2>2, <2>3, <2>4, <2>5 DEF RowsOf
  <2> QED
    BY <2>3, <2>6 DEF made
<1> HIDE DEF new
<1>5. item' \in [Items -> RowsOf] /\ item'[i] = new /\ \A k \in Items : k # i => item'[k] = item[k]
  BY <1>3, <1>4 DEF TypeOK
<1>6. lock = c => item[i].attempts <= MaxAttempts /\ item[i].attempts \in Nat
  BY <1>2, Constants DEF AttemptsCount, Shape, Held, TypeOK, RowsOf
<1>7. lock = c => /\ request[c].made = None => item'[i].job = item[i].job
                  /\ request[c].made # None => request[c].at = i /\ item'[i].job = request[c].made
                  /\ item[i].attempts <= item'[i].attempts /\ item'[i].attempts <= MaxAttempts
  BY <1>1, <1>4, <1>5, <1>6
<1>8. /\ request' \in [Clients -> Requests] /\ \A d \in Clients : d # c => request'[d] = request[d]
      /\ LeftAs(c, i)
  BY <1>1, LeaveLeaves
<1>9. job' \in [Jobs -> JobStates] /\ \A j \in Jobs : job'[j] = job[j]
  BY <1>1 DEF TypeOK
<1> HIDE DEF IInv
<1> QED
  BY <1>1, <1>2, <1>5, <1>7, <1>8, <1>9, LeavingKeeps

LEMMA SubmitsWhat ==
  ASSUME IInv, NEW c \in Clients, NEW i \in Items, Submits(c, i)
  PROVE  /\ request[c] # Idle /\ i \in request[c].todo /\ request[c].at = None /\ request[c].made = None
         /\ request[c].op \in {"create", "retry"}
         /\ request[c].read[i].attempts \in Nat
         /\ lock = c => /\ item[i].attempts = request[c].read[i].attempts
                        /\ item[i].attempts < MaxAttempts
                        /\ item[i].job = None \/ (item[i].job \in Jobs /\ job[item[i].job] = "failed")
         /\ lock = c <=> kind[GroupOf[i]] # "batch"
         /\ lock = c => group[GroupOf[i]] = "stored"
<1> USE DEF IInv
<1>1. /\ request[c] # Idle /\ i \in request[c].todo /\ request[c].at = None
      /\ request[c].op = "create" \/ (request[c].op = "retry" /\ Failed(request[c].read[i]))
  BY DEF Submits, Visits
<1>2. request[c].made = None
  BY <1>1 DEF Shape
<1>3. request[c].read[i] \in RowsOf
  BY <1>1, Working DEF TypeOK
<1>4. lock = c => /\ request[c].read[i].job = item[i].job
                  /\ item[i].attempts = request[c].read[i].attempts
                  /\ request[c].read[i].attempts < MaxAttempts
                  /\ request[c].op = "create" => item[i].job = None
  BY <1>1, <1>2 DEF ReadsStand
<1>5. request[c].op = "retry" => request[c].read[i].job = None \/ job[request[c].read[i].job] = "failed"
  BY <1>1 DEF Failed, JobState
<1>6. item[i].job \in Jobs \cup {None}
  BY DEF TypeOK, RowsOf
<1>7. GroupOf[i] = request[c].group
  BY <1>1 DEF Shape
<1> QED
  BY <1>1, <1>2, <1>3, <1>4, <1>5, <1>6, <1>7 DEF Held, RowsOf

LEMMA RefuseKeeps ==
  ASSUME IInv, NEW c \in Clients, NEW i \in Items, Refuse(c, i)
  PROVE  IInv'
<1>1. /\ request[c] # Idle /\ i \in request[c].todo /\ request[c].made = None
      /\ request[c].read[i].attempts \in Nat
      /\ lock = c => /\ item[i].attempts = request[c].read[i].attempts
                     /\ item[i].attempts < MaxAttempts
  BY SubmitsWhat DEF Refuse
<1> DEFINE row == item[i]
           n == request[c].read[i].attempts + 1
           new == [row EXCEPT !.attempts = n, !.error = TRUE]
<1>2. item' = [item EXCEPT ![i] = new]
  BY DEF Refuse, NextAttempts, IInv, TypeOK
<1>3. new \in RowsOf /\ new.job = row.job /\ new.attempts = n
  <2>1. row \in RowsOf /\ n \in Nat
    BY <1>1 DEF IInv, TypeOK
  <2> HIDE DEF row, n
  <2> QED
    BY <2>1 DEF RowsOf
<1> HIDE DEF new
<1>4. item' \in [Items -> RowsOf] /\ item'[i] = new /\ \A k \in Items : k # i => item'[k] = item[k]
  BY <1>2, <1>3 DEF IInv, TypeOK
<1>5. lock = c => /\ request[c].made = None => item'[i].job = item[i].job
                  /\ request[c].made # None => request[c].at = i /\ item'[i].job = request[c].made
                  /\ item[i].attempts <= item'[i].attempts /\ item'[i].attempts <= MaxAttempts
  BY <1>1, <1>3, <1>4, Constants
<1>6. /\ request' \in [Clients -> Requests] /\ \A d \in Clients : d # c => request'[d] = request[d]
      /\ LeftAs(c, i)
  BY <1>1, LeaveLeaves DEF Refuse, IInv
<1>7. /\ UNCHANGED <<kind, group, maker, lost>> /\ job' \in [Jobs -> JobStates]
      /\ \A j \in Jobs : job'[j] = job[j]
  BY DEF Refuse, IInv, TypeOK
<1> QED
  BY <1>1, <1>4, <1>5, <1>6, <1>7, LeavingKeeps

LEMMA SkipKeeps ==
  ASSUME IInv, NEW c \in Clients, NEW i \in Items, Skip(c, i)
  PROVE  IInv'
<1>1. request[c] # Idle /\ i \in request[c].todo /\ request[c].at = None /\ Leave(c, i)
  BY DEF Skip, Visits
<1>2. request[c].made = None
  BY <1>1 DEF IInv, Shape
<1>3. /\ request' \in [Clients -> Requests] /\ \A d \in Clients : d # c => request'[d] = request[d]
      /\ LeftAs(c, i)
  BY <1>1, LeaveLeaves DEF IInv
<1>4. /\ UNCHANGED <<kind, group, maker, lost>> /\ job' \in [Jobs -> JobStates] /\ item' \in [Items -> RowsOf]
      /\ \A j \in Jobs : job'[j] = job[j]
      /\ \A k \in Items : item'[k] = item[k]
  BY DEF Skip, IInv, TypeOK
<1>5. lock = c => item[i].attempts <= item'[i].attempts /\ item'[i].attempts <= MaxAttempts
  <2>1. item[i].attempts \in Nat
    BY DEF IInv, TypeOK, RowsOf
  <2>2. lock = c => item[i].attempts <= MaxAttempts
    BY <1>1, Constants DEF IInv, Shape, Held, AttemptsCount
  <2> QED
    BY <1>4, <2>1, <2>2
<1> QED
  BY <1>1, <1>2, <1>3, <1>4, <1>5, LeavingKeeps

LEMMA CancelSeenKeeps ==
  ASSUME IInv, NEW c \in Clients, NEW i \in Items, CancelSeen(c, i)
  PROVE  IInv'
<1>1. request[c] # Idle /\ request[c].op = "cancel" /\ request[c].at = i
  BY DEF CancelSeen
<1>2. request[c].made = None /\ i \in request[c].todo
  BY <1>1, Constants DEF IInv, Shape
<1>3. Leave(c, i) \/ End(c)
  BY DEF CancelSeen
<1>4. /\ request' \in [Clients -> Requests] /\ \A d \in Clients : d # c => request'[d] = request[d]
      /\ LeftAs(c, i)
  BY <1>1, <1>3, LeaveLeaves, EndLeaves DEF IInv
<1>5. /\ UNCHANGED <<kind, group, maker, lost>> /\ item' \in [Items -> RowsOf]
      /\ \A k \in Items : item'[k] = item[k]
  BY DEF CancelSeen, IInv, TypeOK
<1>6. job' \in [Jobs -> JobStates] /\ \A j \in Jobs : job'[j] = job[j] \/ (job[j] = "queued" /\ job'[j] = "cancelled")
  BY DEF CancelSeen, IInv, TypeOK, JobStates
<1>7. lock = c => item[i].attempts <= item'[i].attempts /\ item'[i].attempts <= MaxAttempts
  <2>1. item[i].attempts \in Nat
    BY DEF IInv, TypeOK, RowsOf
  <2>2. lock = c => item[i].attempts <= MaxAttempts
    BY <1>1, <1>2, Constants DEF IInv, Shape, Held, AttemptsCount
  <2> QED
    BY <1>5, <2>1, <2>2
<1> QED
  BY <1>1, <1>2, <1>4, <1>5, <1>6, <1>7, LeavingKeeps

-----------------------------------------------------------------------------
(* An item is taken up.                                                    *)

TakesUp(c, i, m) ==
  \/ request' = [request EXCEPT ![c].at = i, ![c].made = m]
  \/ request' = [request EXCEPT ![c].at = i] /\ request[c].made = m

LEMMA TakenUp ==
  ASSUME TypeOK, NEW c \in Clients, request[c] # Idle, NEW i \in Items, NEW m \in Jobs \cup {None}, TakesUp(c, i, m)
  PROVE  /\ request' \in [Clients -> Requests] /\ \A d \in Clients : d # c => request'[d] = request[d]
         /\ request'[c] # Idle /\ request'[c].op = request[c].op /\ request'[c].group = request[c].group
         /\ request'[c].todo = request[c].todo /\ request'[c].read = request[c].read
         /\ request'[c].at = i /\ request'[c].made = m
<1> DEFINE r == request[c]
           n == [op |-> r.op, group |-> r.group, todo |-> r.todo, read |-> r.read, at |-> i, made |-> m]
<1>1. request[c] \in Work
  BY Working DEF TypeOK
<1>2. n \in Work
  BY <1>1 DEF Work
<1>3. \/ request' = [request EXCEPT ![c] = [r EXCEPT !.at = i, !.made = m]]
      \/ request' = [request EXCEPT ![c] = [r EXCEPT !.at = i]] /\ r.made = m
  BY DEF TakesUp, TypeOK
<1>4. [r EXCEPT !.at = i, !.made = m] = n /\ (r.made = m => [r EXCEPT !.at = i] = n)
  <2>1. r \in Work
    BY <1>1
  <2> DEFINE both == [r EXCEPT !.at = i, !.made = m]
             one == [r EXCEPT !.at = i]
  <2> HIDE DEF r
  <2>2. both = [r EXCEPT !.at = i, !.made = m] /\ one = [r EXCEPT !.at = i]
    OBVIOUS
  <2> HIDE DEF both, one
  <2>3. /\ both.op = r.op /\ both.group = r.group /\ both.todo = r.todo /\ both.read = r.read
        /\ both.at = i /\ both.made = m
    BY <2>1, <2>2 DEF Work
  <2>4. /\ one.op = r.op /\ one.group = r.group /\ one.todo = r.todo /\ one.read = r.read
        /\ one.at = i /\ one.made = r.made
    BY <2>1, <2>2 DEF Work
  <2>5. both = [op |-> both.op, group |-> both.group, todo |-> both.todo, read |-> both.read, at |-> both.at,
                made |-> both.made]
    BY <2>1, <2>2 DEF Work
  <2>6. one = [op |-> one.op, group |-> one.group, todo |-> one.todo, read |-> one.read, at |-> one.at,
               made |-> one.made]
    BY <2>1, <2>2 DEF Work
  <2>7. both = n /\ (r.made = m => one = n)
    BY <2>3, <2>4, <2>5, <2>6
  <2> QED
    BY <2>7 DEF both, one
<1>5. request' = [request EXCEPT ![c] = n]
  BY <1>3, <1>4
<1>6. n \in Requests /\ n # Idle
  BY <1>2, WorkIsRequest
<1>7. /\ n.op = r.op /\ n.group = r.group /\ n.todo = r.todo /\ n.read = r.read /\ n.at = i /\ n.made = m
  OBVIOUS
<1> HIDE DEF n
<1>8. request'[c] = n /\ request' \in [Clients -> Requests] /\ \A d \in Clients : d # c => request'[d] = request[d]
  BY <1>5, <1>6 DEF TypeOK
<1> QED
  BY <1>6, <1>7, <1>8

LEMMA SeeQueuedKeeps ==
  ASSUME IInv, NEW c \in Clients, NEW i \in Items, SeeQueued(c, i)
  PROVE  IInv'
<1> USE DEF IInv
<1>1. /\ request[c] # Idle /\ i \in request[c].todo /\ request[c].op = "cancel" /\ request[c].at = None
      /\ UNCHANGED <<kind, group, item, job, lock, maker, lost>>
      /\ request' = [request EXCEPT ![c].at = i]
  BY DEF SeeQueued, Visits
<1>2. request[c].made = None
  BY <1>1 DEF Shape
<1>3. /\ request' \in [Clients -> Requests] /\ \A d \in Clients : d # c => request'[d] = request[d]
      /\ request'[c] # Idle /\ request'[c].op = request[c].op /\ request'[c].group = request[c].group
      /\ request'[c].todo = request[c].todo /\ request'[c].read = request[c].read
      /\ request'[c].at = i /\ request'[c].made = None
  <2>1. TakesUp(c, i, None)
    BY <1>1, <1>2 DEF TakesUp
  <2> QED
    BY <1>1, <2>1, TakenUp
<1>4. TypeOK'
  BY <1>1, <1>3 DEF TypeOK
<1>5. Shape'
  BY <1>1, <1>3 DEF Shape
<1>6. Held'
  BY <1>1, <1>3 DEF Held
<1>7. Blank' /\ Unborn' /\ AttemptsCount'
  BY <1>1 DEF Blank, Unborn, AttemptsCount
<1>8. ReadsStand'
  BY <1>1, <1>2, <1>3 DEF ReadsStand
<1>9. Tracked'
  BY <1>1, <1>2, <1>3, Constants DEF Tracked
<1>10. Single'
  BY <1>1, <1>2, <1>3, Constants DEF Single
<1> QED
  BY <1>4, <1>5, <1>6, <1>7, <1>8, <1>9, <1>10

LEMMA SubmitKeeps ==
  ASSUME IInv, NEW c \in Clients, NEW i \in Items, NEW j \in Jobs, Submit(c, i, j)
  PROVE  IInv'
<1>1. /\ request[c] # Idle /\ i \in request[c].todo /\ request[c].at = None /\ request[c].made = None
      /\ request[c].op \in {"create", "retry"}
      /\ request[c].read[i].attempts \in Nat
      /\ lock = c => /\ item[i].attempts = request[c].read[i].attempts
                     /\ item[i].attempts < MaxAttempts
                     /\ item[i].job = None \/ (item[i].job \in Jobs /\ job[item[i].job] = "failed")
      /\ lock = c <=> kind[GroupOf[i]] # "batch"
      /\ lock = c => group[GroupOf[i]] = "stored"
  BY SubmitsWhat DEF Submit
<1> USE DEF IInv
<1>2. /\ request' \in [Clients -> Requests] /\ \A d \in Clients : d # c => request'[d] = request[d]
      /\ request'[c] # Idle /\ request'[c].op = request[c].op /\ request'[c].group = request[c].group
      /\ request'[c].todo = request[c].todo /\ request'[c].read = request[c].read
      /\ request'[c].at = i /\ request'[c].made = j
  <2>1. TakesUp(c, i, j)
    BY DEF Submit, TakesUp
  <2> HIDE DEF IInv
  <2>2. TypeOK
    BY DEF IInv
  <2>3. j \in Jobs \cup {None} /\ request[c] # Idle
    BY <1>1
  <2> QED
    BY <2>1, <2>2, <2>3, TakenUp
<1>3. /\ job[j] = "absent" /\ maker[j] = None /\ j # None
      /\ job'[j] = "queued" /\ maker'[j] = i
      /\ \A k \in Jobs : k # j => job'[k] = job[k] /\ maker'[k] = maker[k]
      /\ job' \in [Jobs -> JobStates] /\ maker' \in [Jobs -> Items \cup {None}]
      /\ UNCHANGED <<kind, group, lock, lost>>
  BY Constants DEF Submit, Unborn, TypeOK, JobStates, Waiting
<1>4. /\ item' \in [Items -> RowsOf] /\ item'[i].job = item[i].job
      /\ item'[i].attempts = request[c].read[i].attempts + 1
      /\ \A k \in Items : k # i => item'[k] = item[k]
  <2> DEFINE row == item[i]
             n == request[c].read[i].attempts + 1
             new == [row EXCEPT !.attempts = n]
  <2>1. item' = [item EXCEPT ![i] = new]
    BY DEF Submit, NextAttempts, TypeOK
  <2>2. new \in RowsOf /\ new.job = row.job /\ new.attempts = n
    <3>1. row \in RowsOf /\ n \in Nat
      BY <1>1 DEF TypeOK
    <3> HIDE DEF row, n
    <3> QED
      BY <3>1 DEF RowsOf
  <2> HIDE DEF new
  <2> QED
    BY <2>1, <2>2 DEF TypeOK
<1>5. \A d \in Clients : d # c /\ lock = d => \A k \in Items : k \in request[d].todo => k # i
  BY <1>1 DEF Shape, Held
<1>6. TypeOK'
  BY <1>2, <1>3, <1>4 DEF TypeOK
<1>7. Shape'
  BY <1>1, <1>2, <1>3, Constants DEF Shape
<1>8. Held'
  BY <1>1, <1>2, <1>3 DEF Held
<1>9. Blank'
  BY <1>1, <1>3, <1>4 DEF Blank
<1>10. Unborn'
  BY <1>3 DEF Unborn
<1>11. ReadsStand'
  <2> SUFFICES ASSUME NEW d \in Clients, NEW k \in Items, lock = d, k \in request'[d].todo
               PROVE /\ request'[d].read[k].job = item'[k].job
                     /\ item'[k].attempts = IF request'[d].at = k /\ request'[d].made # None
                                            THEN request'[d].read[k].attempts + 1 ELSE request'[d].read[k].attempts
                     /\ request'[d].op \in {"create", "retry"} => request'[d].read[k].attempts < MaxAttempts
                     /\ request'[d].op = "create" => item'[k].job = None
    BY <1>3 DEF ReadsStand
  <2>1. CASE d = c /\ k = i
    BY <1>1, <1>2, <1>3, <1>4, <2>1 DEF ReadsStand
  <2>2. CASE d = c /\ k # i
    BY <1>1, <1>2, <1>4, <2>2, Constants DEF ReadsStand
  <2>3. CASE d # c
    BY <1>2, <1>4, <1>5, <2>3 DEF ReadsStand
  <2> QED
    BY <2>1, <2>2, <2>3
<1>12. Tracked'
  <2> SUFFICES ASSUME NEW k \in Items, NEW l \in Jobs, kind[GroupOf[k]] # "batch", group[GroupOf[k]] = "stored",
                      k \notin lost, maker'[l] = k, job'[l] \in Waiting
               PROVE  item'[k].job = l \/ \E d \in Clients : lock = d /\ request'[d].at = k /\ request'[d].made = l
    BY <1>3 DEF Tracked
  <2>1. CASE l = j
    BY <1>1, <1>2, <1>3, <2>1
  <2>2. CASE l # j
    <3>1. item[k].job = l \/ \E d \in Clients : lock = d /\ request[d].at = k /\ request[d].made = l
      BY <1>3, <2>2 DEF Tracked
    <3>2. item'[k].job = item[k].job
      BY <1>4
    <3> QED
      BY <1>1, <1>2, <3>1, <3>2, Constants
  <2> QED
    BY <2>1, <2>2
<1>13. Single'
  <2> SUFFICES ASSUME NEW d \in Clients, lock = d, request'[d].made # None
               PROVE /\ item'[request'[d].at].job = None \/ job'[item'[request'[d].at].job] = "failed"
                     /\ request'[d].at \notin lost =>
                          \A l \in Jobs : maker'[l] = request'[d].at /\ job'[l] \in Waiting => l = request'[d].made
    BY <1>3 DEF Single
  <2>1. CASE d = c
    <3>1. item'[i].job = None \/ job'[item'[i].job] = "failed"
      BY <1>1, <1>3, <1>4, <2>1
    <3>2. ASSUME i \notin lost, NEW l \in Jobs, maker'[l] = i, job'[l] \in Waiting, l # j
          PROVE  FALSE
      <4>1. item[i].job = l \/ \E e \in Clients : lock = e /\ request[e].at = i /\ request[e].made = l
        BY <1>1, <1>3, <2>1, <3>2 DEF Tracked
      <4>2. item[i].job # l
        BY <1>1, <1>3, <2>1, <3>2, Constants DEF Waiting
      <4> QED
        BY <1>1, <2>1, <4>1, <4>2, Constants
    <3> QED
      BY <1>2, <2>1, <3>1, <3>2
  <2>2. CASE d # c
    <3>1. request'[d] = request[d] /\ request[d] # Idle
      BY <1>2, <2>2 DEF Held
    <3>2. request[d].at \in Items /\ request[d].at # i
      <4>1. request[d].at # None /\ request[d].at \in request[d].todo /\ request[d].todo \subseteq Items
        BY <3>1, Working DEF Shape, TypeOK
      <4> QED
        BY <4>1, <1>5, <2>2
    <3>3. item'[request[d].at] = item[request[d].at]
      BY <1>4, <3>2
    <3>4. item[request[d].at].job \in Jobs \cup {None}
      BY <3>2 DEF TypeOK, RowsOf
    <3>5. item[request[d].at].job = None \/ job'[item[request[d].at].job] = "failed"
      BY <1>3, <3>1, <3>4 DEF Single
    <3>6. request[d].at \notin lost =>
            \A l \in Jobs : maker'[l] = request[d].at /\ job'[l] \in Waiting => l = request[d].made
      BY <1>3, <3>1, <3>2 DEF Single
    <3> QED
      BY <3>1, <3>3, <3>5, <3>6
  <2> QED
    BY <2>1, <2>2
<1>14. AttemptsCount'
  <2> SUFFICES ASSUME NEW k \in Items, kind[GroupOf[k]] # "batch", group[GroupOf[k]] = "stored"
               PROVE /\ IsFiniteSet({l \in Jobs : maker'[l] = k})
                     /\ Cardinality({l \in Jobs : maker'[l] = k}) <= item'[k].attempts
                     /\ item'[k].attempts <= MaxAttempts
    BY <1>3 DEF AttemptsCount
  <2> DEFINE made == {l \in Jobs : maker[l] = k}
             after == {l \in Jobs : maker'[l] = k}
  <2>1. IsFiniteSet(made) /\ Cardinality(made) <= item[k].attempts /\ item[k].attempts <= MaxAttempts
    BY DEF AttemptsCount
  <2>2. Cardinality(made) \in Nat /\ item[k].attempts \in Nat
    <3> HIDE DEF made
    <3> QED
      BY <2>1, FS_CardinalityType DEF TypeOK, RowsOf
  <2>3. CASE k = i
    <3>1. after = made \cup {j} /\ j \notin made
      BY <1>3, <2>3, Constants
    <3>2. item'[i].attempts = item[i].attempts + 1 /\ item'[i].attempts <= MaxAttempts
      BY <1>1, <1>4, <2>2, <2>3, Constants
    <3> HIDE DEF made, after
    <3>3. IsFiniteSet(after) /\ Cardinality(after) = Cardinality(made) + 1
      BY <2>1, <3>1, FS_AddElement
    <3>4. IsFiniteSet(after) /\ Cardinality(after) <= item'[k].attempts
      BY <2>1, <2>2, <2>3, <3>2, <3>3
    <3> QED
      BY <2>3, <3>2, <3>4 DEF after
  <2>4. CASE k # i
    <3>1. after = made
      BY <1>3, <2>4, Constants
    <3> HIDE DEF made, after
    <3>2. IsFiniteSet(after) /\ Cardinality(after) <= item'[k].attempts /\ item'[k].attempts <= MaxAttempts
      BY <1>4, <2>1, <2>4, <3>1
    <3> QED
      BY <3>2 DEF after
  <2> QED
    BY <2>3, <2>4
<1> QED
  BY <1>6, <1>7, <1>8, <1>9, <1>10, <1>11, <1>12, <1>13, <1>14

-----------------------------------------------------------------------------
(* The rest of the system.                                                 *)

\* Jobs only go on, and what failed stays so.
LEMMA JobsMoveOn ==
  ASSUME IInv, UNCHANGED <<kind, group, item, request, lock, maker, lost>>, job' \in [Jobs -> JobStates],
         \A j \in Jobs : /\ job'[j] \in Waiting /\ maker[j] # None => job[j] \in Waiting
                         /\ job[j] = "failed" => job'[j] = "failed"
                         /\ job'[j] = "absent" => job[j] = "absent"
  PROVE  IInv'
<1> USE DEF IInv
<1>1. TypeOK' /\ Shape' /\ Held'
  BY DEF TypeOK, Shape, Held
<1>2. Blank' /\ Unborn' /\ ReadsStand' /\ AttemptsCount'
  BY DEF Blank, Unborn, ReadsStand, AttemptsCount
<1>3. Tracked'
  BY Constants DEF Tracked
<1>4. Single'
  <2> SUFFICES ASSUME NEW d \in Clients, lock = d, request[d].made # None
               PROVE /\ item[request[d].at].job = None \/ job'[item[request[d].at].job] = "failed"
                     /\ request[d].at \notin lost =>
                          \A j \in Jobs : maker[j] = request[d].at /\ job'[j] \in Waiting => j = request[d].made
    BY DEF Single
  <2>1. request[d].at \in Items
    <3>1. request[d] # Idle
      BY DEF Held
    <3> QED
      BY <3>1, Working DEF Shape, TypeOK
  <2>2. item[request[d].at].job \in Jobs \cup {None}
    BY <2>1 DEF TypeOK, RowsOf
  <2> QED
    BY <2>1, <2>2, Constants DEF Single
<1> QED
  BY <1>1, <1>2, <1>3, <1>4

LEMMA SubmitAloneKeeps ==
  ASSUME IInv, NEW j \in Jobs, SubmitAlone(j)
  PROVE  IInv'
<1>1. /\ job' \in [Jobs -> JobStates] /\ job[j] = "absent" /\ job'[j] = "queued" /\ maker[j] = None
      /\ \A k \in Jobs : k # j => job'[k] = job[k]
      /\ UNCHANGED <<kind, group, item, request, lock, maker, lost>>
  BY DEF SubmitAlone, IInv, TypeOK, Unborn, JobStates, Waiting
<1>2. \A k \in Jobs : /\ job'[k] \in Waiting /\ maker[k] # None => job[k] \in Waiting
                      /\ job[k] = "failed" => job'[k] = "failed"
                      /\ job'[k] = "absent" => job[k] = "absent"
  BY <1>1
<1> QED
  BY <1>1, <1>2, JobsMoveOn

LEMMA MoveKeeps ==
  ASSUME IInv, NEW j \in Jobs, Move(j)
  PROVE  IInv'
<1>1. /\ job' \in [Jobs -> JobStates] /\ job[j] \in Waiting /\ job'[j] # "absent"
      /\ \A k \in Jobs : k # j => job'[k] = job[k]
      /\ UNCHANGED <<kind, group, item, request, lock, maker, lost>>
  BY DEF Move, Moves, IInv, TypeOK, JobStates, Waiting
<1>2. \A k \in Jobs : /\ job'[k] \in Waiting /\ maker[k] # None => job[k] \in Waiting
                      /\ job[k] = "failed" => job'[k] = "failed"
                      /\ job'[k] = "absent" => job[k] = "absent"
  BY <1>1 DEF Waiting
<1> QED
  BY <1>1, <1>2, JobsMoveOn

LEMMA CrashKeeps ==
  ASSUME IInv, Crash
  PROVE  IInv'
<1> USE DEF IInv
<1> DEFINE inHand == {request[c].at : c \in {d \in Clients : request[d] # Idle /\ request[d].made # None}}
<1>1. /\ \A c \in Clients : request'[c] = Idle /\ lock' # c
      /\ lock' = None /\ lost' = lost \cup inHand /\ UNCHANGED <<kind, group, item, maker>>
      /\ \A j \in Jobs : job'[j] = IF job[j] = "running" THEN "failed" ELSE job[j]
  BY Constants DEF Crash
<1>2. inHand \subseteq Items
  <2> SUFFICES ASSUME NEW c \in Clients, request[c] # Idle, request[c].made # None
               PROVE  request[c].at \in Items
    OBVIOUS
  <2> QED
    BY Working DEF Shape, TypeOK
<1>3. TypeOK'
  <2>1. request' \in [Clients -> Requests] /\ job' \in [Jobs -> JobStates]
    BY DEF Crash, Requests, TypeOK, JobStates
  <2> QED
    BY <1>1, <1>2, <2>1 DEF TypeOK
<1>4. Shape' /\ Held' /\ ReadsStand' /\ Single'
  BY <1>1 DEF Shape, Held, ReadsStand, Single
<1>5. Blank' /\ Unborn' /\ AttemptsCount'
  BY <1>1 DEF Blank, Unborn, AttemptsCount
<1>6. Tracked'
  <2> SUFFICES ASSUME NEW i \in Items, NEW j \in Jobs, kind[GroupOf[i]] # "batch", group[GroupOf[i]] = "stored",
                      i \notin lost', maker[j] = i, job'[j] \in Waiting
               PROVE  item[i].job = j
    BY <1>1 DEF Tracked
  <2>1. job[j] \in Waiting /\ i \notin lost /\ i \notin inHand
    BY <1>1 DEF Waiting
  <2>2. item[i].job = j \/ \E d \in Clients : lock = d /\ request[d].at = i /\ request[d].made = j
    BY <2>1 DEF Tracked
  <2>3. ASSUME NEW d \in Clients, lock = d, request[d].at = i, request[d].made = j
        PROVE  FALSE
    <3>1. request[d] # Idle /\ request[d].made # None
      BY <2>3, Constants DEF Held
    <3> QED
      BY <2>1, <2>3, <3>1
  <2> QED
    BY <2>2, <2>3
<1> QED
  BY <1>3, <1>4, <1>5, <1>6

-----------------------------------------------------------------------------
LEMMA IInvNext == IInv /\ [Next]_vars => IInv'
<1> SUFFICES ASSUME IInv, [Next]_vars PROVE IInv'
  OBVIOUS
<1>1. CASE UNCHANGED vars
  BY <1>1 DEF vars, IInv, TypeOK, Shape, Held, Blank, Unborn, ReadsStand, Tracked, Single, AttemptsCount
<1>2. ASSUME NEW c \in Clients, NEW g \in Groups,
             StoreGroup(c, g) \/ Retry(c, g) \/ CancelPending(c, g) \/ Delete(c, g)
      PROVE  IInv'
  BY <1>2, StoreGroupKeeps, RetryKeeps, CancelPendingKeeps, DeleteKeeps
<1>3. ASSUME NEW c \in Clients, NEW i \in Items, Visit(c, i)
      PROVE  IInv'
  BY <1>3, SubmitKeeps, LinkKeeps, RefuseKeeps, SkipKeeps, SeeQueuedKeeps, CancelSeenKeeps DEF Visit
<1>4. ASSUME NEW j \in Jobs, SubmitAlone(j) \/ Move(j)
      PROVE  IInv'
  BY <1>4, SubmitAloneKeeps, MoveKeeps
<1>5. CASE Crash
  BY <1>5, CrashKeeps
<1> QED
  BY <1>1, <1>2, <1>3, <1>4, <1>5 DEF Next

\* Rows, requests and the lock fit together throughout: what the holder of the
\* lock read when its request began (operations.py) still stands when it is used.
THEOREM GroupsInvariant == Spec => []IInv
<1>1. Init => IInv
  BY IInvInit
<1>2. IInv /\ [Next]_vars => IInv'
  BY IInvNext
<1> QED
  BY <1>1, <1>2, PTL DEF Spec

\* Two Jobs of one item would both be the Job it shows or the one in hand, and
\* with one in hand there is no other.
LEMMA AtMostOneActive ==
  ASSUME IInv, NEW i \in Experiments \ lost, NEW j \in Active(Made(i)), NEW k \in Active(Made(i))
  PROVE  j = k
<1>1. /\ i \in Items /\ kind[GroupOf[i]] # "batch" /\ group[GroupOf[i]] = "stored" /\ i \notin lost
      /\ j \in Jobs /\ maker[j] = i /\ job[j] \in Waiting
      /\ k \in Jobs /\ maker[k] = i /\ job[k] \in Waiting
  BY DEF Experiments, KindOf, Active, Made
<1>2. /\ item[i].job = j \/ \E d \in Clients : lock = d /\ request[d].at = i /\ request[d].made = j
      /\ item[i].job = k \/ \E d \in Clients : lock = d /\ request[d].at = i /\ request[d].made = k
  BY <1>1 DEF IInv, Tracked
<1>3. ASSUME NEW d \in Clients, lock = d, request[d].at = i, request[d].made \in Jobs
      PROVE  j = k
  BY <1>1, <1>3, Constants DEF IInv, Single
<1> QED
  BY <1>1, <1>2, <1>3

\* No item of an experiment has two Jobs waiting or running, however requests
\* overlap, unless a process end lost sight of one.
THEOREM OneJobAtATime == Spec => []OneLiveJob
<1>1. ASSUME IInv PROVE OneLiveJob
  <2> SUFFICES ASSUME NEW i \in Experiments \ lost
               PROVE  Cardinality(Active(Made(i))) <= 1
    BY DEF OneLiveJob
  <2> DEFINE live == Active(Made(i))
  <2>1. \A j, k \in live : j = k
    BY <1>1, AtMostOneActive
  <2> HIDE DEF live
  <2>2. Cardinality(live) <= 1
    <3>1. CASE live = {}
      BY <3>1, FS_EmptySet
    <3>2. CASE live # {}
      <4>1. PICK j \in live : live = {j}
        BY <2>1, <3>2
      <4> QED
        BY <4>1, FS_Singleton
    <3> QED
      BY <3>1, <3>2
  <2> QED
    BY <2>2 DEF live
<1> QED
  BY <1>1, GroupsInvariant, PTL

\* Attempts, written with the Job, cover the Jobs submitted for an item whatever
\* happens to the link that is written after it, and what is active is in sight.
THEOREM JobsAreAccounted == Spec => []JobsAccounted
<1>1. ASSUME IInv PROVE AttemptsCoverJobs
  BY <1>1 DEF IInv, AttemptsCount, AttemptsCoverJobs, Experiments, KindOf, Made
<1>2. ASSUME IInv PROVE JobsTracked
  <2> SUFFICES ASSUME NEW i \in Experiments \ lost, NEW j \in Active(Made(i))
               PROVE  \/ item[i].job = j
                      \/ \E c \in Clients : request[c] # Idle /\ request[c].at = i /\ request[c].made = j
    BY DEF JobsTracked
  <2>1. /\ i \in Items /\ kind[GroupOf[i]] # "batch" /\ group[GroupOf[i]] = "stored" /\ i \notin lost
        /\ j \in Jobs /\ maker[j] = i /\ job[j] \in Waiting
    BY DEF Experiments, KindOf, Active, Made
  <2>2. item[i].job = j \/ \E d \in Clients : lock = d /\ request[d].at = i /\ request[d].made = j
    BY <1>2, <2>1 DEF IInv, Tracked
  <2> QED
    BY <1>2, <2>2 DEF IInv, Held
<1>3. IInv => JobsAccounted
  BY <1>1, <1>2 DEF JobsAccounted
<1> QED
  BY <1>3, GroupsInvariant, PTL

\* Nothing but the deletion of its experiment touches an item whose Job succeeded.
LEMMA SettledStays ==
  ASSUME IInv, [Next]_vars
  PROVE  SettledItemStays
<1> SUFFICES ASSUME NEW i \in Experiments, JobState(item[i]) = "succeeded", item'[i] # item[i]
             PROVE  group'[GroupOf[i]] = "deleted"
  BY DEF SettledItemStays
<1>1. /\ i \in Items /\ kind[GroupOf[i]] # "batch" /\ group[GroupOf[i]] = "stored"
      /\ item[i].job # None /\ job[item[i].job] = "succeeded"
  BY DEF Experiments, KindOf, JobState
<1>2. ASSUME NEW c \in Clients, Submits(c, i) PROVE FALSE
  BY <1>1, <1>2, SubmitsWhat
<1>3. ASSUME NEW c \in Clients, Link(c, i) PROVE FALSE
  <2>1. request[c] # Idle /\ request[c].at = i /\ request[c].made # None
    BY <1>3 DEF Link
  <2>2. i \in request[c].todo
    BY <2>1, <1>1, Constants DEF IInv, Shape
  <2>3. lock = c
    BY <2>1, <2>2, <1>1 DEF IInv, Shape, Held
  <2> QED
    BY <2>1, <2>3, <1>1 DEF IInv, Single
<1>4. item \in [Items -> RowsOf]
  BY DEF IInv, TypeOK
<1>5. ASSUME NEW c \in Clients, NEW k \in Items, Visit(c, k) PROVE FALSE
  <2>1. CASE \E j \in Jobs : Submit(c, k, j)
    <3>1. k = i
      BY <2>1, <1>4 DEF Submit
    <3> QED
      BY <2>1, <3>1, <1>2 DEF Submit
  <2>2. CASE Link(c, k)
    <3> DEFINE new == [item[k] EXCEPT !.job = request[c].made, !.error = @ /\ ~request[c].read[k].error]
    <3>1. k = i
      <4>1. item' = [item EXCEPT ![k] = new]
        BY <2>2, <1>4 DEF Link, LinkedTo
      <4> HIDE DEF new
      <4> QED
        BY <4>1, <1>1, <1>4
    <3> QED
      BY <2>2, <3>1, <1>3
  <2>3. CASE Refuse(c, k)
    <3> DEFINE new == [item[k] EXCEPT !.attempts = NextAttempts(c, k), !.error = TRUE]
    <3>1. k = i
      <4>1. item' = [item EXCEPT ![k] = new]
        BY <2>3, <1>4 DEF Refuse
      <4> HIDE DEF new
      <4> QED
        BY <4>1, <1>1, <1>4
    <3> QED
      BY <2>3, <3>1, <1>2 DEF Refuse
  <2>4. CASE Skip(c, k) \/ SeeQueued(c, k) \/ CancelSeen(c, k)
    BY <2>4 DEF Skip, SeeQueued, CancelSeen
  <2> QED
    BY <1>5, <2>1, <2>2, <2>3, <2>4 DEF Visit
<1>6. ASSUME NEW c \in Clients, NEW g \in Groups, Delete(c, g)
      PROVE  group'[GroupOf[i]] = "deleted"
  <2>1. GroupOf[i] = g
    BY <1>1, <1>6 DEF Delete
  <2> QED
    BY <1>6, <2>1 DEF Delete, IInv, TypeOK
<1>7. ASSUME NEW c \in Clients, NEW g \in Groups, StoreGroup(c, g) \/ Retry(c, g) \/ CancelPending(c, g)
      PROVE  FALSE
  BY <1>7 DEF StoreGroup, Retry, CancelPending
<1>8. ASSUME NEW j \in Jobs, SubmitAlone(j) \/ Move(j) PROVE FALSE
  BY <1>8 DEF SubmitAlone, Move
<1>9. CASE Crash
  BY <1>9 DEF Crash
<1>10. CASE UNCHANGED vars
  BY <1>10 DEF vars
<1> QED
  BY <1>5, <1>6, <1>7, <1>8, <1>9, <1>10 DEF Next

\* An item that has its result keeps it: the retry that would replace it read
\* its Job as failed, and what failed never succeeds.
THEOREM ResultsAreKept == Spec => ResultsStay
<1>1. IInv /\ [Next]_vars => [SettledItemStays]_vars
  BY SettledStays
<1> QED
  BY <1>1, GroupsInvariant, PTL DEF Spec, ResultsStay

-----------------------------------------------------------------------------
(* Capacity.  The check counts what is active when a request begins; from  *)
(* then on the request may submit one Job for each item it has not yet     *)
(* submitted for, and it is the only one that submits for such a group.    *)

Limited == {"experiment", "standalone"}
LiveOf(k) == Active(Submitted(k))

\* A process end hides what an experiment without Project has running.
InSight(k) == k = "experiment" \/ \A i \in lost : KindOf(i) # "standalone"

\* What c may still submit for.
Owed(c) ==
  IF request[c].op = "cancel" THEN {}
  ELSE IF request[c].made = None THEN request[c].todo ELSE request[c].todo \ {request[c].at}

Known == {j \in Jobs : job[j] # "absent"}
Recorded == IsFiniteSet(Known)
OnlyProjectsDelete == \A g \in Groups : group[g] = "deleted" => kind[g] = "experiment"

RoomLeft ==
  \A c \in Clients, k \in Limited : lock = c /\ kind[request[c].group] = k /\ InSight(k) =>
    Cardinality(LiveOf(k)) + Cardinality(Owed(c)) <= MaxActive

WithinLimit == \A k \in Limited : InSight(k) => Cardinality(LiveOf(k)) <= MaxActive

CapInv == Recorded /\ OnlyProjectsDelete /\ RoomLeft /\ WithinLimit

LEMMA LiveIsFinite ==
  ASSUME Recorded, NEW k
  PROVE  IsFiniteSet(LiveOf(k)) /\ Cardinality(LiveOf(k)) \in Nat
<1>1. LiveOf(k) \subseteq Known
  BY DEF LiveOf, Active, Submitted, Known, Waiting
<1> HIDE DEF LiveOf, Known
<1> QED
  BY <1>1, FS_Subset, FS_CardinalityType DEF Recorded

LEMMA OwedIsFinite ==
  ASSUME TypeOK, NEW c \in Clients, request[c] # Idle
  PROVE  Owed(c) \subseteq Items /\ IsFiniteSet(Owed(c)) /\ Cardinality(Owed(c)) \in Nat
<1>1. Owed(c) \subseteq Items
  BY Working DEF Owed, TypeOK
<1>2. IsFiniteSet(Items)
  BY GroupsAssumption
<1> HIDE DEF Owed
<1> QED
  BY <1>1, <1>2, FS_Subset, FS_CardinalityType

LEMMA CapInit == Init => CapInv
<1> SUFFICES ASSUME Init PROVE CapInv
  OBVIOUS
<1>1. Known = {} /\ \A k : LiveOf(k) = {}
  BY DEF Init, Known, LiveOf, Active, Waiting, Submitted
<1>2. Recorded
  BY <1>1, FS_EmptySet DEF Recorded
<1>3. WithinLimit
  BY <1>1, FS_EmptySet, Constants DEF WithinLimit
<1>4. OnlyProjectsDelete /\ RoomLeft
  BY Constants DEF Init, OnlyProjectsDelete, RoomLeft
<1> QED
  BY <1>2, <1>3, <1>4 DEF CapInv

\* A step after which no more is active, and no more is owed by who held the lock.
LEMMA CapStep ==
  ASSUME IInv, IInv', CapInv, Recorded', OnlyProjectsDelete', UNCHANGED kind, lost \subseteq lost',
         \A k \in Limited : LiveOf(k)' \subseteq LiveOf(k),
         \A c \in Clients : lock' = c =>
            \/ Owed(c)' = {}
            \/ lock = c /\ request'[c].group = request[c].group /\ Owed(c)' \subseteq Owed(c)
  PROVE  CapInv'
<1>1. ASSUME NEW k \in Limited
      PROVE  /\ InSight(k)' => InSight(k)
             /\ Cardinality(LiveOf(k)) \in Nat /\ Cardinality(LiveOf(k)') \in Nat
             /\ Cardinality(LiveOf(k)') <= Cardinality(LiveOf(k))
  <2>1. InSight(k)' => InSight(k)
    BY DEF InSight, KindOf
  <2>2. IsFiniteSet(LiveOf(k)) /\ Cardinality(LiveOf(k)) \in Nat
    BY LiveIsFinite DEF CapInv
  <2>3. LiveOf(k)' \subseteq LiveOf(k)
    OBVIOUS
  <2> DEFINE now == LiveOf(k)
             then == LiveOf(k)'
  <2> HIDE DEF now, then
  <2>4. IsFiniteSet(now) /\ then \subseteq now
    BY <2>2, <2>3 DEF now, then
  <2>5. IsFiniteSet(then) /\ Cardinality(then) <= Cardinality(now) /\ Cardinality(then) \in Nat
    BY <2>4, FS_Subset, FS_CardinalityType
  <2> QED
    BY <2>1, <2>2, <2>5 DEF now, then
<1>2. WithinLimit'
  <2> SUFFICES ASSUME NEW k \in Limited, InSight(k)' PROVE Cardinality(LiveOf(k)') <= MaxActive
    BY DEF WithinLimit
  <2>1. Cardinality(LiveOf(k)) <= MaxActive
    BY <1>1 DEF CapInv, WithinLimit
  <2> QED
    BY <1>1, <2>1, Constants
<1>3. RoomLeft'
  <2> SUFFICES ASSUME NEW c \in Clients, NEW k \in Limited, lock' = c, kind'[request'[c].group] = k, InSight(k)'
               PROVE  Cardinality(LiveOf(k)') + Cardinality(Owed(c)') <= MaxActive
    BY DEF RoomLeft
  <2>1. CASE Owed(c)' = {}
    <3>1. Cardinality(Owed(c)') = 0
      BY <2>1, FS_EmptySet
    <3>2. Cardinality(LiveOf(k)') <= MaxActive
      BY <1>2 DEF WithinLimit
    <3> QED
      BY <1>1, <3>1, <3>2, Constants
  <2>2. CASE lock = c /\ request'[c].group = request[c].group /\ Owed(c)' \subseteq Owed(c)
    <3>1. IsFiniteSet(Owed(c)) /\ Cardinality(Owed(c)) \in Nat
      BY <2>2, OwedIsFinite DEF IInv, Held
    <3> DEFINE now == Owed(c)
               then == Owed(c)'
    <3>2. Cardinality(then) \in Nat /\ Cardinality(then) <= Cardinality(now)
      <4>1. then \subseteq now /\ IsFiniteSet(now)
        BY <2>2, <3>1
      <4> HIDE DEF now, then
      <4> QED
        BY <4>1, FS_Subset, FS_CardinalityType
    <3>3. Cardinality(LiveOf(k)) + Cardinality(Owed(c)) <= MaxActive
      BY <1>1, <2>2 DEF CapInv, RoomLeft
    <3> QED
      BY <1>1, <3>1, <3>2, <3>3, Constants
  <2> QED
    BY <2>1, <2>2
<1> QED
  BY <1>2, <1>3 DEF CapInv

\* Jobs recorded before stay so, and no more are active.
LEMMA CapQuiet ==
  ASSUME IInv, IInv', CapInv, UNCHANGED <<kind, maker>>, lost \subseteq lost',
         \A j \in Jobs : /\ job[j] = "absent" => job'[j] = "absent" \/ maker[j] = None
                         /\ job'[j] \in Waiting /\ maker[j] # None => job[j] \in Waiting,
         Recorded',
         \A g \in Groups : group'[g] = "deleted" => group[g] = "deleted" \/ kind[g] = "experiment",
         \A c \in Clients : lock' = c =>
            \/ Owed(c)' = {}
            \/ lock = c /\ request'[c].group = request[c].group /\ Owed(c)' \subseteq Owed(c)
  PROVE  CapInv'
<1>1. OnlyProjectsDelete'
  BY DEF CapInv, OnlyProjectsDelete
<1>2. ASSUME NEW k \in Limited PROVE LiveOf(k)' \subseteq LiveOf(k)
  BY DEF LiveOf, Active, Submitted, KindOf
<1> QED
  BY <1>1, <1>2, CapStep

\* Recording goes on one Job at a time.
LEMMA RecordedKept ==
  ASSUME Recorded, NEW x, \A j \in Jobs : job[j] = "absent" => job'[j] = "absent" \/ j = x
  PROVE  Recorded'
<1> DEFINE now == Known
           then == Known'
<1>1. then \subseteq now \cup {x} /\ IsFiniteSet(now)
  BY DEF Known, Recorded
<1> HIDE DEF now, then
<1>2. IsFiniteSet(then)
  BY <1>1, FS_AddElement, FS_Subset
<1> QED
  BY <1>2 DEF Recorded, then

-----------------------------------------------------------------------------
(* Capacity, step by step.                                                 *)

\* What is active for groups of this kind is counted, unless out of sight.
LEMMA CountedAll ==
  ASSUME IInv, CapInv, lock = None, NEW g \in Groups, kind[g] # "batch", InSight(kind[g])
  PROVE  LiveOf(kind[g]) \subseteq Active(Counted(g))
<1> SUFFICES ASSUME NEW j \in Jobs, maker[j] # None, KindOf(maker[j]) = kind[g], job[j] \in Waiting
             PROVE  j \in Counted(g)
  BY DEF LiveOf, Active, Submitted
<1>1. kind[g] \in {"experiment", "standalone"} /\ maker[j] \in Items
  BY DEF IInv, TypeOK, Kinds
<1>2. CASE kind[g] = "experiment"
  BY <1>2 DEF Counted
<1>3. CASE kind[g] = "standalone"
  <2> DEFINE i == maker[j]
  <2>1. i \in Items /\ kind[GroupOf[i]] = "standalone" /\ i \notin lost
    BY <1>1, <1>3 DEF InSight, KindOf
  <2>2. group[GroupOf[i]] = "stored"
    <3>1. GroupOf[i] \in Groups
      BY <2>1, Constants
    <3>2. group[GroupOf[i]] # "deleted"
      BY <2>1, <3>1 DEF CapInv, OnlyProjectsDelete
    <3>3. group[GroupOf[i]] # "absent"
      BY <2>1 DEF IInv, Blank
    <3> QED
      BY <3>1, <3>2, <3>3 DEF IInv, TypeOK
  <2>3. item[i].job = j
    BY <2>1, <2>2, Constants DEF IInv, Tracked
  <2> QED
    BY <1>3, <2>1, <2>3 DEF Counted, KindOf
<1> QED
  BY <1>1, <1>2, <1>3

\* A request that has asked for room for all it visits, if anyone has to.
LEMMA CapBegin ==
  ASSUME IInv, IInv', CapInv, NEW c \in Clients, NEW g \in Groups, NEW op \in {"create", "retry"},
         NEW todo \in SUBSET Items, Begin(c, g, op, todo), UNCHANGED <<kind, item, job, maker, lost>>,
         \A h \in Groups : group'[h] = "deleted" => group[h] = "deleted",
         kind[g] # "batch" => Capacity(g, Cardinality(todo))
  PROVE  CapInv'
<1>1. /\ request[c] = Idle
      /\ kind[g] = "batch" \/ lock = None
      /\ lock' = IF kind[g] = "batch" THEN lock ELSE c
      /\ \A d \in Clients : d # c => request'[d] = request[d]
      /\ request'[c].op = op /\ request'[c].group = g /\ request'[c].todo = todo
      /\ request'[c].made = None
  BY BegunRequest DEF IInv
<1>2. lock # c
  BY <1>1 DEF IInv, Held
<1>3. Recorded' /\ OnlyProjectsDelete'
  BY DEF CapInv, Recorded, Known, OnlyProjectsDelete
<1>4. \A d \in Clients : d # c => Owed(d)' = Owed(d)
  BY <1>1 DEF Owed
<1>5. CASE kind[g] = "batch"
  <2>1. \A d \in Clients : lock' = d => lock = d /\ request'[d].group = request[d].group /\ Owed(d)' \subseteq Owed(d)
    BY <1>1, <1>2, <1>4, <1>5
  <2> QED
    BY <1>3, <2>1, CapQuiet DEF CapInv
<1>6. CASE kind[g] # "batch"
  <2>1. lock = None /\ lock' = c
    BY <1>1, <1>6
  <2>2. Owed(c)' = todo
    BY <1>1 DEF Owed
  <2>3. ASSUME NEW k PROVE LiveOf(k)' = LiveOf(k) /\ (InSight(k)' <=> InSight(k))
    BY DEF LiveOf, Active, Submitted, KindOf, InSight
  <2>4. WithinLimit'
    BY <2>3 DEF CapInv, WithinLimit
  <2>5. ASSUME InSight(kind[g])
        PROVE  Cardinality(LiveOf(kind[g])) + Cardinality(todo) <= MaxActive
    <3> DEFINE live == LiveOf(kind[g])
               count == Active(Counted(g))
    <3>1. live \subseteq count
      BY <1>6, <2>1, <2>5, CountedAll
    <3>2. count \subseteq Known /\ IsFiniteSet(Known)
      BY DEF Active, Counted, Known, Waiting, CapInv, Recorded
    <3>3. Cardinality(count) + Cardinality(todo) <= MaxActive
      BY <1>6 DEF Capacity
    <3>4. Cardinality(todo) \in Nat
      BY GroupsAssumption, FS_Subset, FS_CardinalityType
    <3> HIDE DEF live, count
    <3>5. IsFiniteSet(count) /\ Cardinality(live) <= Cardinality(count)
          /\ Cardinality(live) \in Nat /\ Cardinality(count) \in Nat
      BY <3>1, <3>2, FS_Subset, FS_CardinalityType
    <3> QED
      BY <3>3, <3>4, <3>5, Constants DEF live
  <2>6. RoomLeft'
    <3> SUFFICES ASSUME NEW d \in Clients, NEW k \in Limited, lock' = d, kind'[request'[d].group] = k, InSight(k)'
                 PROVE  Cardinality(LiveOf(k)') + Cardinality(Owed(d)') <= MaxActive
      BY DEF RoomLeft
    <3>1. d = c /\ k = kind[g]
      BY <1>1, <2>1
    <3> QED
      BY <2>2, <2>3, <2>5, <3>1
  <2> QED
    BY <1>3, <2>4, <2>6 DEF CapInv
<1> QED
  BY <1>5, <1>6

LEMMA CapSubmit ==
  ASSUME IInv, IInv', CapInv, NEW c \in Clients, NEW i \in Items, NEW j \in Jobs, Submit(c, i, j)
  PROVE  CapInv'
<1>1. /\ Submits(c, i) /\ job[j] = "absent" /\ UNCHANGED <<kind, group, lock, lost>>
      /\ request' = [request EXCEPT ![c].at = i, ![c].made = j]
      /\ job' = [job EXCEPT ![j] = "queued"] /\ maker' = [maker EXCEPT ![j] = i]
  BY DEF Submit
<1>2. /\ request[c] # Idle /\ i \in request[c].todo /\ request[c].made = None
      /\ request[c].op \in {"create", "retry"}
      /\ lock = c <=> kind[GroupOf[i]] # "batch"
      /\ GroupOf[i] = request[c].group
  BY <1>1, SubmitsWhat DEF IInv, Shape
<1>3. /\ \A d \in Clients : d # c => request'[d] = request[d]
      /\ request'[c].op = request[c].op /\ request'[c].group = request[c].group
      /\ request'[c].todo = request[c].todo /\ request'[c].at = i /\ request'[c].made = j
  <2>1. TakesUp(c, i, j)
    BY <1>1 DEF TakesUp
  <2> QED
    BY <1>2, <2>1, TakenUp DEF IInv
<1>4. \A l \in Jobs : /\ job'[l] = IF l = j THEN "queued" ELSE job[l]
                      /\ maker'[l] = IF l = j THEN i ELSE maker[l]
  BY <1>1 DEF IInv, TypeOK
<1>5. Recorded'
  BY <1>4, RecordedKept DEF CapInv
<1>6. OnlyProjectsDelete'
  BY <1>1 DEF CapInv, OnlyProjectsDelete
<1>7. ASSUME NEW k, k # KindOf(i) PROVE LiveOf(k)' \subseteq LiveOf(k)
  BY <1>1, <1>4, <1>7 DEF LiveOf, Active, Submitted, KindOf
<1>8. \A d \in Clients : d # c => Owed(d)' = Owed(d)
  BY <1>3 DEF Owed
<1>9. CASE kind[GroupOf[i]] = "batch"
  <2>1. \A k \in Limited : LiveOf(k)' \subseteq LiveOf(k)
    BY <1>7, <1>9 DEF Limited, KindOf
  <2>2. \A d \in Clients : lock' = d => lock = d /\ request'[d].group = request[d].group /\ Owed(d)' \subseteq Owed(d)
    BY <1>1, <1>2, <1>3, <1>8, <1>9
  <2> QED
    BY <1>1, <1>5, <1>6, <2>1, <2>2, CapStep
<1>10. CASE kind[GroupOf[i]] # "batch"
  <2>0. kind[GroupOf[i]] \in Limited
    BY <1>10, Constants DEF IInv, TypeOK, Kinds, Limited
  <2> PICK m \in Limited : m = kind[GroupOf[i]]
    BY <2>0
  <2>1. /\ m = kind[GroupOf[i]] /\ m = KindOf(i) /\ m = kind[request[c].group]
        /\ lock = c /\ lock' = c
    BY <1>1, <1>2, <1>10 DEF KindOf
  <2>2. ASSUME NEW k \in Limited PROVE InSight(k)' <=> InSight(k)
    BY <1>1 DEF InSight, KindOf
  <2>3. Owed(c) = request[c].todo /\ Owed(c)' = request[c].todo \ {i}
    BY <1>2, <1>3, Constants DEF Owed
  <2>4. IsFiniteSet(Owed(c)) /\ Cardinality(Owed(c)) \in Nat
    BY <1>2, OwedIsFinite DEF IInv
  <2>5. Cardinality(Owed(c)') = Cardinality(Owed(c)) - 1 /\ Cardinality(Owed(c)') \in Nat
    <3> DEFINE before == Owed(c)
               after == Owed(c)'
    <3>1. after = before \ {i} /\ i \in before /\ IsFiniteSet(before)
      BY <1>2, <2>3, <2>4
    <3> HIDE DEF before, after
    <3>2. /\ IsFiniteSet(after) /\ Cardinality(after) = Cardinality(before) - 1
          /\ Cardinality(after) \in Nat
      BY <3>1, FS_RemoveElement, FS_CardinalityType
    <3> QED
      BY <3>2 DEF before, after
  <2>6. Cardinality(LiveOf(m)') <= Cardinality(LiveOf(m)) + 1
        /\ Cardinality(LiveOf(m)) \in Nat /\ Cardinality(LiveOf(m)') \in Nat
    <3> DEFINE before == LiveOf(m)
               after == LiveOf(m)'
    <3>1. IsFiniteSet(before)
      BY LiveIsFinite DEF CapInv
    <3>2. after \subseteq before \cup {j}
      BY <1>1, <1>4, <2>1 DEF LiveOf, Active, Submitted, KindOf
    <3> HIDE DEF before, after
    <3>3. IsFiniteSet(before \cup {j}) /\ Cardinality(before \cup {j}) <= Cardinality(before) + 1
          /\ Cardinality(before) \in Nat /\ Cardinality(before \cup {j}) \in Nat
      <4>1. Cardinality(before) \in Nat
        BY <3>1, FS_CardinalityType
      <4>2. IsFiniteSet(before \cup {j})
            /\ Cardinality(before \cup {j}) = IF j \in before THEN Cardinality(before) ELSE Cardinality(before) + 1
        BY <3>1, FS_AddElement
      <4> QED
        BY <4>1, <4>2
    <3>4. IsFiniteSet(after) /\ Cardinality(after) <= Cardinality(before \cup {j}) /\ Cardinality(after) \in Nat
      BY <3>2, <3>3, FS_Subset, FS_CardinalityType
    <3>5. Cardinality(after) <= Cardinality(before) + 1
      BY <3>3, <3>4
    <3> QED
      BY <3>3, <3>4, <3>5 DEF before, after
  <2>7. InSight(m) => Cardinality(LiveOf(m)) + Cardinality(Owed(c)) <= MaxActive
    BY <1>2, <2>1 DEF CapInv, RoomLeft
  <2>8. InSight(m) => Cardinality(LiveOf(m)') + Cardinality(Owed(c)') <= MaxActive
    BY <2>4, <2>5, <2>6, <2>7, Constants
  <2>9. RoomLeft'
    <3> SUFFICES ASSUME NEW d \in Clients, NEW k \in Limited, lock' = d, kind'[request'[d].group] = k, InSight(k)'
                 PROVE  Cardinality(LiveOf(k)') + Cardinality(Owed(d)') <= MaxActive
      BY DEF RoomLeft
    <3>1. d = c /\ k = m
      BY <1>1, <1>2, <1>3, <2>1
    <3> QED
      BY <2>2, <2>8, <3>1
  <2>10. WithinLimit'
    <3> SUFFICES ASSUME NEW k \in Limited, InSight(k)' PROVE Cardinality(LiveOf(k)') <= MaxActive
      BY DEF WithinLimit
    <3>1. CASE k = m
      BY <2>2, <2>5, <2>6, <2>8, <3>1, Constants
    <3>2. CASE k # m
      <4>1. LiveOf(k)' \subseteq LiveOf(k) /\ IsFiniteSet(LiveOf(k)) /\ Cardinality(LiveOf(k)) <= MaxActive
        BY <1>7, <2>1, <2>2, <3>2, LiveIsFinite DEF CapInv, WithinLimit
      <4> DEFINE before == LiveOf(k)
                 after == LiveOf(k)'
      <4>2. after \subseteq before /\ IsFiniteSet(before) /\ Cardinality(before) <= MaxActive
        BY <4>1
      <4> HIDE DEF before, after
      <4>3. Cardinality(after) <= MaxActive
        BY <4>2, FS_Subset, FS_CardinalityType, Constants
      <4> QED
        BY <4>3 DEF after
    <3> QED
      BY <3>1, <3>2
  <2> QED
    BY <1>5, <1>6, <2>9, <2>10 DEF CapInv
<1> QED
  BY <1>9, <1>10

\* A visit that leaves its item owes no more than before.
LEMMA CapLeave ==
  ASSUME IInv, IInv', CapInv, NEW c \in Clients, NEW i \in Items, request[c] # Idle,
         Leave(c, i) \/ End(c), request[c].made = None \/ request[c].at = i,
         UNCHANGED <<kind, group, maker, lost>>,
         \A j \in Jobs : job'[j] = job[j] \/ (job[j] = "queued" /\ job'[j] = "cancelled")
  PROVE  CapInv'
<1>1. (\A d \in Clients : d # c => request'[d] = request[d]) /\ LeftAs(c, i)
  BY LeaveLeaves, EndLeaves DEF IInv
<1>2. ASSUME NEW d \in Clients, lock' = d
      PROVE  lock = d /\ request'[d].group = request[d].group /\ Owed(d)' \subseteq Owed(d)
  <2>1. CASE d # c
    BY <1>1, <1>2, <2>1, Constants DEF LeftAs, Owed
  <2>2. CASE d = c
    BY <1>1, <1>2, <2>2, Constants DEF LeftAs, Owed
  <2> QED
    BY <2>1, <2>2
<1>3. Recorded'
  BY RecordedKept DEF CapInv
<1>4. \A j \in Jobs : /\ job[j] = "absent" => job'[j] = "absent"
                      /\ job'[j] \in Waiting => job[j] \in Waiting
  BY DEF Waiting
<1> QED
  BY <1>2, <1>3, <1>4, CapQuiet

LEMMA CapNext == IInv /\ IInv' /\ CapInv /\ [Next]_vars => CapInv'
<1> SUFFICES ASSUME IInv, IInv', CapInv, [Next]_vars PROVE CapInv'
  OBVIOUS
<1>1. ASSUME NEW c \in Clients, NEW g \in Groups, StoreGroup(c, g) PROVE CapInv'
  <2>1. ItemsOf(g) \in SUBSET Items
    BY DEF ItemsOf
  <2>2. /\ Begin(c, g, "create", ItemsOf(g)) /\ UNCHANGED <<kind, item, job, maker, lost>>
        /\ kind[g] # "batch" => Capacity(g, Cardinality(ItemsOf(g)))
        /\ \A h \in Groups : group'[h] = "deleted" => group[h] = "deleted"
    BY <1>1 DEF StoreGroup, IInv, TypeOK
  <2> HIDE DEF ItemsOf
  <2> QED
    BY <2>1, <2>2, CapBegin
<1>2. ASSUME NEW c \in Clients, NEW g \in Groups, Retry(c, g) PROVE CapInv'
  <2> DEFINE todo == IF kind[g] = "batch" THEN {i \in ItemsOf(g) : item[i].job # None \/ item[i].error}
                     ELSE Retryable(g)
  <2>1. todo \in SUBSET Items
    BY DEF ItemsOf, Retryable
  <2>2. /\ Begin(c, g, "retry", todo) /\ UNCHANGED <<kind, group, item, job, maker, lost>>
        /\ kind[g] # "batch" => Capacity(g, Cardinality(todo))
    BY <1>2 DEF Retry, IInv, TypeOK, Kinds
  <2> HIDE DEF todo
  <2> QED
    BY <2>1, <2>2, CapBegin
<1>3. ASSUME NEW c \in Clients, NEW g \in Groups, CancelPending(c, g) PROVE CapInv'
  <2> DEFINE todo == {i \in ItemsOf(g) : item[i].job # None}
  <2>1. todo \in SUBSET Items
    BY DEF ItemsOf
  <2>2. Begin(c, g, "cancel", todo) /\ UNCHANGED <<kind, group, item, job, maker, lost>>
    BY <1>3 DEF CancelPending
  <2> HIDE DEF todo
  <2>3. /\ lock' = IF kind[g] = "batch" THEN lock ELSE c
        /\ \A d \in Clients : d # c => request'[d] = request[d]
        /\ request'[c].op = "cancel"
    BY <2>1, <2>2, BegunRequest DEF IInv
  <2>4. Recorded'
    BY <2>2 DEF CapInv, Recorded, Known
  <2>5. Owed(c)' = {} /\ \A d \in Clients : d # c => Owed(d)' = Owed(d)
    BY <2>3 DEF Owed
  <2> QED
    BY <2>2, <2>3, <2>4, <2>5, CapQuiet, Constants
<1>4. ASSUME NEW c \in Clients, NEW g \in Groups, Delete(c, g) PROVE CapInv'
  <2>1. /\ lock = None /\ kind[g] = "experiment" /\ UNCHANGED <<kind, job, request, lock, maker, lost>>
        /\ \A h \in Groups : group'[h] = IF h = g THEN "deleted" ELSE group[h]
    BY <1>4 DEF Delete, IInv, TypeOK
  <2>2. Recorded'
    BY <2>1 DEF CapInv, Recorded, Known
  <2>3. \A d \in Clients : lock' # d
    BY <2>1, Constants
  <2> QED
    BY <2>1, <2>2, <2>3, CapQuiet
<1>5. ASSUME NEW c \in Clients, NEW i \in Items, Visit(c, i) PROVE CapInv'
  <2>1. ASSUME NEW j \in Jobs, Submit(c, i, j) PROVE CapInv'
    BY <2>1, CapSubmit
  <2>2. CASE Link(c, i)
    BY <2>2, CapLeave DEF Link
  <2>3. CASE Refuse(c, i)
    BY <2>3, SubmitsWhat, CapLeave DEF Refuse
  <2>4. CASE Skip(c, i)
    <3>1. request[c] # Idle /\ request[c].at = None /\ Leave(c, i) /\ UNCHANGED <<kind, group, job, maker, lost>>
      BY <2>4 DEF Skip, Visits
    <3>2. request[c].made = None
      BY <3>1 DEF IInv, Shape
    <3> QED
      BY <3>1, <3>2, CapLeave
  <2>5. CASE CancelSeen(c, i)
    <3>1. request[c] # Idle /\ request[c].at = i /\ (Leave(c, i) \/ End(c)) /\ UNCHANGED <<kind, group, maker, lost>>
      BY <2>5 DEF CancelSeen
    <3>2. \A j \in Jobs : job'[j] = job[j] \/ (job[j] = "queued" /\ job'[j] = "cancelled")
      BY <2>5 DEF CancelSeen, IInv, TypeOK
    <3> QED
      BY <3>1, <3>2, CapLeave
  <2>6. CASE SeeQueued(c, i)
    <3>1. /\ request[c] # Idle /\ request[c].op = "cancel" /\ request[c].at = None
          /\ UNCHANGED <<kind, group, item, job, lock, maker, lost>>
          /\ request' = [request EXCEPT ![c].at = i]
      BY <2>6 DEF SeeQueued, Visits
    <3>2. request[c].made = None
      BY <3>1 DEF IInv, Shape
    <3>3. /\ \A d \in Clients : d # c => request'[d] = request[d]
          /\ request'[c].op = request[c].op
      <4>1. TakesUp(c, i, None)
        BY <3>1, <3>2 DEF TakesUp
      <4> QED
        BY <3>1, <4>1, TakenUp DEF IInv
    <3>4. Owed(c)' = {} /\ \A d \in Clients : d # c => Owed(d)' = Owed(d)
      BY <3>1, <3>3 DEF Owed
    <3>5. Recorded'
      BY <3>1 DEF CapInv, Recorded, Known
    <3> QED
      BY <3>1, <3>3, <3>4, <3>5, CapQuiet
  <2> QED
    BY <1>5, <2>1, <2>2, <2>3, <2>4, <2>5, <2>6 DEF Visit
<1>6. ASSUME NEW j \in Jobs, SubmitAlone(j) \/ Move(j) PROVE CapInv'
  <2>1. UNCHANGED <<kind, group, item, request, lock, maker, lost>>
    BY <1>6 DEF SubmitAlone, Move
  <2>2. \A l \in Jobs : /\ l # j => job'[l] = job[l]
                        /\ maker[l] # None => /\ job[l] = "absent" => job'[l] = "absent"
                                              /\ job'[l] \in Waiting => job[l] \in Waiting
    BY <1>6 DEF SubmitAlone, Move, Moves, IInv, TypeOK, Unborn, Waiting
  <2>3. Recorded'
    BY <2>2, RecordedKept DEF CapInv
  <2>4. \A d \in Clients : Owed(d)' = Owed(d)
    BY <2>1 DEF Owed
  <2> QED
    BY <2>1, <2>2, <2>3, <2>4, CapQuiet
<1>7. CASE Crash
  <2>1. /\ UNCHANGED <<kind, group, item, maker>> /\ lock' = None /\ lost \subseteq lost'
        /\ \A j \in Jobs : job'[j] = IF job[j] = "running" THEN "failed" ELSE job[j]
    BY <1>7 DEF Crash
  <2>2. Recorded'
    BY <2>1, RecordedKept DEF CapInv
  <2>3. \A d \in Clients : lock' # d
    BY <2>1, Constants
  <2>4. \A j \in Jobs : /\ job[j] = "absent" => job'[j] = "absent"
                        /\ job'[j] \in Waiting => job[j] \in Waiting
    BY <2>1 DEF Waiting
  <2> QED
    BY <2>1, <2>2, <2>3, <2>4, CapQuiet
<1>8. CASE UNCHANGED vars
  <2>1. UNCHANGED <<kind, group, item, job, request, lock, maker, lost>>
    BY <1>8 DEF vars
  <2>2. Recorded' /\ \A d \in Clients : Owed(d)' = Owed(d)
    BY <2>1 DEF CapInv, Recorded, Known, Owed
  <2> QED
    BY <2>1, <2>2, CapQuiet
<1> QED
  BY <1>1, <1>2, <1>3, <1>4, <1>5, <1>6, <1>7, <1>8 DEF Next

\* Whatever requests overlap, the experiments of a Project have no more Jobs
\* active than their share, since the count made when a request begins
\* (operations.py) stays an upper bound until its last submission; those without
\* Project neither, until a process end hides one of their Jobs.
THEOREM LimitsHold == Spec => []CapacityKept
<1>1. Spec => []CapInv
  BY CapInit, CapNext, GroupsInvariant, PTL DEF Spec
<1>2. CapInv => CapacityKept
  BY DEF CapInv, WithinLimit, Limited, LiveOf, InSight, CapacityKept
<1> QED
  BY <1>1, <1>2, PTL

=============================================================================
