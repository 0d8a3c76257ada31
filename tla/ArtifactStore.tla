--------------------------- MODULE ArtifactStore ----------------------------
(***************************************************************************)
(* The life of an Artifact after its Job: trash, restore, copy, purge      *)
(* (routers.py), adoption into the slots of a scene (story_adoption.py,    *)
(* story_links.py) and the user's decision, over rows and files.           *)
(*                                                                         *)
(* A handler first reads, in statements that hold no lock and with awaits  *)
(* in between, and then writes in one transaction what it decided from     *)
(* that.  A request is therefore two steps, and a purge three: the files   *)
(* go after the commit.  The ORM writes a column only where it differs     *)
(* from what was read, and a row by its id alone.                          *)
(***************************************************************************)
EXTENDS Naturals

CONSTANTS
  Arts,        \* artifact ids; an id is used once
  Slots,       \* slots of scenes that hold at most one adoption
  Clients,     \* requests that may overlap
  None         \* no artifact

ASSUME NoneAssumption == None \notin Arts

Decisions == {"undecided", "accepted", "rejected"}
Idle == [op |-> "idle"]

VARIABLES
  row,         \* [Arts -> "absent", "live", "trashed" (deleted_at) or "purged"]
  path,        \* [Arts -> Arts]: relative_path, named by the row it was stored for
  files,       \* paths on disk
  decision,    \* [Arts -> Decisions]
  adopted,     \* [Slots -> Arts or None]: rows of story_scene_adoption
  request,     \* [Clients -> Requests]: what each request in flight has read
  stale,       \* history: a request wrote although what it had read had changed
  judged,      \* history: artifacts whose decision was set or copied by the user
  cut          \* history: the process ended before a purge removed its files

vars == <<row, path, files, decision, adopted, request, stale, judged, cut>>

Present(a) == row[a] \in {"live", "trashed"}
Rows == {a \in Arts : Present(a)}

Requests ==
  {Idle}
  \cup [op: {"trash"}, on: SUBSET Arts, trashed: SUBSET Arts, accepted: SUBSET Arts]
  \cup [op: {"restore"}, on: SUBSET Arts, trashed: SUBSET Arts]
  \cup [op: {"copy"}, from: Arts, decision: Decisions]
  \cup [op: {"purge"}, on: SUBSET Arts, removed: SUBSET Arts]
  \cup [op: {"discard"}, removed: SUBSET Arts]
  \cup [op: {"adopt"}, slot: Slots, art: Arts, decision: Decisions, held: Arts \cup {None}]
  \cup [op: {"release"}, slot: Slots, held: Arts \cup {None}]
  \cup [op: {"decide"}, art: Arts, decision: Decisions, to: Decisions]

TypeOK ==
  /\ row \in [Arts -> {"absent", "live", "trashed", "purged"}]
  /\ path \in [Arts -> Arts]
  /\ files \in SUBSET Arts
  /\ decision \in [Arts -> Decisions]
  /\ adopted \in [Slots -> Arts \cup {None}]
  /\ request \in [Clients -> Requests]
  /\ stale \in BOOLEAN
  /\ judged \in SUBSET Arts
  /\ cut \in BOOLEAN

Init ==
  /\ row = [a \in Arts |-> "absent"]
  /\ path = [a \in Arts |-> a]
  /\ files = {}
  /\ decision = [a \in Arts |-> "undecided"]
  /\ adopted = [s \in Slots |-> None]
  /\ request = [c \in Clients |-> Idle]
  /\ stale = FALSE
  /\ judged = {}
  /\ cut = FALSE

\* An executor or an import stores a file and commits its row.
Create(a) ==
  /\ row[a] = "absent"
  /\ row' = [row EXCEPT ![a] = "live"]
  /\ files' = files \cup {a}
  /\ UNCHANGED <<path, decision, adopted, request, stale, judged, cut>>

-----------------------------------------------------------------------------
(* What each request reads and checks.                                     *)

Read(c, r) ==
  /\ request[c] = Idle
  /\ request' = [request EXCEPT ![c] = r]
  /\ UNCHANGED <<row, path, files, decision, adopted, stale, judged, cut>>

Trashed(on) == {a \in on : row[a] = "trashed"}
Accepted(on) == {a \in on : decision[a] = "accepted"}

\* Mutant: the paths of every purged row are removed, shared or not.
UnsharedIgnored(on) == {path[a] : a \in on}

\* Paths of these rows that no other row has.
Unshared(on) == {path[a] : a \in on} \ {path[b] : b \in Rows \ on}

TrashRead(c, on) ==
  /\ on \subseteq Rows
  /\ Read(c, [op |-> "trash", on |-> on, trashed |-> Trashed(on),
              accepted |-> Accepted(on)])

RestoreRead(c, on) ==
  /\ on \subseteq Rows
  /\ Read(c, [op |-> "restore", on |-> on, trashed |-> Trashed(on)])

\* copy refuses what is in the trash.
CopyRead(c, a) ==
  /\ row[a] = "live"
  /\ Read(c, [op |-> "copy", from |-> a, decision |-> decision[a]])

\* _plan_purge: one row that is not in the trash refuses the whole request.
PurgeRead(c, on) ==
  /\ on \subseteq Rows /\ Trashed(on) = on
  /\ Read(c, [op |-> "purge", on |-> on, removed |-> Unshared(on)])

Adoptable(a) == row[a] = "live" /\ decision[a] # "rejected"

AdoptRead(c, s, a) ==
  /\ Adoptable(a)
  /\ Read(c, [op |-> "adopt", slot |-> s, art |-> a, decision |-> decision[a],
              held |-> adopted[s]])

ReleaseRead(c, s) == Read(c, [op |-> "release", slot |-> s, held |-> adopted[s]])

DecideRead(c, a, d) ==
  /\ Present(a)
  /\ Read(c, [op |-> "decide", art |-> a, decision |-> decision[a], to |-> d])

-----------------------------------------------------------------------------
(* What each request commits.                                              *)

\* What the request has read is still so.
Fresh(r) ==
  CASE r.op = "trash" -> /\ r.on \subseteq Rows
                         /\ r.trashed = Trashed(r.on) /\ r.accepted = Accepted(r.on)
    [] r.op = "restore" -> r.on \subseteq Rows /\ r.trashed = Trashed(r.on)
    [] r.op = "copy" -> row[r.from] = "live" /\ decision[r.from] = r.decision
    [] r.op = "purge" -> Trashed(r.on) = r.on /\ r.removed = Unshared(r.on)
    [] r.op = "adopt" -> /\ row[r.art] = "live" /\ decision[r.art] = r.decision
                         /\ adopted[r.slot] = r.held
    [] r.op = "release" -> adopted[r.slot] = r.held
    [] r.op = "decide" -> Present(r.art) /\ decision[r.art] = r.decision
    [] OTHER -> TRUE

Write(c, r, next) ==
  /\ request[c] = r
  /\ stale' = (stale \/ ~Fresh(r))
  /\ request' = [request EXCEPT ![c] = next]
  /\ UNCHANGED <<path, cut>>

\* Adoptions of these artifacts, and the slots without them.
Without(on) == [s \in Slots |-> IF adopted[s] \in on THEN None ELSE adopted[s]]
Released(on) == {a \in on : \E s \in Slots : adopted[s] = a}

\* Mutant: the adoption of a trashed artifact is kept.
KeepAdopted(on) == adopted

\* release_adoptions of everything that goes into the trash.
AfterTrash(on) == Without(on)

\* Mutant: the decision is cleared instead of set back to undecided.
RevertedToNull(gone, slots, accepted) ==
  [a \in Arts |-> IF /\ a \in gone \cap accepted
                     /\ \A s \in Slots : slots[s] # a
                  THEN "null" ELSE decision[a]]

\* revert_adoption_decisions: what is in no slot any more and counts as
\* accepted is undecided again.
Reverted(gone, slots, accepted) ==
  [a \in Arts |-> IF /\ a \in gone \cap accepted
                     /\ \A s \in Slots : slots[s] # a
                  THEN "undecided" ELSE decision[a]]

Settle(old, new) == {a \in old : decision[a] # new[a]}

\* The artifacts are in the session's identity map: their decisions are those
\* that were read before.
TrashWrite(c, r) ==
  /\ r.op = "trash"
  /\ r.on \ r.trashed \subseteq Rows
  /\ Write(c, r, Idle)
  /\ row' = [a \in Arts |-> IF a \in r.on \ r.trashed THEN "trashed" ELSE row[a]]
  /\ adopted' = AfterTrash(r.on)
  /\ decision' = Reverted(Released(r.on), Without(r.on), r.accepted)
  /\ judged' = judged \ Settle(Arts, decision')
  /\ UNCHANGED files

RestoreWrite(c, r) ==
  /\ r.op = "restore"
  /\ r.trashed \subseteq Rows
  /\ Write(c, r, Idle)
  /\ row' = [a \in Arts |-> IF a \in r.trashed THEN "live" ELSE row[a]]
  /\ UNCHANGED <<files, decision, adopted, judged>>

\* The copy shares the file; the foreign key needs the original row.
CopyWrite(c, r, b) ==
  /\ r.op = "copy"
  /\ Present(r.from) /\ row[b] = "absent"
  /\ request[c] = r
  /\ stale' = (stale \/ ~Fresh(r))
  /\ request' = [request EXCEPT ![c] = Idle]
  /\ row' = [row EXCEPT ![b] = "live"]
  /\ path' = [path EXCEPT ![b] = path[r.from]]
  /\ decision' = [decision EXCEPT ![b] = r.decision]
  /\ judged' = judged \cup {b}
  /\ UNCHANGED <<files, adopted, cut>>

\* Mutant: purge leaves the adoptions of what it deletes.
KeepAdoptions(on) == adopted

AfterPurge(on) == Without(on)

\* The rows are deleted by id, whatever has become of them since the plan.
PurgeWrite(c, r) ==
  /\ r.op = "purge"
  /\ Write(c, r, [op |-> "discard", removed |-> r.removed])
  /\ row' = [a \in Arts |-> IF a \in r.on THEN "purged" ELSE row[a]]
  /\ adopted' = AfterPurge(r.on)
  /\ UNCHANGED <<files, decision, judged>>

\* Mutant: a purge deletes rows only.
RemovedNever(r) == {}

Removed(r) == r.removed

Discard(c, r) ==
  /\ r.op = "discard"
  /\ Write(c, r, Idle)
  /\ files' = files \ Removed(r)
  /\ UNCHANGED <<row, decision, adopted, judged>>

\* Mutant: the artifact a new adoption replaces stays accepted.
ReplacedForgotten(r) == {}

Replaced(r) == IF r.held \in {None, r.art} THEN {} ELSE {r.held}

\* INSERT when the slot was free (unique per slot), UPDATE when it was not.
AdoptWrite(c, r) ==
  /\ r.op = "adopt"
  /\ Present(r.art)
  /\ r.held = None => adopted[r.slot] = None
  /\ Replaced(r) # {} => adopted[r.slot] # None
  /\ Write(c, r, Idle)
  /\ adopted' = IF r.held = r.art THEN adopted ELSE [adopted EXCEPT ![r.slot] = r.art]
  /\ LET reverted == Reverted(Replaced(r), adopted', Accepted(Arts))
     IN decision' = IF r.decision = "accepted" THEN reverted
                    ELSE [reverted EXCEPT ![r.art] = "accepted"]
  /\ judged' = judged \ Settle(Arts, decision')
  /\ UNCHANGED <<row, files>>

ReleaseWrite(c, r) ==
  /\ r.op = "release"
  /\ Write(c, r, Idle)
  /\ IF r.held = None THEN UNCHANGED <<adopted, decision>>
     ELSE /\ adopted' = [adopted EXCEPT ![r.slot] = None]
          /\ decision' = Reverted({r.held}, adopted', Accepted(Arts))
  /\ judged' = judged \ Settle(Arts, decision')
  /\ UNCHANGED <<row, files>>

DecideWrite(c, r) ==
  /\ r.op = "decide"
  /\ Present(r.art)
  /\ Write(c, r, Idle)
  /\ decision' = IF r.to = r.decision THEN decision
                 ELSE [decision EXCEPT ![r.art] = r.to]
  /\ judged' = judged \cup {r.art}
  /\ UNCHANGED <<row, files, adopted>>

\* A constraint or a row that is gone fails the request; so does its client.
Abort(c) ==
  /\ request[c].op \notin {"idle", "discard"}
  /\ request' = [request EXCEPT ![c] = Idle]
  /\ UNCHANGED <<row, path, files, decision, adopted, stale, judged, cut>>

\* The process ends: requests are lost, and a purge may have left its files.
Crash ==
  /\ \E c \in Clients : request[c] # Idle
  /\ request' = [c \in Clients |-> Idle]
  /\ cut' = (cut \/ \E c \in Clients : request[c].op = "discard")
  /\ UNCHANGED <<row, path, files, decision, adopted, stale, judged>>

-----------------------------------------------------------------------------
ReadStep(c) ==
  \/ \E on \in (SUBSET Arts) \ {{}} : TrashRead(c, on) \/ RestoreRead(c, on) \/ PurgeRead(c, on)
  \/ \E a \in Arts : CopyRead(c, a)
  \/ \E s \in Slots, a \in Arts : AdoptRead(c, s, a)
  \/ \E s \in Slots : ReleaseRead(c, s)
  \/ \E a \in Arts, d \in Decisions : DecideRead(c, a, d)

WriteStep(c, r) ==
  \/ TrashWrite(c, r)
  \/ RestoreWrite(c, r)
  \/ \E b \in Arts : CopyWrite(c, r, b)
  \/ PurgeWrite(c, r)
  \/ Discard(c, r)
  \/ AdoptWrite(c, r)
  \/ ReleaseWrite(c, r)
  \/ DecideWrite(c, r)

Next ==
  \/ \E a \in Arts : Create(a)
  \/ \E c \in Clients : ReadStep(c) \/ WriteStep(c, request[c]) \/ Abort(c)
  \/ Crash

Spec == Init /\ [][Next]_vars

-----------------------------------------------------------------------------
(* Properties.  The first holds whatever requests overlap; the others as   *)
(* long as no request has written on what had changed since it read it.    *)

\* A slot never holds an artifact that is gone for good.
AdoptionsExist == \A s \in Slots : adopted[s] # None => Present(adopted[s])

\* Every row, in the trash too, has its file: copies share it, and only the
\* purge of the last row that has the path removes it.
RowsKeepFiles == ~stale => \A a \in Rows : path[a] \in files

\* A file without a row is one that a purge in progress is about to remove.
NoFileLeaks ==
  ~stale /\ ~cut => \A f \in files :
    \/ \E a \in Rows : path[a] = f
    \/ \E c \in Clients : request[c].op = "discard" /\ f \in request[c].removed

\* Nothing in the trash, and nothing purged, is adopted.
AdoptedLive == ~stale => \A s \in Slots : adopted[s] # None => row[adopted[s]] = "live"

\* No slot holds what is gone, nor, unless a request wrote on what had changed,
\* what is in the trash.
AdoptionsSound == AdoptionsExist /\ AdoptedLive

\* No row without its file, whoever shares it, and no file without a row.
FilesFollowRows == RowsKeepFiles /\ NoFileLeaks

\* Unless the user has judged it, an artifact is accepted exactly while some
\* slot holds it, whichever of its slots are released, replaced or trashed.
DecisionsFollowAdoptions ==
  ~stale => \A a \in Rows \ judged :
    decision[a] = "accepted" <=> \E s \in Slots : adopted[s] = a

\* A purge removes a file only when no other row uses its path.
RowsHaveFiles == \A a \in Rows : path[a] \in files
=============================================================================
