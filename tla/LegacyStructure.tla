-------------------------- MODULE LegacyStructure ---------------------------
(***************************************************************************)
(* Scenes and shots of a local Project (structure.py): a soft deletion     *)
(* with a stamp, its restoration, the order, and the two counts that the   *)
(* Project's row carries.                                                  *)
(*                                                                         *)
(* As in StoryScenes a request reads first and writes later; what it reads *)
(* after its first write it reads under SQLite's write lock, in the step   *)
(* that commits.  The ORM writes a column only where it differs from what  *)
(* was loaded.                                                             *)
(***************************************************************************)
EXTENDS Integers, FiniteSets, Sequences, SequencesExt, FiniteSetsExt

CONSTANTS
  LegacyScenes,   \* ids of scenes; an id is used once
  LegacyShots,    \* ids of shots
  ShotScene,      \* [LegacyShots -> LegacyScenes]
  AtFirst,        \* scenes and shots there are when it begins
  Pens,           \* requests that may overlap
  MaxRequests     \* bound: requests made

ASSUME StructureAssumption ==
  /\ ShotScene \in [LegacyShots -> LegacyScenes]
  /\ LegacyScenes \cap LegacyShots = {}
  /\ AtFirst \subseteq LegacyScenes \cup LegacyShots

VARIABLES
  unit,       \* [rows -> [sequence, deleted]]: 0 if not deleted, else the stamp
  counts,     \* [scenes, shots]: project.scene_count and project.shot_count
  busyScenes, \* scenes with a Job that is queued or runs
  pen,        \* [Pens -> what the request has loaded and wants]
  clock,      \* stamps given so far
  requests,   \* requests that may still be made
  took,       \* history: [LegacyScenes -> [stamp, shots]]: its last deletion
  crossed,    \* history: scenes restored over a deletion that was not read
  alone,      \* history: shots deleted for themselves and not restored since
  lagging,    \* history: a request wrote counts that others had changed since
  ordered     \* history: the order a reorder has just been granted, or <<>>

structureVars == <<unit, counts, busyScenes, pen, clock, requests, took, crossed, alone,
                   lagging, ordered>>

Ready == [op |-> "none"]
Rows == DOMAIN unit
Live(rows) == {u \in DOMAIN rows : rows[u].deleted = 0}
SceneRows == Rows \cap LegacyScenes
ShotsOf(s) == {t \in Rows \cap LegacyShots : ShotScene[t] = s}
PlaceOf(seq, u) == CHOOSE i \in DOMAIN seq : seq[i] = u
Siblings(u) == IF u \in LegacyScenes THEN LegacyScenes
               ELSE {t \in LegacyShots : ShotScene[t] = ShotScene[u]}

StructureTypeOK ==
  /\ Rows \subseteq LegacyScenes \cup LegacyShots
  /\ \A u \in Rows : unit[u].sequence \in Nat /\ unit[u].deleted \in 0 .. clock
  /\ counts \in [scenes : Nat, shots : Nat]
  /\ busyScenes \subseteq LegacyScenes

StructureInit ==
  /\ unit = [u \in AtFirst |->
       [sequence |-> PlaceOf(SetToSeq(AtFirst \cap Siblings(u)), u), deleted |-> 0]]
  /\ counts = [scenes |-> Cardinality(AtFirst \cap LegacyScenes),
               shots |-> Cardinality(AtFirst \cap LegacyShots)]
  /\ busyScenes = {}
  /\ pen = [c \in Pens |-> Ready]
  /\ clock = 0
  /\ requests = MaxRequests
  /\ took = [s \in LegacyScenes |-> [stamp |-> 0, shots |-> {}]]
  /\ crossed = {}
  /\ alone = {}
  /\ lagging = FALSE
  /\ ordered = <<>>

-----------------------------------------------------------------------------
(* Requests: what they load and refuse.                                    *)

Load(c, r) ==
  /\ pen[c] = Ready
  /\ requests > 0
  /\ requests' = requests - 1
  /\ pen' = [pen EXCEPT ![c] = r]
  /\ ordered' = <<>>
  /\ UNCHANGED <<unit, counts, busyScenes, clock, took, crossed, alone, lagging>>

LastOf(group) == Max({0} \cup {unit[u].sequence : u \in Live(unit) \cap group})

BeginCreate(c, u) ==
  /\ u \notin Rows
  /\ \A d \in Pens : pen[d].op = "create" => pen[d].unit # u
  /\ u \in LegacyShots => ShotScene[u] \in Live(unit)
  /\ Load(c, [op |-> "create", unit |-> u, sequence |-> LastOf(Siblings(u)) + 1,
              counts |-> counts])

\* Refused while a Job of the scene is active; what is lost with the scene has
\* been confirmed.
BeginDelete(c, u) ==
  /\ u \in Live(unit)
  /\ (IF u \in LegacyScenes THEN u ELSE ShotScene[u]) \notin busyScenes
  /\ Load(c, [op |-> "delete", unit |-> u, counts |-> counts])

\* A shot comes back only into a scene that is there.
BeginRestore(c, u) ==
  /\ u \in Rows \ Live(unit)
  /\ u \in LegacyShots => ShotScene[u] \in Live(unit)
  /\ Load(c, [op |-> "restore", unit |-> u, deleted |-> unit[u].deleted, counts |-> counts])

\* Every one of the live siblings, once.
BeginReorderUnits(c, order) ==
  /\ order # <<>>
  /\ Range(order) = Live(unit) \cap Siblings(order[1])
  /\ Load(c, [op |-> "reorder", order |-> order,
              loaded |-> [u \in Range(order) |-> unit[u].sequence], counts |-> counts])

-----------------------------------------------------------------------------
(* Requests: what they write.                                              *)

Close(c) == pen' = [pen EXCEPT ![c] = Ready]

\* Mutant: the counts are taken before the change is flushed.
CountedBefore(after) == [scenes |-> Cardinality(Live(unit) \cap LegacyScenes),
                         shots |-> Cardinality(Live(unit) \cap LegacyShots)]

\* _refresh_counts, after the flush.
Counted(after) == [scenes |-> Cardinality(Live(after) \cap LegacyScenes),
                   shots |-> Cardinality(Live(after) \cap LegacyShots)]

\* A count that equals the loaded one is not written.
Refresh(c, after) ==
  LET loaded == pen[c].counts
      now == Counted(after)
  IN /\ unit' = after
     /\ counts' = [scenes |-> IF now.scenes = loaded.scenes THEN counts.scenes ELSE now.scenes,
                   shots |-> IF now.shots = loaded.shots THEN counts.shots ELSE now.shots]
     /\ lagging' = (counts' # now /\ (loaded # counts \/ lagging))
     /\ Close(c)
     /\ ordered' = <<>>
     /\ UNCHANGED <<busyScenes, requests>>

CommitCreate(c) ==
  LET r == pen[c] IN
  /\ r.op = "create"
  /\ Refresh(c, [u \in Rows \cup {r.unit} |->
                    IF u \in Rows THEN unit[u] ELSE [sequence |-> r.sequence, deleted |-> 0]])
  /\ UNCHANGED <<clock, took, crossed, alone>>

Marked(gone, stamp) ==
  [u \in Rows |-> IF u \in gone THEN [unit[u] EXCEPT !.deleted = stamp] ELSE unit[u]]

\* A scene takes the shots with it that are live by then.
CommitDelete(c) ==
  LET r == pen[c]
      shots == ShotsOf(r.unit) \cap Live(unit)
      stamp == clock + 1
  IN
  /\ r.op = "delete"
  /\ clock' = stamp
  /\ Refresh(c, Marked({r.unit} \cup shots, stamp))
  /\ took' = IF r.unit \in LegacyScenes
             THEN [took EXCEPT ![r.unit] = [stamp |-> stamp, shots |-> shots]] ELSE took
  /\ crossed' = crossed \ {r.unit}
  /\ alone' = alone \cup ({r.unit} \cap LegacyShots)

\* Mutant: whatever shots of the scene are deleted come back.
AllGone(s, stamp) == {t \in ShotsOf(s) : unit[t].deleted # 0}

\* The shots that went in the deletion that was loaded.
GoneWith(s, stamp) == {t \in ShotsOf(s) : unit[t].deleted = stamp}

CommitRestore(c) ==
  LET r == pen[c] IN
  /\ r.op = "restore"
  /\ Refresh(c, Marked({r.unit} \cup GoneWith(r.unit, r.deleted), 0))
  /\ crossed' = IF unit[r.unit].deleted # r.deleted THEN crossed \cup {r.unit} ELSE crossed
  /\ alone' = alone \ {r.unit}
  /\ UNCHANGED <<clock, took>>

\* Mutant: numbers are written where they differ from those loaded, as in story.py.
OnlyChanged(r, u, n) == IF r.loaded[u] = n THEN unit[u].sequence ELSE n

\* Every number is first written as a negative one, so that all are written.
Renumbered(r, u, n) == n

CommitReorderUnits(c) ==
  LET r == pen[c] IN
  /\ r.op = "reorder"
  /\ unit' = [u \in Rows |->
       IF u \in Range(r.order)
       THEN [unit[u] EXCEPT !.sequence =
               Renumbered(r, u, PlaceOf(r.order, u))]
       ELSE unit[u]]
  /\ ordered' = r.order
  /\ Close(c)
  /\ UNCHANGED <<counts, busyScenes, clock, requests, took, crossed, alone, lagging>>

JobComesOrGoes(s) ==
  /\ s \in SceneRows
  /\ busyScenes' = IF s \in busyScenes THEN busyScenes \ {s} ELSE busyScenes \cup {s}
  /\ ordered' = <<>>
  /\ UNCHANGED <<unit, counts, pen, clock, requests, took, crossed, alone, lagging>>

Orders == SetToSeqs(Live(unit) \cap LegacyScenes)
          \cup UNION {SetToSeqs(Live(unit) \cap ShotsOf(s)) : s \in SceneRows}

StructureNext ==
  \/ \E c \in Pens :
       \/ \E u \in LegacyScenes \cup LegacyShots :
            BeginCreate(c, u) \/ BeginDelete(c, u) \/ BeginRestore(c, u)
       \/ \E order \in Orders : BeginReorderUnits(c, order)
       \/ CommitCreate(c)
       \/ CommitDelete(c)
       \/ CommitRestore(c)
       \/ CommitReorderUnits(c)
  \/ \E s \in LegacyScenes : JobComesOrGoes(s)

StructureSpec == StructureInit /\ [][StructureNext]_structureVars

-----------------------------------------------------------------------------
(* Properties.                                                             *)

\* A scene that is there has the shots that its last deletion took with it, but
\* for one restored from an older deletion than its last; a shot that was
\* deleted for itself does not come back with a scene.
DeletedTogether ==
  /\ \A s \in (SceneRows \cap Live(unit)) \ crossed : \A t \in took[s].shots :
       unit[t].deleted # took[s].stamp
  /\ alone \cap Live(unit) = {}

\* A reorder that is granted is the order there is, whatever else was granted
\* between its reading and its writing.
OrderStands ==
  \A i, j \in DOMAIN ordered : i < j => unit[ordered[i]].sequence < unit[ordered[j]].sequence

\* The counts are those of the rows, unless two changes overlapped.
CountsExact == ~lagging => counts = Counted(unit)

StructureSafe == DeletedTogether /\ OrderStands /\ CountsExact
=============================================================================
