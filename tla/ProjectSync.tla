---------------------------- MODULE ProjectSync -----------------------------
(***************************************************************************)
(* A Project that follows an external source (projects.py): preview and    *)
(* synchronisation read the row, fetch the source with one call after      *)
(* another, compare with the row as it was read and write what differs     *)
(* from it.  The user renames the Project at any moment, the source        *)
(* changes between two calls, and nothing keeps two requests apart.        *)
(***************************************************************************)
EXTENDS Naturals

CONSTANTS
  Syncers,    \* requests that may be in flight together
  Titles,     \* titles of the source, and names of the Project
  Revisions   \* bound: revisions the source goes through

ASSUME SyncAssumption == Revisions \in Nat /\ Titles # {}

VARIABLES
  source,     \* what lies outside: [title, revision]
  project,    \* the row
  sync,       \* [Syncers -> requests]
  crossed     \* history: a write met a row that had changed since it was read

syncVars == <<source, project, sync, crossed>>

\* A snapshot has the Project's envelope (title and revision) and the scenes,
\* shots and canon, of which only the revision they are of matters.
Snapshots == [title: Titles, revision: 0..Revisions, content: 0..Revisions]
SyncStates == {"synced", "outdated", "conflicted", "failed"}
Rows == [name: Titles, revision: 0..Revisions, snapshot: Snapshots, state: SyncStates]

NoSync == [step |-> "none"]
Syncs ==
  {NoSync} \cup
  [step: {"project", "rest", "compare"}, choice: {"preview", "none", "local", "external"},
   read: Rows, got: Snapshots]

SyncTypeOK ==
  /\ source \in [title: Titles, revision: 0..Revisions]
  /\ project \in Rows
  /\ sync \in [Syncers -> Syncs]
  /\ crossed \in BOOLEAN

\* import_external_project: the name is the title.
Imported(t) ==
  [name |-> t, revision |-> 0, state |-> "synced",
   snapshot |-> [title |-> t, revision |-> 0, content |-> 0]]

SyncInit ==
  \E t \in Titles :
    /\ source = [title |-> t, revision |-> 0]
    /\ project = Imported(t)
    /\ sync = [c \in Syncers |-> NoSync]
    /\ crossed = FALSE

-----------------------------------------------------------------------------
SourceChanges(t) ==
  /\ source.revision < Revisions
  /\ source' = [title |-> t, revision |-> source.revision + 1]
  /\ UNCHANGED <<project, sync, crossed>>

\* update_project.
Rename(n) ==
  /\ project' = [project EXCEPT !.name = n]
  /\ UNCHANGED <<source, sync, crossed>>

BeginSync(c, choice) ==
  /\ sync[c] = NoSync
  /\ sync' = [sync EXCEPT ![c] =
       [step |-> "project", choice |-> choice, read |-> project, got |-> project.snapshot]]
  /\ UNCHANGED <<source, project, crossed>>

\* _fetch_snapshot: the envelope first, then everything else.
FetchProject(c) ==
  /\ sync[c].step = "project"
  /\ sync' = [sync EXCEPT ![c].step = "rest",
                          ![c].got = [@ EXCEPT !.title = source.title, !.revision = source.revision]]
  /\ UNCHANGED <<source, project, crossed>>

FetchRest(c) ==
  /\ sync[c].step = "rest"
  /\ sync' = [sync EXCEPT ![c].step = "compare", ![c].got.content = source.revision]
  /\ UNCHANGED <<source, project, crossed>>

\* The session writes the columns that differ from what it loaded, the others
\* keep what the row has by now.
Column(loaded, new, now) == IF new # loaded THEN new ELSE now

Write(c, row) ==
  /\ project' = [k \in DOMAIN project |-> Column(sync[c].read[k], row[k], project[k])]
  /\ crossed' = (crossed \/ project # sync[c].read)
  /\ sync' = [sync EXCEPT ![c] = NoSync]
  /\ UNCHANGED source

\* _external_snapshot: any call may fail, the failure is recorded.
FetchFails(c) ==
  /\ sync[c].step \in {"project", "rest"}
  /\ Write(c, [sync[c].read EXCEPT !.state = "failed"])

\* Mutant: a name that equals the new title is in nobody's way.
ConflictWithNew(row, got) == row.snapshot.title # got.title /\ row.name # got.title

\* _sync_changes: name and title both left the title of the last snapshot.
Conflict(row, got) ==
  /\ row.snapshot.title # got.title
  /\ row.name # row.snapshot.title

Compared(row, got) == IF Conflict(row, got) THEN "conflicted"
                      ELSE IF got # row.snapshot THEN "outdated" ELSE "synced"

Preview(c) ==
  /\ sync[c].step = "compare" /\ sync[c].choice = "preview"
  /\ Write(c, [sync[c].read EXCEPT !.state = Compared(sync[c].read, sync[c].got)])

Unresolved(c) == Conflict(sync[c].read, sync[c].got) /\ sync[c].choice = "none"

\* The choice is for the Project's own entry; "external" takes the new title.
Apply(c) ==
  LET r == sync[c] IN
  /\ r.step = "compare" /\ r.choice # "preview"
  /\ IF Unresolved(c) THEN Write(c, [r.read EXCEPT !.state = "conflicted"])
     ELSE Write(c, [name |-> IF r.choice = "external" THEN r.got.title ELSE r.read.name,
                    revision |-> r.got.revision, snapshot |-> r.got, state |-> "synced"])

SyncNext ==
  \/ \E t \in Titles : SourceChanges(t) \/ Rename(t)
  \/ \E c \in Syncers :
       \/ \E choice \in {"preview", "none", "local", "external"} : BeginSync(c, choice)
       \/ FetchProject(c) \/ FetchRest(c) \/ FetchFails(c) \/ Preview(c) \/ Apply(c)

SyncSpec == SyncInit /\ [][SyncNext]_syncVars

-----------------------------------------------------------------------------
\* While no request wrote over another's row: the recorded revision is that of
\* the snapshot, and "synced" is said of no Project whose snapshot is newer
\* than the source was.
RevisionOfSnapshot ==
  /\ ~crossed => project.revision = project.snapshot.revision
  /\ project.snapshot.revision <= source.revision /\ project.snapshot.content <= source.revision

\* A name that the user chose gives way to a new title only by the choice
\* "external"; and without a choice, and without a second writer, no snapshot
\* replaces one that the name has departed from.
NamesAreChosen ==
  [][\A c \in Syncers :
       sync[c].step = "compare" /\ sync'[c] = NoSync =>
         /\ project'.name # project.name => sync[c].choice = "external"
         /\ \/ sync[c].choice \in {"local", "external"} \/ crossed'
            \/ project'.snapshot.title = project.snapshot.title
            \/ project.name = project.snapshot.title]_syncVars
=============================================================================
