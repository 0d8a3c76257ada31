--------------------------- MODULE PackageImports ---------------------------
(***************************************************************************)
(* Imports of Project packages (portability.py: import, restore of a       *)
(* backup, clone).  A package describes artifacts: some bring their        *)
(* content, others name a file that may be there already.  An import holds *)
(* CONFIRM_LOCK from its preflight to its commit; it counts the bytes of   *)
(* imported images, verifies each image, writes the files it brings and    *)
(* commits all rows at once.  Artifacts are purged without that lock.      *)
(***************************************************************************)
EXTENDS Naturals, FiniteSets

CONSTANTS
  Importers,   \* one import each
  Packages,    \* records [items, names]: which items, the Project id and name they ask for
  Items,       \* artifacts of packages
  Embeds,      \* items that bring their content
  External,    \* items with an import_info: imported images, which have a quota
  Sha,         \* [Items -> content of the item]
  Path,        \* [Items -> mapped path of an item without content]
  Quota,       \* external_image_import_quota_bytes, in images of one size
  InitialRows, \* rows and files there are before
  NoLock

ASSUME ImportAssumption ==
  /\ Embeds \subseteq Items /\ External \subseteq Items /\ Quota \in Nat
  /\ NoLock \notin Importers /\ IsFiniteSet(Items) /\ IsFiniteSet(InitialRows)
  /\ \A i \in Items \ Embeds : Path[i] \in {NoLock} \X Items
  /\ \A k \in Packages : k.items \subseteq Items
  /\ Cardinality({r.path : r \in {q \in InitialRows : q.imported}}) <= Quota

VARIABLES
  rows,       \* artifact rows: path, whether imported, whether complete
  files,      \* paths in the artifact store
  projects,   \* names (and ids) taken
  confirming, \* CONFIRM_LOCK
  import,     \* [Importers -> requests]
  strays,     \* history: files of imports that failed or died
  purged      \* history: paths purged while an import was in flight

importVars == <<rows, files, projects, confirming, import, strays, purged>>

\* Files an import writes lie in a directory of the new Project and carry a
\* new id.
FileOf(m, i) == <<m, i>>
Paths == (Importers \cup {NoLock}) \X Items
RowsOfImports == [id: Paths, path: Paths, imported: BOOLEAN, complete: BOOLEAN]

Waiting == [step |-> "waiting"]
ImportSteps == {"quota", "verify", "write", "commit", "failed", "ended"}

ImportTypeOK ==
  /\ rows \subseteq RowsOfImports
  /\ files \subseteq Paths
  /\ confirming \in Importers \cup {NoLock}
  /\ \A m \in Importers :
       import[m] = Waiting
         \/ /\ import[m].step \in ImportSteps /\ import[m].package \in Packages
            /\ import[m].rows \subseteq RowsOfImports /\ import[m].wrote \subseteq Paths
  /\ strays \subseteq files

ImportInit ==
  /\ rows = InitialRows
  /\ files = {r.path : r \in InitialRows}
  /\ projects = {}
  /\ confirming = NoLock
  /\ import = [m \in Importers |-> Waiting]
  /\ strays = {}
  /\ purged = {}

-----------------------------------------------------------------------------
(* What an import decides on.                                              *)

ItemsOf(m) == import[m].package.items

Step(m, step) == import' = [import EXCEPT ![m].step = step]

\* Distinct paths of imported images whose rows are complete.
UsedPaths == {r.path : r \in {q \in rows : q.imported /\ q.complete}}

\* Mutant: a file that is there already is taken for counted.
IncomingEmbedded(m) == {<<"embedded", Sha[i]>> : i \in ItemsOf(m) \cap External \cap Embeds}

\* Images with the same content arrive once, and a file that is there and has
\* no row yet counts.
Incoming(m) ==
  {<<"embedded", Sha[i]>> : i \in ItemsOf(m) \cap External \cap Embeds}
    \cup {<<"existing", Path[i]>> : i \in {k \in (ItemsOf(m) \cap External) \ Embeds :
                                              Path[k] \in files \ UsedPaths}}

\* Embedded images that share their content share the file of the first.
Sharing(i, m) == {k \in ItemsOf(m) \cap Embeds : k = i \/ (i \in External /\ k \in External /\ Sha[k] = Sha[i])}

First(S) == CHOOSE k \in S : TRUE

Target(m, i) == IF i \in Embeds THEN FileOf(m, First(Sharing(i, m))) ELSE Path[i]

RowFor(m, i, present) ==
  [id |-> <<m, i>>, path |-> Target(m, i), imported |-> i \in External,
   complete |-> i \in Embeds \/ Target(m, i) \in present]

-----------------------------------------------------------------------------
(* Steps of an import.                                                     *)

\* The lock, the migration of old versions and _preflight, which refuses a
\* package whose reference images are missing.
BeginImport(m, package) ==
  /\ import[m] = Waiting /\ confirming = NoLock
  /\ confirming' = m
  /\ import' = [import EXCEPT ![m] = [step |-> "quota", package |-> package, rows |-> {}, wrote |-> {}]]
  /\ UNCHANGED <<rows, files, projects, strays, purged>>

\* Refused, failed or cut off: the session rolls back, files stay.
Fail(m) ==
  /\ confirming = m
  /\ confirming' = NoLock
  /\ Step(m, "ended")
  /\ strays' = strays \cup import[m].wrote
  /\ UNCHANGED <<rows, files, projects, purged>>

CheckQuota(m) ==
  /\ confirming = m /\ import[m].step = "quota"
  /\ Cardinality(UsedPaths) + Cardinality(Incoming(m)) <= Quota
  /\ Step(m, "verify")
  /\ UNCHANGED <<rows, files, projects, confirming, strays, purged>>

\* Every image is read, hashed and decoded; then the id and the name are
\* looked up.
Verify(m) ==
  /\ confirming = m /\ import[m].step = "verify"
  /\ import[m].package.name \notin projects
  /\ Step(m, "write")
  /\ UNCHANGED <<rows, files, projects, confirming, strays, purged>>

\* The files are written one by one, without an await; an error in between
\* leaves those before it.
WriteFiles(m) ==
  LET new == {FileOf(m, First(Sharing(i, m))) : i \in ItemsOf(m) \cap Embeds} IN
  /\ confirming = m /\ import[m].step = "write"
  /\ \E wrote \in SUBSET new :
       /\ files' = files \cup wrote
       /\ import' = [import EXCEPT ![m].wrote = wrote,
                       ![m].step = IF wrote = new THEN "commit" ELSE "failed",
                       ![m].rows = IF wrote = new THEN {RowFor(m, i, files \cup new) : i \in ItemsOf(m)}
                                   ELSE {}]
  /\ UNCHANGED <<rows, projects, confirming, strays, purged>>

\* The name is unique; another Project may have taken it.
CommitImport(m) ==
  /\ confirming = m /\ import[m].step = "commit"
  /\ import[m].package.name \notin projects
  /\ rows' = rows \cup import[m].rows
  /\ projects' = projects \cup {import[m].package.name}
  /\ confirming' = NoLock
  /\ Step(m, "ended")
  /\ UNCHANGED <<files, strays, purged>>

\* create_project, a template, a synchronisation: none of them holds the lock.
TakeName(n) ==
  /\ n \notin projects
  /\ projects' = projects \cup {n}
  /\ UNCHANGED <<rows, files, confirming, import, strays, purged>>

\* Purge of an artifact; its file goes with the last row of its path.
PurgeRow(r) ==
  /\ r \in rows
  /\ rows' = rows \ {r}
  /\ files' = files \ {p \in {r.path} : \A q \in rows \ {r} : q.path # p}
  /\ purged' = IF confirming = NoLock THEN purged ELSE purged \cup {r.path}
  /\ UNCHANGED <<projects, confirming, import, strays>>

ImportNext ==
  \/ \E m \in Importers :
       \/ \E k \in Packages : BeginImport(m, k)
       \/ Fail(m) \/ CheckQuota(m) \/ Verify(m) \/ WriteFiles(m) \/ CommitImport(m)
  \/ \E n \in {k.name : k \in Packages} : TakeName(n)
  \/ \E r \in rows : PurgeRow(r)

ImportSpec == ImportInit /\ [][ImportNext]_importVars

-----------------------------------------------------------------------------
\* The imported images never take more than their quota, counted by distinct
\* files, whatever packages arrive and are cloned.
QuotaKept == Cardinality(UsedPaths) <= Quota

\* A complete row has its file, unless the last other row of that path was
\* purged while the import was in flight; a file without a row was written by
\* an import that is still running, failed or died.
FilesOfImports ==
  /\ \A r \in rows : r.complete => r.path \in files \cup purged
  /\ \A p \in files : \/ \E r \in rows : r.path = p
                      \/ p \in strays
                      \/ \E m \in Importers : confirming = m /\ p \in import[m].wrote

ImportsSafe == QuotaKept /\ FilesOfImports
=============================================================================
