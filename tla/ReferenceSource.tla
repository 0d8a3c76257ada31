--------------------------- MODULE ReferenceSource ---------------------------
(***************************************************************************)
(* Where scenes, shots and canons of external Projects are read from       *)
(* (adapters/aimedia/, references.py): the commit a ref of a git repository *)
(* points at, a file, or an HTTP service; and the snapshot of the last     *)
(* synchronisation when none of them answers.                              *)
(*                                                                         *)
(* Git is read by threads of their own, so requests overlap at every       *)
(* command they give; a file is read on the event loop, where others only  *)
(* change the file.  A tree is a commit of the repository or a generation  *)
(* of the file.  A ref may be moved back; each writing of a file gives it a *)
(* new time stamp.                                                         *)
(***************************************************************************)
EXTENDS Naturals, Sequences, FiniteSets, FiniteSetsExt

CONSTANTS
  Kinds,      \* kinds of source, of "git", "fixture" and "http"
  Threads,    \* requests
  Asks,       \* what requests ask for, records [op, project, scene, id]
  Trees,      \* sequence of trees, see Document
  CanonTrees, \* sequence of trees of a second repository, <<>> for none
  SourceProjects,   \* numbers, in the order of their names
  Snapshot,   \* what was kept at the last synchronisation, a document
  MaxMoves,   \* bound: how often the refs or the file change
  Nowhere     \* no document

\* The first tree can be read: a source that cannot be read at the start ends it.
ASSUME ReferenceSourceAssumption ==
  /\ SourceProjects \subseteq Nat /\ Kinds \subseteq {"git", "fixture", "http"}
  /\ Len(Trees) \in Nat \ {0} /\ DOMAIN Trees = 1 .. Len(Trees) /\ Trees[1].whole

VARIABLES
  kind,     \* of the source
  head,     \* [main, canon], the trees the refs point at; moves counts their changes
  cached,   \* what the source keeps: [key, of], the document of a tree and what it is held for
  lock,     \* the thread that builds a document
  thread    \* [Threads -> what a request has come to]

sourceVars == <<kind, head, cached, lock, thread>>

NoTree == 0
Heads == {NoTree} \cup DOMAIN Trees

-----------------------------------------------------------------------------
(* The document of a commit.                                               *)

\* A canon is of the first repository that has its file, under that commit.
RefsTo(paths, key) ==
  LET main == Trees[key[1]].files
      other == IF key[2] = NoTree THEN {} ELSE CanonTrees[key[2]]
  IN {[path |-> p, second |-> FALSE, rev |-> key[1]] : p \in paths \cap main}
     \cup {[path |-> p, second |-> TRUE, rev |-> key[2]] : p \in (paths \ main) \cap other}

\* Scenes and shots are kept under their names alone: of two Projects that have the
\* same name, the later one stays.
Document(key) ==
  LET tree == Trees[key[1]]
      all == UNION {tree.scenes[p] : p \in SourceProjects}
      last == [s \in all |-> Max({p \in SourceProjects : s \in tree.scenes[p]})]
  IN [projects |-> {p \in SourceProjects : tree.scenes[p] # {}},
      scenes |-> tree.scenes,
      home |-> [s \in all |-> tree.says[last[s]][s]],
      refs |-> [s \in all |-> RefsTo(tree.declares[s], key)],
      shots |-> [s \in all |-> tree.shots[s]],
      canon |-> [p \in SourceProjects |-> RefsTo(UNION {tree.declares[s] : s \in tree.scenes[p]} \cup tree.voices[p], key)]]

\* One scene or shot that is missing, malformed, too large or outside of the
\* repository makes a commit unreadable.
Readable(key) == Trees[key[1]].whole

Key == <<head.main, head.canon>>

-----------------------------------------------------------------------------
Unasked == [at |-> "idle", ask |-> CHOOSE a \in Asks : TRUE, key |-> <<NoTree, NoTree>>, held |-> Nowhere, checks |-> <<>>,
         since |-> [main |-> {}, canon |-> {}], down |-> FALSE, answer |-> Nowhere]

SourceInit ==
  /\ kind \in Kinds
  /\ head = [main |-> 1, canon |-> IF kind = "git" /\ CanonTrees # <<>> THEN 1 ELSE NoTree, moves |-> 0]
  /\ cached = [key |-> Key, of |-> Key]
  /\ lock = {} /\ thread = [t \in Threads |-> Unasked]

Become(t, r) == thread' = [thread EXCEPT ![t] = r]
Keep == UNCHANGED <<kind, head>>

\* What must be there before the last look-up.
Checks(op) == IF op \in {"scenes", "canons", "canon"} THEN <<"project">> ELSE <<"project", "scene">>

\* Methods on a file are not interrupted by other requests.
Arrive(t, a) ==
  /\ thread[t].at = "idle"
  /\ kind = "fixture" => \A u \in Threads : thread[u].at \in {"idle", "done"}
  /\ Become(t, [Unasked EXCEPT !.ask = a, !.checks = Checks(a.op), !.since = [main |-> {head.main}, canon |-> {head.canon}],
                  !.at = CASE kind = "git" -> "first" [] kind = "fixture" -> "stat" [] kind = "http" -> "http"])
  /\ Keep /\ UNCHANGED <<cached, lock>>

-----------------------------------------------------------------------------
(* Git.                                                                    *)

\* The document that is kept is taken first, then the ref is asked.
FirstMain(t) ==
  /\ thread[t].at = "first"
  /\ Become(t, [thread[t] EXCEPT !.held = cached, !.key = <<head.main, NoTree>>, !.at = "first canon"])
  /\ Keep /\ UNCHANGED <<cached, lock>>

FirstCanon(t) ==
  /\ thread[t].at = "first canon"
  /\ LET key == <<thread[t].key[1], head.canon>>
     IN Become(t, [thread[t] EXCEPT !.key = key, !.at = IF thread[t].held.key = key THEN "check" ELSE "lock"])
  /\ Keep /\ UNCHANGED <<cached, lock>>

Lock(t) ==
  /\ thread[t].at = "lock" /\ lock = {}
  /\ lock' = {t} /\ Become(t, [thread[t] EXCEPT !.at = "main"])
  /\ Keep /\ UNCHANGED cached

\* While it waited the ref may have moved on: it is asked again.
LockedMain(t) ==
  /\ thread[t].at = "main"
  /\ Become(t, [thread[t] EXCEPT !.key = <<head.main, NoTree>>, !.at = "canon"])
  /\ Keep /\ UNCHANGED <<cached, lock>>

\* Mutant: whatever another request has built is good enough.
AnyIsFresh(key) == cached.key # <<NoTree, NoTree>>

\* What another request has built meanwhile is taken when it is of the same commits.
IsFresh(key) == cached.key = key

LockedCanon(t) ==
  /\ thread[t].at = "canon"
  /\ LET key == <<thread[t].key[1], head.canon>>
     IN IF IsFresh(key)
        THEN lock' = {} /\ Become(t, [thread[t] EXCEPT !.key = key, !.held = cached, !.at = "check"])
        ELSE lock' = lock /\ Become(t, [thread[t] EXCEPT !.key = key, !.at = "build"])
  /\ Keep /\ UNCHANGED cached

Unavailable(t) == Become(t, [thread[t] EXCEPT !.down = TRUE, !.at = "fallback"])

\* The document is built from the commits of the key, wherever the refs are now.
BuildDocument(t) ==
  /\ thread[t].at = "build"
  /\ LET new == [key |-> thread[t].key, of |-> thread[t].key]
     IN IF Readable(thread[t].key)
        THEN cached' = new /\ Become(t, [thread[t] EXCEPT !.held = new, !.at = "check"])
        ELSE cached' = cached /\ Unavailable(t)
  /\ lock' = {} /\ Keep

\* A command fails or takes too long.
GitFails(t) ==
  /\ thread[t].at \in {"first", "first canon", "main", "canon", "build"}
  /\ lock' = lock \ {t} /\ Unavailable(t)
  /\ Keep /\ UNCHANGED cached

-----------------------------------------------------------------------------
(* A file, and HTTP.                                                       *)

\* Every look at the document asks for the file's stamp; only a new stamp reads it.
Stat(t) ==
  /\ thread[t].at = "stat"
  /\ LET key == <<head.main, NoTree>>
     IN Become(t, IF cached.key = key THEN [thread[t] EXCEPT !.key = key, !.held = cached, !.at = "check"]
                  ELSE [thread[t] EXCEPT !.key = key, !.at = "load"])
  /\ Keep /\ UNCHANGED <<cached, lock>>

\* The file may be a later one than the stamp says.
Load(t) ==
  /\ thread[t].at = "load"
  /\ LET now == <<head.main, NoTree>>
         new == [key |-> thread[t].key, of |-> now]
     IN IF Readable(now)
        THEN cached' = new /\ Become(t, [thread[t] EXCEPT !.held = new, !.at = "check"])
        ELSE cached' = cached /\ Unavailable(t)
  /\ Keep /\ UNCHANGED lock

\* 404 says that it is not there; no connection, another error and a body that is no
\* object all say that the service cannot be used.
Http(t) ==
  /\ thread[t].at = "http"
  /\ \/ Unavailable(t)
     \/ Become(t, [thread[t] EXCEPT !.at = "done", !.answer = [is |-> "missing", of |-> Key, refs |-> {}, home |-> {}]])
     \/ Become(t, [thread[t] EXCEPT !.at = "done", !.answer = [is |-> "relayed", of |-> Key, refs |-> {}, home |-> {}]])
  /\ Keep /\ UNCHANGED <<cached, lock>>

-----------------------------------------------------------------------------
(* Answers.                                                                *)

Scenes(d) == DOMAIN d.home

\* _require_scene: a scene is found under the Project its own text names.
Passes(d, a, check) ==
  IF check = "project" THEN a.project \in d.projects
  ELSE a.scene \in Scenes(d) /\ d.home[a.scene] = a.project

IsThere(d, a) ==
  CASE a.op \in {"scenes", "canons", "shots"} -> TRUE
    [] a.op = "scene" -> a.scene \in Scenes(d)
    [] a.op = "shot" -> a.scene \in Scenes(d) /\ a.id \in d.shots[a.scene]
    [] a.op = "canon" -> \E r \in d.canon[a.project] : r.path = a.id

RefsOf(d, a) ==
  CASE a.op = "scene" -> d.refs[a.scene]
    [] a.op = "canons" -> d.canon[a.project]
    [] a.op = "canon" -> {r \in d.canon[a.project] : r.path = a.id}
    [] OTHER -> {}

HomeOf(d, a) == IF a.op = "scene" THEN {d.home[a.scene]} ELSE {}

Answered(t, is) ==
  LET r == thread[t]
      full == is \in {"answer", "kept"}
      d == IF is = "kept" THEN Snapshot ELSE Document(r.held.of)
  IN [Unasked EXCEPT !.at = "done", !.ask = r.ask, !.since = r.since, !.down = r.down,
        !.answer = [is |-> is, of |-> IF is \in {"kept", "unavailable"} THEN <<NoTree, NoTree>> ELSE r.held.of,
                    refs |-> IF full THEN RefsOf(d, r.ask) ELSE {}, home |-> IF full THEN HomeOf(d, r.ask) ELSE {}]]

\* The document of a commit is looked at as often as needed; a file is read again
\* each time, and a scene that was there may be gone (a KeyError).
Check(t) ==
  LET r == thread[t]
      d == Document(r.held.of)
  IN /\ r.at = "check"
     /\ Become(t,
          IF r.checks # <<>>
          THEN IF Passes(d, r.ask, Head(r.checks))
               THEN [r EXCEPT !.checks = Tail(@), !.at = IF kind = "fixture" THEN "stat" ELSE "check"]
               ELSE Answered(t, "missing")
          ELSE IF IsThere(d, r.ask) THEN Answered(t, "answer")
          ELSE Answered(t, IF r.ask.op = "scene" THEN "broken" ELSE "missing"))
     /\ Keep /\ UNCHANGED <<cached, lock>>

\* _external_or_cached: only a source that cannot be used is replaced.
InSnapshot(a) ==
  CASE a.op = "shot" -> \E s \in Scenes(Snapshot) : a.id \in Snapshot.shots[s]
    [] a.op \in {"scene", "shots"} -> a.scene \in Scenes(Snapshot)
    [] OTHER -> IsThere(Snapshot, a)

Fallback(t) ==
  /\ thread[t].at = "fallback"
  /\ Become(t, Answered(t, IF Snapshot # Nowhere /\ InSnapshot(thread[t].ask) THEN "kept" ELSE "unavailable"))
  /\ Keep /\ UNCHANGED <<cached, lock>>

-----------------------------------------------------------------------------
\* The ref is fetched, or reset; the file is written.
Turn(h) ==
  /\ head.moves < MaxMoves /\ head' = [h EXCEPT !.moves = @ + 1]
  /\ thread' = [t \in Threads |->
       IF thread[t].at \in {"idle", "done"} THEN thread[t]
       ELSE [thread[t] EXCEPT !.since = [main |-> @.main \cup {h.main}, canon |-> @.canon \cup {h.canon}]]]
  /\ UNCHANGED <<kind, cached, lock>>

RefMoves ==
  \/ \E m \in DOMAIN Trees : (kind = "fixture" => m > head.main) /\ Turn([head EXCEPT !.main = m])
  \/ \E c \in DOMAIN CanonTrees : head.canon \notin {NoTree, c} /\ Turn([head EXCEPT !.canon = c])

Serve(t) ==
  \/ \E a \in Asks : Arrive(t, a)
  \/ FirstMain(t) \/ FirstCanon(t) \/ Lock(t) \/ LockedMain(t) \/ LockedCanon(t) \/ BuildDocument(t) \/ GitFails(t)
  \/ Stat(t) \/ Load(t) \/ Http(t) \/ Check(t) \/ Fallback(t)

SourceNext == RefMoves \/ \E t \in Threads : Serve(t)

SourceSpec == SourceInit /\ [][SourceNext]_sourceVars

-----------------------------------------------------------------------------
(* Properties.                                                             *)

SourceTypeOK ==
  /\ head.main \in Heads /\ lock \subseteq Threads
  /\ \A t \in Threads :
       thread[t].at \in {"idle", "first", "first canon", "lock", "main", "canon", "build", "stat", "load", "http",
                         "check", "fallback", "done"}

Finished(t) == thread[t].at = "done" /\ kind # "http"

\* What a request is told is of trees the refs pointed at while it was answered,
\* however many requests build and keep documents at the same time, and however
\* the refs move.
AnswersAreCurrent ==
  \A t \in Threads :
    Finished(t) /\ thread[t].answer.is \in {"answer", "missing", "broken"} =>
      /\ thread[t].answer.of[1] \in thread[t].since.main
      /\ thread[t].answer.of[2] \in thread[t].since.canon

\* A document is of the commits it is kept for; a file is at most newer than its
\* stamp, and then its stamp is never seen again.
KeptUnderItsKey ==
  /\ kind = "git" => cached.of = cached.key
  /\ kind = "fixture" => cached.key[1] <= cached.of[1] /\ cached.of[1] <= head.main

\* All references of an answer are of one commit of each repository, and of a file
\* that is in it.
ReferencesAreOfOneCommit ==
  \A t \in Threads :
    Finished(t) /\ thread[t].answer.is = "answer" =>
      \A r \in thread[t].answer.refs :
        IF r.second THEN r.rev = thread[t].answer.of[2] /\ r.path \in CanonTrees[r.rev]
        ELSE r.rev = thread[t].answer.of[1] /\ r.path \in Trees[r.rev].files

\* A scene is answered to the Project its text names, also when two Projects have a
\* scene of that name, unless the file was written during the request; only then can
\* a document break under it; the snapshot stands in only for a source that did not
\* answer.
ScenesAreOwn ==
  \A t \in Threads :
    LET given == thread[t].answer
        written == kind = "fixture" /\ Cardinality(thread[t].since.main) > 1
    IN Finished(t) =>
         /\ given.is = "answer" => written \/ given.home \subseteq {thread[t].ask.project}
         /\ given.is = "broken" => written
         /\ given.is \in {"kept", "unavailable"} => thread[t].down

\* The lock is held by who builds, and given back by all who end.
LockIsReturned == \A t \in Threads : t \in lock <=> thread[t].at \in {"main", "canon", "build"}

SourceSound ==
  SourceTypeOK /\ AnswersAreCurrent /\ KeptUnderItsKey /\ ReferencesAreOfOneCommit /\ ScenesAreOwn /\ LockIsReturned
=============================================================================
