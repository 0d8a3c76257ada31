---------------------------- MODULE StoryImport -----------------------------
(***************************************************************************)
(* story_import.py and legacy_links.py: characters and scenes are made     *)
(* from a Project's snapshot and its old settings, what is there already   *)
(* is left alone, and Artifacts filed under an old scene are linked to the *)
(* new one.  Each run plans from several reads, with awaits in between,    *)
(* and applies the plan in one transaction.                                *)
(*                                                                         *)
(* Names are compared without case, so a name here stands for its key; how *)
(* tags and texts are cut to size is left out.                             *)
(***************************************************************************)
EXTENDS Naturals, Sequences, FiniteSets, SequencesExt, FiniteSetsExt

CONSTANTS
  Sources,      \* snapshots with settings: [canon, legacy, scenes, shots]
  PersonIds,    \* ids of rows of story_character; an id is used once
  SceneIds,     \* ids of rows of story_scene
  Names,        \* names a user may give a character
  Works,        \* Artifacts
  Filed,        \* [Works -> [scene, shot]]: where the old pages filed them
  Runs,         \* requests that may overlap
  MaxActs,      \* bound: changes made by users and by synchronisation
  None          \* no reference, no link

ASSUME ImportAssumption ==
  \A s \in Sources : /\ s.canon \in Seq(Range(s.canon)) /\ s.legacy \in Seq(Range(s.legacy))
                     /\ s.scenes \in Seq(Range(s.scenes))

Nothing == [op |-> "none"]

VARIABLES
  source,       \* the Project's snapshot and settings
  claimed,      \* scenes and shots that snapshots of other Projects have too
  persons,       \* [rows of story_character -> [name, ref]]
  scenes,       \* [rows of story_scene -> [ref, sequence, cast]]
  owned,        \* SUBSET Works: assigned_project_id is this Project, else empty
  binned,       \* SUBSET Works: in the trash
  link,         \* [Works -> rows of story_scene or None]: story_scene_id
  run,          \* [Runs -> what it has read and planned]
  spent,        \* ids handed out so far
  acts,         \* changes that may still be made
  settled,      \* history: an import has finished and nothing changed since
  baffled       \* history: an import was refused although nothing had changed

importVars == <<source, claimed, persons, scenes, owned, binned, link, run, spent, acts, settled, baffled>>

ImportTypeOK ==
  /\ source \in Sources
  /\ DOMAIN persons \subseteq PersonIds /\ DOMAIN scenes \subseteq SceneIds
  /\ owned \in SUBSET Works /\ binned \in SUBSET Works
  /\ link \in [Works -> SceneIds \cup {None}]
  /\ settled \in BOOLEAN /\ baffled \in BOOLEAN

ImportInit ==
  /\ source \in Sources
  /\ claimed = {}
  /\ persons = <<>> /\ scenes = <<>>
  /\ owned \in SUBSET Works
  /\ binned = {}
  /\ link = [w \in Works |-> None]
  /\ run = [i \in Runs |-> Nothing]
  /\ spent = {}
  /\ acts = MaxActs
  /\ settled = FALSE
  /\ baffled = FALSE

-----------------------------------------------------------------------------
(* The plan.                                                               *)

\* The first of each name, or of each id; the others are duplicates.
FirstOfName(items) ==
  {items[i] : i \in {j \in DOMAIN items : \A h \in 1 .. j - 1 : items[h].name # items[j].name}}
FirstOfRef(items) ==
  {items[i] : i \in {j \in DOMAIN items : \A h \in 1 .. j - 1 : items[h].ref # items[j].ref}}

\* Canon characters, and the old characters that canon has no name for.
\* An old character that is not the first of its name counts as the first.
Collected(src) ==
  LET canon == FirstOfName(src.canon)
      legacy == FirstOfName(src.legacy)
  IN canon \cup {l \in legacy : \A c \in canon : c.name # l.name}

\* Two characters with the same id would break a unique index: refused at once.
Clashing(src) == \E c, d \in Collected(src) : c # d /\ c.ref = d.ref

Empty(src) == src.canon = <<>> /\ src.legacy = <<>> /\ src.scenes = <<>>

\* Mutant: a character is looked for by its reference alone.
KnownByRef(c, rows) == {p \in DOMAIN rows : rows[p].ref = c.ref}

\* The row this character has already, by reference or by name.
Known(c, rows) == {p \in DOMAIN rows : rows[p].ref = c.ref \/ rows[p].name = c.name}

NewPeople(src, rows) == {c \in Collected(src) : Known(c, rows) = {}}

\* The row that a member of a scene, named by its old id, has or will have.
\* by_ref comes before by_name.
RowOf(src, rows, ids, member) ==
  LET name == (CHOOSE l \in Range(src.legacy) : l.ref = member).name
      c == CHOOSE d \in Collected(src) : d.name = name
      exact == {p \in DOMAIN rows : rows[p].ref = c.ref}
  IN IF c \in DOMAIN ids THEN ids[c]
     ELSE CHOOSE p \in (IF exact # {} THEN exact ELSE Known(c, rows)) : TRUE

NewScenes(src, rows) ==
  {s \in FirstOfRef(src.scenes) : \A r \in DOMAIN rows : rows[r].ref # s.ref}

\* Scenes go behind those there are, in the order of the snapshot.
PlannedScenes(src, rows, at, chosen, member) ==
  LET new == NewScenes(src, rows)
      Place(s) == Cardinality({t \in new : \E i, j \in DOMAIN src.scenes :
                     i < j /\ src.scenes[i] = t /\ src.scenes[j] = s
                     /\ \A h \in 1 .. j - 1 : src.scenes[h] # s})
  IN [id \in Range(chosen) |->
        LET s == CHOOSE t \in new : chosen[t] = id IN
        [ref |-> s.ref, sequence |-> at + Place(s),
         cast |-> {member[m] : m \in s.members \cap DOMAIN member}]]

\* New ids; which ones does not matter.
IdsFor(new, free) == CHOOSE f \in Injection(new, free) : TRUE

\* Rows, and the rows that are added to them.
Joined(rows, more) ==
  [x \in DOMAIN rows \cup DOMAIN more |-> IF x \in DOMAIN rows THEN rows[x] ELSE more[x]]

-----------------------------------------------------------------------------
(* The import.                                                             *)

Become(i, r) == run' = [run EXCEPT ![i] = r]

\* Old settings and characters are read, and ids chosen for the new ones.
BeginImport(i) ==
  /\ run[i] = Nothing
  /\ ~Empty(source) /\ ~Clashing(source)
  /\ LET new == NewPeople(source, persons)
         ids == IdsFor(new, PersonIds \ spent)
     IN /\ ExistsInjection(new, PersonIds \ spent)
        /\ Become(i, [op |-> "people", source |-> source, ids |-> ids, quiet |-> TRUE,
                      member |-> [m \in {l.ref : l \in Range(source.legacy)} |->
                                    RowOf(source, persons, ids, m)]])
        /\ spent' = spent \cup Range(ids)
  /\ UNCHANGED <<source, claimed, persons, scenes, owned, binned, link, acts, settled,
                 baffled>>

\* References of images are looked at in between: then the scenes are read.
PlanScenes(i) ==
  LET r == run[i]
      at == Max({0} \cup {scenes[s].sequence : s \in DOMAIN scenes}) + 1
  IN
  /\ r.op = "people"
  /\ LET new == NewScenes(r.source, scenes)
         chosen == IdsFor(new, SceneIds \ spent)
     IN
       /\ ExistsInjection(new, SceneIds \ spent)
       /\ Become(i, [op |-> "import", source |-> r.source, ids |-> r.ids, quiet |-> r.quiet,
                     scenes |-> PlannedScenes(r.source, scenes, at, chosen, r.member)])
       /\ spent' = spent \cup Range(chosen)
  /\ UNCHANGED <<source, claimed, persons, scenes, owned, binned, link, acts, settled,
                 baffled>>

\* Whatever is under way has not seen this change.
Disturb(others) ==
  [i \in Runs |-> IF i \in others /\ run[i].op \in {"people", "import"}
                  THEN [run[i] EXCEPT !.quiet = FALSE] ELSE run[i]]

\* Mutant: there are no unique indexes, nor foreign keys.
NoIndexes(newPeople, newScenes) == TRUE

\* uq_story_character_name, the indexes on source_ref, and the members' keys.
Allowed(newPeople, newScenes) ==
  /\ \A p \in DOMAIN newPeople, q \in DOMAIN persons :
       newPeople[p].name # persons[q].name /\ newPeople[p].ref # persons[q].ref
  /\ \A s \in DOMAIN newScenes, t \in DOMAIN scenes : newScenes[s].ref # scenes[t].ref
  /\ \A s \in DOMAIN newScenes : newScenes[s].cast \subseteq DOMAIN persons \cup DOMAIN newPeople

\* The rows of the characters that are planned, by their new ids.
RowsFor(ids) ==
  [p \in Range(ids) |-> LET c == CHOOSE d \in DOMAIN ids : ids[d] = p
                        IN [name |-> c.name, ref |-> c.ref]]

ApplyImport(i) ==
  LET r == run[i]
      newPeople == RowsFor(r.ids)
  IN
  /\ r.op = "import"
  /\ IF Allowed(newPeople, r.scenes)
     THEN /\ persons' = Joined(persons, newPeople)
          /\ scenes' = Joined(scenes, r.scenes)
          /\ settled' = r.quiet
          /\ run' = [Disturb(Runs \ {i}) EXCEPT ![i] = Nothing]
          /\ UNCHANGED baffled
     ELSE /\ baffled' = (baffled \/ r.quiet)
          /\ Become(i, Nothing)
          /\ UNCHANGED <<persons, scenes, settled>>
  /\ UNCHANGED <<source, claimed, owned, binned, link, spent, acts>>

-----------------------------------------------------------------------------
(* The links of old Artifacts.                                             *)

\* The scene of the snapshot an Artifact was filed under, by its shot if need be.
FiledScene(w) ==
  IF Filed[w].scene # None THEN Filed[w].scene
  ELSE IF Filed[w].shot \in DOMAIN source.shots THEN source.shots[Filed[w].shot] ELSE None

InSnapshot(w) ==
  IF Filed[w].scene # None THEN \E s \in Range(source.scenes) : s.ref = Filed[w].scene
  ELSE Filed[w].shot \in DOMAIN source.shots

Ambiguous(w) == (IF Filed[w].scene # None THEN Filed[w].scene ELSE Filed[w].shot) \in claimed

\* What can be linked, and to which row.
Targets(w) ==
  IF \/ w \in binned \/ link[w] # None
     \/ w \notin owned /\ (~InSnapshot(w) \/ Ambiguous(w))
  THEN {} ELSE {s \in DOMAIN scenes : scenes[s].ref # None /\ scenes[s].ref = FiledScene(w)}

BeginLinks(i) ==
  /\ run[i] = Nothing
  /\ Become(i, [op |-> "links", owned |-> owned, refs |-> [w \in Works |-> FiledScene(w)],
                to |-> [w \in {v \in Works : Targets(v) # {}} |-> CHOOSE s \in Targets(w) : TRUE]])
  /\ UNCHANGED <<source, claimed, persons, scenes, owned, binned, link, spent, acts, settled, baffled>>

\* Mutant: a link made since the plan is overwritten.
StillThere(r, w) == w \notin binned /\ (w \in r.owned <=> w \in owned)

\* The conditions of the UPDATE.
StillOpen(r, w) == link[w] = None /\ w \notin binned /\ (w \in r.owned <=> w \in owned)

\* A planned scene that is gone breaks the foreign key: nothing is linked.
ApplyLinks(i) ==
  LET r == run[i]
      linked == {w \in DOMAIN r.to : StillOpen(r, w)}
  IN
  /\ r.op = "links"
  /\ IF {r.to[w] : w \in linked} \subseteq DOMAIN scenes
     THEN /\ link' = [w \in Works |-> IF w \in linked THEN r.to[w] ELSE link[w]]
          /\ owned' = owned \cup linked
     ELSE UNCHANGED <<link, owned>>
  /\ Become(i, Nothing)
  /\ UNCHANGED <<source, claimed, persons, scenes, binned, spent, acts, settled, baffled>>

-----------------------------------------------------------------------------
(* What users and synchronisation do meanwhile.                            *)

Act ==
  /\ acts > 0
  /\ acts' = acts - 1
  /\ settled' = FALSE
  /\ run' = Disturb(Runs)
  /\ UNCHANGED <<owned, baffled>>

Synchronise ==
  /\ Act
  /\ source' \in Sources \ {source}
  /\ UNCHANGED <<claimed, persons, scenes, binned, link, spent>>

OtherProjectClaims ==
  /\ Act
  /\ \E w \in Works : claimed' = claimed \cup {Filed[w].scene, Filed[w].shot}
  /\ UNCHANGED <<source, persons, scenes, binned, link, spent>>

AddPerson(p, n) ==
  /\ Act
  /\ p \notin spent
  /\ \A q \in DOMAIN persons : persons[q].name # n
  /\ persons' = Joined(persons, [x \in {p} |-> [name |-> n, ref |-> None]])
  /\ spent' = spent \cup {p}
  /\ UNCHANGED <<source, claimed, scenes, binned, link>>

RenamePerson(p, n) ==
  /\ Act
  /\ p \in DOMAIN persons
  /\ \A q \in DOMAIN persons : persons[q].name # n
  /\ persons' = [persons EXCEPT ![p].name = n]
  /\ UNCHANGED <<source, claimed, scenes, binned, link, spent>>

RemovePerson(p) ==
  /\ Act
  /\ p \in DOMAIN persons
  /\ \A s \in DOMAIN scenes : p \notin scenes[s].cast
  /\ persons' = [q \in DOMAIN persons \ {p} |-> persons[q]]
  /\ UNCHANGED <<source, claimed, scenes, binned, link, spent>>

\* The links of its Artifacts become empty with it.
RemoveScene(s) ==
  /\ Act
  /\ s \in DOMAIN scenes
  /\ scenes' = [t \in DOMAIN scenes \ {s} |-> scenes[t]]
  /\ link' = [w \in Works |-> IF link[w] = s THEN None ELSE link[w]]
  /\ UNCHANGED <<source, claimed, persons, binned, spent>>

LinkByHand(w, s) ==
  /\ Act
  /\ s \in DOMAIN scenes
  /\ link' = [link EXCEPT ![w] = s]
  /\ UNCHANGED <<source, claimed, persons, scenes, binned, spent>>

Bin(w) ==
  /\ Act
  /\ w \notin binned
  /\ binned' = binned \cup {w}
  /\ UNCHANGED <<source, claimed, persons, scenes, link, spent>>

ImportNext ==
  \/ \E i \in Runs :
       BeginImport(i) \/ PlanScenes(i) \/ ApplyImport(i) \/ BeginLinks(i) \/ ApplyLinks(i)
  \/ Synchronise
  \/ OtherProjectClaims
  \/ \E p \in PersonIds :
       \/ \E n \in Names : AddPerson(p, n) \/ RenamePerson(p, n)
       \/ RemovePerson(p)
  \/ \E s \in SceneIds : RemoveScene(s) \/ \E w \in Works : LinkByHand(w, s)
  \/ \E w \in Works : Bin(w)

ImportSpec == ImportInit /\ [][ImportNext]_importVars

-----------------------------------------------------------------------------
(* Properties.                                                             *)

\* However many imports overlap, with one another and with users, each
\* character and scene of the source is there at most once, and the members of
\* a scene exist.
OnePerSource ==
  /\ \A p, q \in DOMAIN persons : p # q =>
       /\ persons[p].name # persons[q].name
       /\ persons[p].ref = None \/ persons[p].ref # persons[q].ref
  /\ \A s, t \in DOMAIN scenes : s # t => scenes[s].ref # scenes[t].ref
  /\ \A s \in DOMAIN scenes : scenes[s].cast \subseteq DOMAIN persons

\* Importing again right after an import makes nothing, and an import is refused
\* only if something changed while it ran.
Repeatable ==
  /\ settled => NewPeople(source, persons) = {} /\ NewScenes(source, scenes) = {}
  /\ ~baffled

StoryImportSafe == OnePerSource /\ Repeatable

\* A run over old Artifacts touches only what has no link and is not in the
\* trash; it links what a scene was imported for to that scene.
LinksOnlyOpen ==
  [][\A i \in Runs, w \in Works :
       run[i].op = "links" /\ run'[i].op = "none" /\ link'[w] # link[w] =>
         /\ link[w] = None
         /\ w \notin binned
         /\ scenes[link'[w]].ref = run[i].refs[w]]_importVars
=============================================================================
