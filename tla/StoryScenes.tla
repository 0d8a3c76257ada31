---------------------------- MODULE StoryScenes -----------------------------
(***************************************************************************)
(* Characters, costumes, scenes and lines of a Project (story.py).         *)
(*                                                                         *)
(* A handler reads and checks first, in statements that hold no lock, and  *)
(* writes in one transaction what it decided from that.  A request is      *)
(* therefore two steps.  The ORM writes a column only where it differs     *)
(* from what was loaded and a row by its id; foreign keys and unique       *)
(* indexes are checked when it writes, and what breaks them is refused as  *)
(* a whole.                                                                *)
(***************************************************************************)
EXTENDS Naturals, Sequences, FiniteSets, SequencesExt, FiniteSetsExt

CONSTANTS
  Characters,   \* ids; an id is used once
  Costumes,     \* ids of costumes
  CostumeOf,    \* [Costumes -> Characters]: whose costume it will be
  Scenes,       \* ids of scenes
  Lines,        \* ids of lines of dialogue
  Editors,      \* requests that may overlap
  CastsTried,   \* bound: the casts that payloads have
  MaxLines,     \* bound: lines in one payload
  MaxEdits,     \* bound: requests made
  Kept,         \* a field the payload leaves out
  Plain         \* no costume

ASSUME StoryAssumption ==
  /\ CostumeOf \in [Costumes -> Characters]
  /\ CastsTried \subseteq SUBSET [who : Characters, wears : Costumes \cup {Plain}]
  /\ Plain \notin Costumes

NoRequest == [op |-> "none"]

VARIABLES
  people,       \* SUBSET Characters: rows of story_character
  wardrobe,     \* SUBSET Costumes
  sequence,     \* [rows of story_scene -> Nat]: their sequence
  cast,         \* [Scenes -> SUBSET [who, wears]]
  line,         \* [rows of story_scene_dialogue -> [scene, position, speaker]]
  voiced,       \* SUBSET Lines: lines with an adopted voice
  accepted,     \* SUBSET Lines: lines whose voice is "accepted" by its adoption
  edit,         \* [Editors -> what the request has read and wants]
  given,        \* ids handed out so far
  left,         \* requests that may still be made
  cascaded,     \* history: lines whose adoption went with them, unseen
  asked         \* history: the order a reorder has just been granted, or <<>>

storyVars == <<people, wardrobe, sequence, cast, line, voiced, accepted, edit, given,
               left, cascaded, asked>>
rows == <<people, wardrobe, sequence, cast, line, voiced, accepted>>

LinesOf(s) == {l \in DOMAIN line : line[l].scene = s}
Members == UNION {cast[s] : s \in DOMAIN sequence}
Speakers == {line[l].speaker : l \in DOMAIN line}

StoryTypeOK ==
  /\ people \in SUBSET Characters /\ wardrobe \in SUBSET Costumes
  /\ DOMAIN sequence \subseteq Scenes /\ DOMAIN line \subseteq Lines
  /\ \A s \in DOMAIN sequence : sequence[s] \in Nat \ {0}
  /\ cast \in [Scenes -> SUBSET [who : Characters, wears : Costumes \cup {Plain}]]
  /\ \A l \in DOMAIN line : line[l] \in [scene : Scenes, position : Nat, speaker : Characters]

StoryInit ==
  /\ people = {} /\ wardrobe = {}
  /\ sequence = <<>> /\ line = <<>>
  /\ cast = [s \in Scenes |-> {}]
  /\ voiced = {} /\ accepted = {}
  /\ edit = [e \in Editors |-> NoRequest]
  /\ given = {}
  /\ left = MaxEdits
  /\ cascaded = {}
  /\ asked = <<>>

-----------------------------------------------------------------------------
(* Payloads and their checks.                                              *)

\* A character at most once.
Casts == {c \in CastsTried : \A m, n \in c : m.who = n.who => m = n}

\* Ids in the order wanted; those of no line yet are the ids new lines get.
Scripts == {w \in UNION {[1 .. n -> Lines] : n \in 0 .. MaxLines} : IsInjective(w)}

\* Mutant: a costume is not compared with the character that wears it.
AnyCostume(c, who) ==
  \A m \in c : m.who \in people /\ m.wears \in wardrobe \cup {Plain}

\* _validate_cast_and_dialogues.
ValidCast(c, who) ==
  /\ who \subseteq people
  /\ \A m \in c : m.who \in people
                  /\ (m.wears # Plain => m.wears \in wardrobe /\ CostumeOf[m.wears] = m.who)

Fresh(ids) == ids \cap given = {}

\* Mutant: the id of any line is taken for one of the scene's own.
AnyLine(existing, w) == Range(w) \subseteq existing \cup DOMAIN line \cup (Lines \ given)

\* Every id in the payload is a line of this scene, or new.
OwnLines(existing, w) == Range(w) \subseteq existing \cup (Lines \ given)

-----------------------------------------------------------------------------
(* Requests: what they read.                                               *)

Ask(e, r, ids) ==
  /\ edit[e] = NoRequest
  /\ left > 0
  /\ left' = left - 1
  /\ edit' = [edit EXCEPT ![e] = r]
  /\ given' = given \cup ids
  /\ asked' = <<>>
  /\ UNCHANGED <<rows, cascaded>>

NextSequence == Max({0} \cup Range(sequence)) + 1

BeginCreateScene(e, s, c, w, speaker) ==
  /\ Fresh({s} \cup Range(w))
  /\ ValidCast(c, IF w = <<>> THEN {} ELSE {speaker})
  /\ Ask(e, [op |-> "create", scene |-> s, sequence |-> NextSequence, cast |-> c,
             script |-> w, speaker |-> speaker], {s} \cup Range(w))

\* A payload with a cast deletes the old one first, which opens the transaction
\* before the lines are read; without one they are read before it.
BeginUpdateScene(e, s, c, w, speaker) ==
  /\ s \in DOMAIN sequence
  /\ c # Kept \/ w # Kept
  /\ ValidCast(IF c = Kept THEN cast[s] ELSE c,
               IF w = Kept THEN {line[l].speaker : l \in LinesOf(s)}
               ELSE IF w = <<>> THEN {} ELSE {speaker})
  /\ w # Kept => OwnLines(LinesOf(s), w)
  /\ Ask(e, [op |-> "update", scene |-> s, cast |-> c, script |-> w, speaker |-> speaker,
             existing |-> [l \in LinesOf(s) |-> line[l].speaker], voiced |-> voiced \cap LinesOf(s)],
         IF w = Kept THEN {} ELSE Range(w))

BeginDeleteScene(e, s) ==
  /\ s \in DOMAIN sequence
  /\ Ask(e, [op |-> "delete", scene |-> s, voiced |-> voiced \cap LinesOf(s)], {})

\* The payload names every scene there is once.
BeginReorder(e, order) ==
  /\ Range(order) = DOMAIN sequence
  /\ Ask(e, [op |-> "reorder", order |-> order, loaded |-> sequence], {})

BeginCreateCostume(e, k) ==
  /\ Fresh({k})
  /\ CostumeOf[k] \in people
  /\ Ask(e, [op |-> "costume", costume |-> k], {k})

\* Refused while a scene uses it.
BeginDeleteCostume(e, k) ==
  /\ k \in wardrobe
  /\ \A m \in Members : m.wears # k
  /\ Ask(e, [op |-> "no costume", costume |-> k], {})

BeginDeleteCharacter(e, ch) ==
  /\ ch \in people \ Speakers
  /\ \A m \in Members : m.who # ch
  /\ Ask(e, [op |-> "no character", character |-> ch], {})

-----------------------------------------------------------------------------
(* Requests: what they write.                                              *)

Done(e) == edit' = [edit EXCEPT ![e] = NoRequest]

\* A constraint, or a row that is gone, refuses the transaction.
Refuse(e) ==
  /\ Done(e)
  /\ asked' = <<>>
  /\ UNCHANGED <<rows, given, left, cascaded>>

\* Mutant: foreign keys are off, SQLite's default.
NoForeignKeys(c, who) == TRUE

ForeignKeys(c, who) ==
  /\ who \subseteq people
  /\ \A m \in c : m.who \in people /\ m.wears \in wardrobe \cup {Plain}

\* The lines of the scene once the payload replaces those that were read: kept
\* ones move, new ones are added, those left out go.  A line that somebody else
\* added meanwhile stays.
Placed(r, existing) ==
  LET w == r.script
      dropped == DOMAIN existing \ Range(w)
      At(l) == CHOOSE i \in DOMAIN w : w[i] = l
      Speaker(l) == IF l \in DOMAIN existing /\ existing[l] = r.speaker
                    THEN line[l].speaker ELSE r.speaker
  IN [l \in (DOMAIN line \ dropped) \cup Range(w) |->
        IF l \in Range(w) THEN [scene |-> r.scene, position |-> At(l) - 1, speaker |-> Speaker(l)]
        ELSE line[l]]

\* uq_story_scene_dialogue_position.
PositionsDiffer(after) ==
  \A l, m \in DOMAIN after :
    l # m => after[l].scene # after[m].scene \/ after[l].position # after[m].position

\* Lines go, and with them, by cascade, their adoptions; the decisions of the
\* adoptions that were seen before are reverted.
Without(gone, seen) ==
  /\ voiced' = voiced \ gone
  /\ accepted' = accepted \ (gone \cap seen)
  /\ cascaded' = cascaded \cup ((voiced \cap gone) \ seen)

CommitCreateScene(e) ==
  LET r == edit[e] IN
  /\ r.op = "create"
  /\ IF ForeignKeys(r.cast, IF r.script = <<>> THEN {} ELSE {r.speaker})
     THEN /\ sequence' = [s \in DOMAIN sequence \cup {r.scene} |->
                            IF s = r.scene THEN r.sequence ELSE sequence[s]]
          /\ cast' = [cast EXCEPT ![r.scene] = r.cast]
          /\ line' = Placed(r, <<>>)
          /\ Done(e)
          /\ asked' = <<>>
          /\ UNCHANGED <<people, wardrobe, voiced, accepted, given, cascaded, left>>
     ELSE Refuse(e)

CommitUpdateScene(e) ==
  LET r == edit[e]
      existing == IF r.cast = Kept THEN r.existing
                  ELSE [l \in LinesOf(r.scene) |-> line[l].speaker]
      seen == IF r.cast = Kept THEN r.voiced ELSE voiced
      \* a line to be kept that is not the scene's any more
      missing == Range(r.script) \cap (DOMAIN r.existing \ DOMAIN line)
      after == IF r.script = Kept THEN line ELSE Placed(r, existing)
      who == IF r.script \in {Kept, <<>>} THEN {} ELSE {r.speaker}
  IN
  /\ r.op = "update"
  /\ IF /\ r.scene \in DOMAIN sequence
        /\ ForeignKeys(IF r.cast = Kept THEN {} ELSE r.cast, who)
        /\ r.script # Kept => missing = {} /\ PositionsDiffer(after)
     THEN /\ cast' = IF r.cast = Kept THEN cast ELSE [cast EXCEPT ![r.scene] = r.cast]
          /\ line' = after
          /\ Without(DOMAIN line \ DOMAIN after, seen)
          /\ Done(e)
          /\ asked' = <<>>
          /\ UNCHANGED <<people, wardrobe, sequence, given, left>>
     ELSE Refuse(e)

CommitDeleteScene(e) ==
  LET r == edit[e] IN
  /\ r.op = "delete"
  /\ sequence' = [s \in DOMAIN sequence \ {r.scene} |-> sequence[s]]
  /\ cast' = [cast EXCEPT ![r.scene] = {}]
  /\ line' = [l \in DOMAIN line \ LinesOf(r.scene) |-> line[l]]
  /\ Without(LinesOf(r.scene), r.voiced)
  /\ Done(e)
  /\ asked' = <<>>
  /\ UNCHANGED <<people, wardrobe, given, left>>

\* Only the numbers that differ from those loaded are written.
CommitReorder(e) ==
  LET r == edit[e]
      At(s) == CHOOSE i \in DOMAIN r.order : r.order[i] = s
  IN
  /\ r.op = "reorder"
  /\ IF Range(r.order) \subseteq DOMAIN sequence
     THEN /\ sequence' = [s \in DOMAIN sequence |->
               IF s \in Range(r.order) /\ r.loaded[s] # At(s) THEN At(s) ELSE sequence[s]]
          /\ Done(e)
          /\ asked' = r.order
          /\ UNCHANGED <<people, wardrobe, cast, line, voiced, accepted, given, cascaded, left>>
     ELSE Refuse(e)

CommitCreateCostume(e) ==
  LET r == edit[e] IN
  /\ r.op = "costume"
  /\ IF ForeignKeys({}, {CostumeOf[r.costume]})
     THEN /\ wardrobe' = wardrobe \cup {r.costume}
          /\ Done(e)
          /\ asked' = <<>>
          /\ UNCHANGED <<people, sequence, cast, line, voiced, accepted, given, cascaded, left>>
     ELSE Refuse(e)

\* Mutant: what refers to the row is not looked at when it is deleted.
NothingRestricts(ids) == TRUE

\* No scene refers to these characters or costumes.
Unused(ids) ==
  /\ ids \cap Speakers = {}
  /\ \A m \in Members : m.who \notin ids /\ m.wears \notin ids

CommitDeleteCostume(e) ==
  LET r == edit[e] IN
  /\ r.op = "no costume"
  /\ IF Unused({r.costume})
     THEN /\ wardrobe' = wardrobe \ {r.costume}
          /\ Done(e)
          /\ asked' = <<>>
          /\ UNCHANGED <<people, sequence, cast, line, voiced, accepted, given, cascaded, left>>
     ELSE Refuse(e)

\* The character goes with the costumes it has by now.
CommitDeleteCharacter(e) ==
  LET r == edit[e]
      costumes == {k \in wardrobe : CostumeOf[k] = r.character}
  IN
  /\ r.op = "no character"
  /\ IF Unused({r.character} \cup costumes)
     THEN /\ people' = people \ {r.character}
          /\ wardrobe' = wardrobe \ costumes
          /\ Done(e)
          /\ asked' = <<>>
          /\ UNCHANGED <<sequence, cast, line, voiced, accepted, given, cascaded, left>>
     ELSE Refuse(e)

CreateCharacter(ch) ==
  /\ Fresh({ch})
  /\ people' = people \cup {ch}
  /\ given' = given \cup {ch}
  /\ asked' = <<>>
  /\ UNCHANGED <<wardrobe, sequence, cast, line, voiced, accepted, edit, cascaded, left>>

\* The user adopts a voice for a line, or gives it up (ArtifactStore has how).
AdoptVoice(l) ==
  /\ l \in DOMAIN line \ voiced
  /\ voiced' = voiced \cup {l}
  /\ accepted' = accepted \cup {l}
  /\ asked' = <<>>
  /\ UNCHANGED <<people, wardrobe, sequence, cast, line, edit, given, cascaded, left>>

ReleaseVoice(l) ==
  /\ l \in voiced
  /\ voiced' = voiced \ {l}
  /\ accepted' = accepted \ {l}
  /\ asked' = <<>>
  /\ UNCHANGED <<people, wardrobe, sequence, cast, line, edit, given, cascaded, left>>

\* One speaker for the new words of a payload; without any it is all the same.
SpeakersFor(w) == IF w \in {Kept, <<>>} THEN {CHOOSE ch \in Characters : TRUE} ELSE Characters

Begin(e) ==
  /\ edit[e] = NoRequest /\ left > 0
  /\ \/ \E s \in Scenes, w \in Scripts \cup {Kept} : \E speaker \in SpeakersFor(w) :
          \/ w # Kept /\ \E c \in Casts : BeginCreateScene(e, s, c, w, speaker)
          \/ \E c \in Casts \cup {Kept} : BeginUpdateScene(e, s, c, w, speaker)
     \/ \E s \in Scenes : BeginDeleteScene(e, s)
     \/ \E order \in SetToSeqs(DOMAIN sequence) : BeginReorder(e, order)
     \/ \E k \in Costumes : BeginCreateCostume(e, k) \/ BeginDeleteCostume(e, k)
     \/ \E ch \in Characters : BeginDeleteCharacter(e, ch)

StoryNext ==
  \/ \E e \in Editors :
       \/ Begin(e)
       \/ CommitCreateScene(e)
       \/ CommitUpdateScene(e)
       \/ CommitDeleteScene(e)
       \/ CommitReorder(e)
       \/ CommitCreateCostume(e)
       \/ CommitDeleteCostume(e)
       \/ CommitDeleteCharacter(e)
  \/ \E ch \in Characters : CreateCharacter(ch)
  \/ \E l \in Lines : AdoptVoice(l) \/ ReleaseVoice(l)

StorySpec == StoryInit /\ [][StoryNext]_storyVars

-----------------------------------------------------------------------------
(* Properties.                                                             *)

\* What a scene shows stands: its members and speakers exist, a costume is one
\* of its wearer's own, lines belong to a scene that exists and have a place
\* each; no voice is adopted for a line that is gone, and none is left accepted
\* but those that were adopted while their line was being removed.
StoryStands ==
  /\ \A s \in DOMAIN sequence : \A m \in cast[s] :
       /\ m.who \in people
       /\ m.wears # Plain => m.wears \in wardrobe /\ CostumeOf[m.wears] = m.who
  /\ \A l \in DOMAIN line : line[l].scene \in DOMAIN sequence /\ line[l].speaker \in people
  /\ PositionsDiffer(line)
  /\ voiced \subseteq DOMAIN line
  /\ accepted \subseteq voiced \cup cascaded

\* Editing a scene, however often and with whomever, moves no line to another
\* scene and costs no line that stays its voice; only giving the voice up does.
LinesKeepVoices ==
  [][\A l \in DOMAIN line \cap DOMAIN line' :
       /\ line'[l].scene = line[l].scene
       /\ edit' # edit => (l \in voiced => l \in voiced')]_storyVars

\* A reorder that is granted is the order the scenes have then.
ReorderTakesEffect ==
  \A i, j \in DOMAIN asked : i < j => sequence[asked[i]] < sequence[asked[j]]
=============================================================================
