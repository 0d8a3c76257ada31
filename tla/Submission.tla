----------------------------- MODULE Submission -----------------------------
(***************************************************************************)
(* From a request to a queued Job: POST /generation-jobs, its preview, the *)
(* exact replay of a Job and its regeneration with the current canon       *)
(* (routers.py, story_links.py, story_voice.py, adapters/voice/plan.py,    *)
(* provenance.py).  Between the steps of a request others change what it   *)
(* has read: the references and whether they can be reached, the rows of   *)
(* the story, a character's voice, the files of an earlier Job.            *)
(*                                                                         *)
(* A row is read into the session once: what a request read of a Project   *)
(* or a character is what it goes on with.  The graph of a ComfyUI Job is  *)
(* WorkflowPreparation's; here it is fit or unfit.  The place in the queue *)
(* is JobQueue's.                                                          *)
(***************************************************************************)
EXTENDS Naturals, Sequences, FiniteSets, SequencesExt, FiniteSetsExt

CONSTANTS
  Requests,    \* records: see Request below
  Absent,      \* no value
  OwnerOf,     \* [rows of stories -> the row or the Project they belong to]
  External,    \* Projects whose scenes come from the reference source
  ShotsIn,     \* [editions -> [shots -> their scene]]
  CanonsOf,    \* [editions -> [scenes and shots -> the canons they declare]]
  Speakers,    \* [editions -> [shots -> the sequence of speakers of their lines]]
  Defaults,    \* [layers -> record [kind, recipe, inputs]], what each layer gives
  Recipes      \* [recipes -> record [kind, inputs]]

\* What a request has of the following: op, one of submit, preview, replay and
\* regenerate; kind, project, scene, shot; character, costume, stage (the scene
\* of the story) and line (of its dialogue); recipe, inherited, looks, inputs;
\* voices, a function from speakers to bindings; script, the speakers of lines
\* given directly; length, whether a duration is given, and pad; parent and the
\* parent that follows from the inputs; recorded, what a past Job has recorded.
Links == {"character", "costume", "stage", "line"}
Derived == {"replay", "regenerate"}
Editions == DOMAIN ShotsIn

Fields_ == {"op", "kind", "project", "scene", "shot", "character", "costume", "stage", "line", "recipe", "inherited",
            "looks", "inputs", "voices", "script", "length", "pad", "parent", "follows", "recorded"}
Binding == [reference : BOOLEAN, caption : BOOLEAN, canon : BOOLEAN]

\* Rows belong to a Project, or to rows that do.  References have a kind beside their
\* name, so that no canon is taken for a scene or a shot; a Manifest that was kept
\* names none twice.
ASSUME SubmissionAssumption ==
  /\ Absent \notin DOMAIN OwnerOf
  /\ \A r \in DOMAIN OwnerOf :
       OwnerOf[r] # Absent /\ (OwnerOf[r] \in DOMAIN OwnerOf => OwnerOf[OwnerOf[r]] \notin DOMAIN OwnerOf)
  /\ {1, 2} \subseteq Editions /\ 0 \notin Editions /\ \A e \in Editions : DOMAIN Speakers[e] = DOMAIN ShotsIn[e]
  /\ \A r \in Requests :
       LET own == {r.scene, r.shot} \ {Absent}
       IN /\ DOMAIN r = Fields_ /\ r.op \in Derived \cup {"submit", "preview"} /\ r.inherited \in BOOLEAN
          /\ Len(r.looks) \in Nat /\ DOMAIN r.looks = 1 .. Len(r.looks)
          /\ \A s \in DOMAIN r.voices : r.voices[s] \in Binding
          /\ r.scene = r.shot => r.scene = Absent
          /\ own \cap ({"voice canon"} \cup r.recorded.picked) = {}
          /\ \A e \in Editions : \A x \in own : CanonsOf[e][x] \cap own = {}
          /\ \A x, y \in r.recorded.refs : x.what = y.what => x = y
          /\ \A x \in r.recorded.refs : x.what \notin r.recorded.picked

VARIABLES
  ask,      \* the request
  step,     \* where its handler is
  read,     \* what the handler has read and decided
  made,     \* the Job that was committed, a set of at most one
  disk,     \* files it has written: the snapshot, references of voices
  world     \* what others change

submissionVars == <<ask, step, read, made, disk, world>>

Nothing_ == [synced |-> 0, voice |-> Absent, scene |-> 0, shot |-> 0, cached |-> {}, stage |-> Absent,
             recipe |-> Absent, inputs |-> {}, voices |-> <<>>, own |-> {}, refs |-> {}, picked |-> {}]

SubmissionInit ==
  /\ ask \in Requests
  /\ step = IF ask.op \in Derived THEN "origin" ELSE "project"
  /\ read = Nothing_ /\ made = {} /\ disk = {}
  /\ world \in [edition : {1}, up : BOOLEAN, synced : {0, 1}, project : {"active", "archived", "trashed"},
                rows : {DOMAIN OwnerOf}, voice : {"none", "good", "bad"}, body : {"same"}, files : {"same"}]
  /\ ask.project = Absent => world.project = "active"
  /\ ask.project \notin External => world.up /\ world.synced = 0
  /\ ask.character = Absent \/ ask.kind # "voice" => world.voice = "none"

Ended == {"answered", "refused", "unreadable", "stopped"}
Goes(next) == step' = next /\ UNCHANGED <<ask, made, world>>
Reads(next, r) == Goes(next) /\ read' = r /\ UNCHANGED disk
\* An answer without a Job takes the snapshot with it, if there is one.
Discarded == disk \ {"snapshot"}
Refuse == Goes("refused") /\ disk' = Discarded /\ UNCHANGED read

-----------------------------------------------------------------------------
(* The Project, and the rows of the story.                                 *)

CheckProject ==
  /\ step = "project"
  /\ IF ask.project # Absent /\ world.project # "active" THEN Refuse
     ELSE Reads("links", [read EXCEPT !.synced = world.synced])

Stands(link) == ask[link] = Absent \/ ask[link] \in world.rows

\* The scene that is linked: the one of the line when only a line is given.
Stage == IF ask.stage = Absent /\ ask.line # Absent THEN OwnerOf[ask.line] ELSE ask.stage

Owners == ({ask.project} \cup {OwnerOf[r] : r \in {ask.character, Stage} \ {Absent}}) \ {Absent}

\* validate_story_links.  Rows of a Project in the trash take no links, also when
\* the request names no Project.
LinksAgree ==
  /\ \A link \in Links : Stands(link)
  /\ ask.costume # Absent => ask.character = OwnerOf[ask.costume]
  /\ ask.line # Absent => Stage = OwnerOf[ask.line]
  /\ Cardinality(Owners) <= 1
  /\ Owners # {} => world.project # "trashed"

CheckLinks ==
  /\ step = "links"
  /\ IF LinksAgree THEN Reads("scene", [read EXCEPT !.stage = Stage, !.voice = world.voice]) ELSE Refuse

-----------------------------------------------------------------------------
(* The references: what the source answers, or the snapshot of the last    *)
(* synchronisation when it cannot be reached.                              *)

FromCache == ask.project \in External /\ ~world.up
SceneNow == IF FromCache THEN read.synced ELSE world.edition

\* A source that answers knows the scene of a shot; the snapshot has shots by
\* their names alone.
ShotFound(e) ==
  /\ e \in Editions /\ ask.shot \in DOMAIN ShotsIn[e]
  /\ FromCache \/ ShotsIn[e][ask.shot] = ask.scene

Noted(what) == IF FromCache THEN read.cached \cup {what} ELSE read.cached

ReadScene ==
  /\ step = "scene"
  /\ IF ask.scene = Absent THEN Reads("shot", read)
     ELSE IF SceneNow = 0 THEN Refuse
     ELSE Reads("shot", [read EXCEPT !.scene = SceneNow, !.cached = Noted("scene")])

Continue == IF ask.op \in Derived THEN "selected" ELSE "defaults"

ReadShot ==
  /\ step = "shot"
  /\ IF ask.shot = Absent THEN Reads(Continue, read)
     ELSE IF ~ShotFound(SceneNow) THEN Refuse
     ELSE Reads(Continue, [read EXCEPT !.shot = SceneNow, !.cached = Noted("shot")])

Ref(what, e) == [what |-> what, rev |-> e]
Declared(resource, e) == IF resource = Absent THEN {} ELSE {Ref(c, e) : c \in CanonsOf[e][resource]}

\* A canon that scene and shot declare is recorded as the scene has it.
FirstOnly(scene, shot) == scene \cup {r \in shot : r.what \notin {s.what : s \in scene}}

Resolved ==
  FirstOnly(Declared(ask.scene, read.scene), Declared(ask.shot, read.shot)) \cup
    {Ref(w, IF w = ask.scene THEN read.scene ELSE read.shot) : w \in {ask.scene, ask.shot} \ {Absent}}

-----------------------------------------------------------------------------
(* Recipe and inputs: Project, scene, shot, looks, the request.            *)

\* A layer has defaults for each kind of Job.
Layer(name, there) ==
  IF there /\ name \in DOMAIN Defaults /\ Defaults[name].kind = ask.kind THEN Defaults[name]
  ELSE [recipe |-> Absent, inputs |-> {}]
Below == << Layer("project", ask.project # Absent), Layer("scene", ask.scene # Absent), Layer("shot", ask.shot # Absent) >>

\* The nearest layer that names a Recipe.
RecipeChosen ==
  LET named == {i \in DOMAIN Below : Below[i].recipe # Absent}
  IN IF ~ask.inherited /\ ask.recipe # Absent THEN ask.recipe
     ELSE IF named = {} THEN Absent ELSE Below[Max(named)].recipe

Looks == IF ask.inherited THEN <<>> ELSE ask.looks
LookFits(look) ==
  /\ look \in DOMAIN Defaults /\ Defaults[look].kind = Recipes[RecipeChosen].kind
  /\ Defaults[look].recipe \in {Absent, RecipeChosen}
  /\ Defaults[look].inputs \subseteq Recipes[RecipeChosen].inputs

\* A Project keeps prompts for its scenes and shots, for images and videos.
Prompts_ ==
  IF ask.kind \notin {"image", "video"} THEN <<>>
  ELSE << Layer("scene prompt", ask.scene # Absent), Layer("shot prompt", ask.shot # Absent) >>

\* The layer each input comes from: the last one that gives it.
Layered ==
  LET below == [i \in DOMAIN Below |-> <<<<"project", "scene", "shot">>[i], Below[i].inputs>>]
      prompts == [i \in DOMAIN Prompts_ |-> <<<<"scene", "shot">>[i], Prompts_[i].inputs>>]
      looks == [i \in DOMAIN Looks |-> <<"look", Defaults[Looks[i]].inputs>>]
      given == IF ask.inherited THEN <<>> ELSE <<<<"request", ask.inputs>>>>
      all == below \o prompts \o looks \o given
      Latest(n) == Max({i \in DOMAIN all : n \in all[i][2]})
  IN {[name |-> n, from |-> all[Latest(n)][1]] : n \in UNION {all[i][2] : i \in DOMAIN all}}

ChooseDefaults ==
  /\ step = "defaults"
  /\ IF /\ RecipeChosen # Absent /\ RecipeChosen \in DOMAIN Recipes
        /\ Recipes[RecipeChosen].kind = ask.kind
        /\ \A i \in DOMAIN Looks : LookFits(Looks[i])
     THEN Reads("voice", [read EXCEPT !.recipe = RecipeChosen, !.inputs = Layered])
     ELSE Refuse

-----------------------------------------------------------------------------
(* Voices of a Job that speaks.                                            *)

\* Bindings have a reference, a caption or both; one with neither is bare.
Bare == [reference |-> FALSE, caption |-> FALSE, canon |-> FALSE]
IsBare(binding) == ~binding.reference /\ ~binding.caption

Script == IF ask.shot # Absent THEN Speakers[read.shot][ask.shot] ELSE ask.script
Voices == IF ask.voices = <<>> THEN [s \in ToSet(Script) |-> Bare] ELSE ask.voices
Wanting == {s \in DOMAIN Voices : IsBare(Voices[s])}

\* Mutant: every speaker without a voice gets the character's.
OwnVoiceForAll == IF ask.kind = "voice" /\ ask.character # Absent THEN Wanting ELSE {}

\* resolve_character_voice: the character's voice is for one speaker who has none.
OwnVoiceFor == IF ask.kind = "voice" /\ ask.character # Absent /\ Cardinality(Wanting) = 1 THEN Wanting ELSE {}

TooMany == ask.kind = "voice" /\ ask.character # Absent /\ Wanting # OwnVoiceFor

\* The character is the one that was read for the links, the file of its voice is
\* looked up now.  It goes to the cache of inputs, unless this is a preview.
ResolveVoice ==
  /\ step = "voice"
  /\ \/ ask.kind # "voice" /\ Reads("models", read)
     \/ /\ ask.kind = "voice"
        /\ TooMany \/ (OwnVoiceFor # {} /\ {read.voice, world.voice} # {"good"})
        /\ Refuse
     \/ /\ ask.kind = "voice" /\ ~TooMany /\ (OwnVoiceFor # {} => read.voice = "good")
        /\ Goes("plan")
        /\ read' = [read EXCEPT !.own = OwnVoiceFor,
                      !.voices = [s \in DOMAIN Voices |->
                         IF s \in OwnVoiceFor THEN [Voices[s] EXCEPT !.reference = TRUE] ELSE Voices[s]]]
        /\ disk' = IF OwnVoiceFor # {} /\ ask.op # "preview" THEN disk \cup {"reference"} ELSE disk

BindingFits(binding) == ~IsBare(binding) /\ (binding.canon => binding.reference /\ ask.project # Absent)

\* Without a shot a Job speaks one line; without a length it is not filled up.
SpeechFits ==
  /\ read.voices # <<>> /\ \A s \in DOMAIN read.voices : BindingFits(read.voices[s])
  /\ Script # <<>> /\ ToSet(Script) \subseteq DOMAIN read.voices
  /\ ask.shot = Absent => Len(Script) = 1 /\ (ask.pad => ask.length)

PlanSpeech ==
  /\ step = "plan"
  /\ IF SpeechFits THEN Reads("canons", read) ELSE Refuse

\* The canons of voices are asked of the source alone, under the Project's own name.
ReadCanons ==
  /\ step = "canons"
  /\ LET canons == {s \in DOMAIN read.voices : read.voices[s].canon}
     IN IF canons # {} /\ FromCache THEN Refuse
        ELSE Reads("models", [read EXCEPT !.picked = {Ref("voice canon", world.edition) : s \in canons}])

-----------------------------------------------------------------------------
(* Replay and regeneration of an earlier Job.                              *)

\* An earlier Job was made in the first edition.
RecordedIn == 1

\* The snapshot must be what was recorded; of an input, the record or the file has to
\* be left.
SnapshotIsRecorded == world.body = "same"
InputsAreLeft == world.files # "purged"

\* Here the Project is read as well, and it only has to be there.
ReadOrigin ==
  /\ step = "origin"
  /\ IF ~SnapshotIsRecorded \/ ~InputsAreLeft THEN Refuse
     ELSE Reads("scene", [read EXCEPT !.synced = world.synced, !.stage = ask.stage])

\* Canons that were chosen for the Job are looked up by the id that was recorded.  It
\* names the edition: in another one they are not found and are left out, or, from
\* the snapshot, end the request.
ReadSelected ==
  /\ step = "selected"
  /\ LET chosen == IF ask.project \in External THEN ask.recorded.picked ELSE {}
         found == IF SceneNow = RecordedIn THEN chosen ELSE {}
     IN IF FromCache /\ found # chosen THEN Refuse
        ELSE Reads(IF ask.op = "replay" THEN "compare" ELSE "write",
                   [read EXCEPT !.picked = {Ref(c, RecordedIn) : c \in found}])

WasRecorded == ask.recorded.refs \cup {Ref(c, RecordedIn) : c \in ask.recorded.picked}

\* Of two that name the same, the Manifest keeps the first; they are compared with
\* the last.
Current == FirstOnly(Resolved, read.picked)
Compared == FirstOnly(read.picked, Resolved)

\* compare and unreproducible: what is new does no harm.
Reproducible ==
  /\ world.files = "same"
  /\ WasRecorded \subseteq Compared

Compare ==
  /\ step = "compare"
  /\ IF Reproducible THEN Reads("write", read) ELSE Refuse

-----------------------------------------------------------------------------
(* The Job.                                                                *)

ParentsDisagree == ask.parent # Absent /\ ask.follows # Absent /\ ask.parent # ask.follows

\* Inputs that the Recipe does not take, from whichever layer, make the Job unfit;
\* its graph may be so for other reasons, and ComfyUI may lack a model it names
\* (_validate_resolved_models).
CheckModels ==
  /\ step = "models"
  /\ \/ Refuse
     \/ /\ {i.name : i \in read.inputs} \subseteq Recipes[read.recipe].inputs
        /\ Reads(IF ask.op = "preview" THEN "show" ELSE "write", read)

\* A preview looks up the version of the Recipe before it is composed.
AnswerPreview ==
  /\ step = "show"
  /\ IF ParentsDisagree THEN Refuse ELSE Reads("answered", read)

WriteSnapshot ==
  /\ step = "write"
  /\ \/ Refuse
     \/ /\ IF ask.op \notin Derived /\ ParentsDisagree THEN Refuse
           ELSE Goes("commit") /\ disk' = disk \cup {"snapshot"} /\ UNCHANGED read

Linked(link) == IF link = "stage" THEN read.stage ELSE ask[link]

\* What the Manifest keeps: a replay what was recorded, all others what was read.
Recorded == IF ask.op = "replay" THEN WasRecorded ELSE Current

\* Job, Artifact, Manifest and records of the caller in one transaction; a row
\* that is gone meanwhile fails a foreign key.
Commit ==
  /\ step = "commit"
  /\ \A link \in Links : Linked(link) \in world.rows \cup {Absent}
  /\ step' = "reload"
  /\ made' = {[links |-> [l \in Links |-> Linked(l)], refs |-> Recorded, voices |-> read.voices,
               inputs |-> read.inputs, body |-> IF ask.op \in Derived THEN "recorded" ELSE "new"]}
  /\ UNCHANGED <<ask, read, disk, world>>

CommitFails ==
  /\ step = "commit"
  /\ Refuse

\* The row is read again for its number; when that fails the Job is there.
Reload ==
  /\ step = "reload"
  /\ Goes("answered") \/ Goes("unreadable")
  /\ UNCHANGED <<read, disk>>

Stop_ ==
  /\ step \in {"commit", "reload"}
  /\ Goes("stopped") /\ UNCHANGED <<read, disk>>

-----------------------------------------------------------------------------
(* What others do meanwhile, as far as the request reads it.               *)

Changes(w) == world' = w /\ UNCHANGED <<ask, step, read, made, disk>>

\* A new commit in the reference repository; a synchronisation; the connection.
SourceMoves ==
  /\ step \notin Ended /\ ask.scene # Absent
  /\ \/ world.edition = 1 /\ Changes([world EXCEPT !.edition = 2])
     \/ ask.project \in External /\ Changes([world EXCEPT !.up = ~@])
     \/ ask.project \in External /\ world.up /\ world.synced # world.edition
        /\ Changes([world EXCEPT !.synced = world.edition])

\* Rows go with the rows they belong to, and their links become null.
RowsGone(row) == {r \in DOMAIN OwnerOf : r = row \/ OwnerOf[r] = row}

DeleteRow ==
  /\ step \notin Ended
  /\ \E row \in {ask.character, ask.costume, Stage, ask.line} \cap world.rows :
    /\ world' = [world EXCEPT !.rows = @ \ RowsGone(row)]
    /\ made' = {[m EXCEPT !.links = [l \in Links |-> IF @[l] \in RowsGone(row) THEN Absent ELSE @[l]]] : m \in made}
    /\ UNCHANGED <<ask, step, read, disk>>

\* The character's voice changes, or its file goes to the trash.
ChangeVoice ==
  /\ step \notin Ended /\ ask.character # Absent /\ ask.kind = "voice"
  /\ \E v \in {"good", "bad"} \ {world.voice} : Changes([world EXCEPT !.voice = v])

\* Files of the earlier Job: its snapshot, its inputs.
ChangeFiles ==
  /\ step \notin Ended /\ ask.op \in Derived
  /\ \/ world.body = "same" /\ Changes([world EXCEPT !.body = "other"])
     \/ world.files = "same" /\ \E f \in {"other", "purged"} : Changes([world EXCEPT !.files = f])

Handle ==
  \/ CheckProject \/ CheckLinks \/ ReadScene \/ ReadShot \/ ChooseDefaults
  \/ ResolveVoice \/ PlanSpeech \/ ReadCanons \/ CheckModels \/ AnswerPreview
  \/ ReadOrigin \/ ReadSelected \/ Compare
  \/ WriteSnapshot \/ Commit \/ CommitFails \/ Reload \/ Stop_

SubmissionNext == Handle \/ SourceMoves \/ DeleteRow \/ ChangeVoice \/ ChangeFiles

SubmissionSpec == SubmissionInit /\ [][SubmissionNext]_submissionVars

-----------------------------------------------------------------------------
(* Properties.                                                             *)

SubmissionTypeOK ==
  /\ step \in Ended \cup {"project", "links", "scene", "shot", "defaults", "voice", "plan", "canons", "models", "show",
                          "origin", "selected", "compare", "write", "commit", "reload"}
  /\ disk \subseteq {"snapshot", "reference"}
  /\ world.rows \subseteq DOMAIN OwnerOf

\* A Job and the snapshot it runs come together: no answer leaves one without
\* the other, and a preview leaves nothing.  Only the end of the process may
\* leave a snapshot alone.
JobHasSnapshot ==
  /\ step \in Ended /\ made # {} => "snapshot" \in disk
  /\ step \in {"answered", "refused"} /\ made = {} => "snapshot" \notin disk
  /\ step = "refused" => made = {}
  /\ ask.op = "preview" => disk = {} /\ made = {}

\* The costume is the character's and the line the scene's, both of one Project.
Belong(links) ==
  LET Owner(link) == OwnerOf[links[link]]
  IN /\ links.costume # Absent => links.character = Owner("costume")
     /\ links.line # Absent => links.stage = Owner("line")
     /\ links.character # Absent /\ links.stage # Absent => Owner("character") = Owner("stage")
     /\ ask.project # Absent => \A link \in {"character", "stage"} : links[link] # Absent => Owner(link) = ask.project

\* Whatever is deleted in the meantime, a Job is linked to rows that are there and
\* belong together; one that is derived, if those of the earlier Job do.
LinksBelong ==
  \A m \in made :
    /\ \A link \in Links : m.links[link] \in world.rows \cup {Absent}
    /\ (ask.op \in Derived => Belong(ask)) => Belong(m.links)

\* A reference is recorded once, in the edition that was read; a shot is of the
\* scene it is recorded with, unless it was taken from the snapshot.
ReferencesAreRead ==
  \A m \in made :
    /\ \A r, s \in m.refs : r.what = s.what => r = s
    /\ ask.op # "replay" => \A r \in m.refs \ read.picked : r.rev \in {read.scene, read.shot}
    /\ ask.shot # Absent /\ "shot" \notin read.cached => ShotsIn[read.shot][ask.shot] = ask.scene

\* A replay runs what was recorded, and only when each reference it names was
\* still the one that the source, or its snapshot, gave during the request.
ReplayIsExact ==
  \A m \in made :
    ask.op = "replay" =>
      /\ m.body = "recorded"
      /\ ask.recorded.refs \subseteq m.refs
      /\ \A r \in m.refs : r.what \in {ask.scene, ask.shot} \ {Absent} =>
           r.rev = IF r.what = ask.scene THEN read.scene ELSE read.shot

\* Everyone who speaks has a voice, and nobody speaks with the voice of the
\* character but the one speaker who had none of their own.
VoicesAreOwn ==
  \A m \in made :
    ask.kind = "voice" /\ ask.op = "submit" =>
      /\ ToSet(Script) \subseteq DOMAIN m.voices
      /\ \A s \in DOMAIN m.voices : ~IsBare(m.voices[s])
      /\ Cardinality(read.own) <= 1
      /\ \A s \in DOMAIN m.voices :
           s \notin read.own => m.voices[s].reference = (s \in DOMAIN ask.voices /\ ask.voices[s].reference)
      /\ read.own # {} => "reference" \in disk

\* An input comes from one layer, none of them one the Recipe does not take, and a
\* request that asks for what is inherited gives none itself.
InputsAreTaken ==
  \A m \in made :
    ask.op = "submit" =>
      /\ \A i, j \in m.inputs : i.name = j.name => i = j
      /\ {i.name : i \in m.inputs} \subseteq Recipes[read.recipe].inputs
      /\ \A i \in m.inputs : i.from \in {"request", "look"} => ~ask.inherited
      /\ ~ask.inherited => {i.name : i \in {x \in m.inputs : x.from = "request"}} = ask.inputs

\* A request ends with a Job that is whole, or without a trace.
SubmissionSound ==
  SubmissionTypeOK /\ JobHasSnapshot /\ LinksBelong /\ ReferencesAreRead /\ ReplayIsExact /\ VoicesAreOwn
  /\ InputsAreTaken
=============================================================================
