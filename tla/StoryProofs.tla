---------------------------- MODULE StoryProofs -----------------------------
(***************************************************************************)
(* Machine-checked proofs about what stories are made of, for any number   *)
(* of rows, editors, runs and pages: StoryScenes, StoryImport,             *)
(* LegacyStructure, RunAll and EventDelivery, a section each.              *)
(***************************************************************************)
EXTENDS StoryEdits, LegacyStructure, RunAll, EventDelivery, FiniteSetTheorems, WellFoundedInduction, TLAPS

-----------------------------------------------------------------------------
(* Scenes, casts and lines. What a request has read and been given stays   *)
(* its own until it writes; what it writes is checked then.                *)

\* A function: nothing but its domain and its values.
IsFun(f) == f = [x \in DOMAIN f |-> f[x]]

CastRecords == [who : Characters, wears : Costumes \cup {Plain}]
LineRecords == [scene : Scenes, position : Nat, speaker : Characters]

StoryTyped ==
  /\ people \subseteq Characters /\ wardrobe \subseteq Costumes
  /\ DOMAIN sequence \subseteq Scenes \cap given
  /\ DOMAIN line \subseteq Lines \cap given
  /\ IsFun(line)
  /\ \A l \in DOMAIN line : line[l] \in LineRecords
  /\ cast \in [Scenes -> SUBSET CastRecords]
  /\ edit = [e \in Editors |-> edit[e]]

\* Every member of the cast of a payload wears a costume of its own.
OwnCostumes(c) == \A m \in c : m.wears # Plain => CostumeOf[m.wears] = m.who

Script(w) ==
  /\ w = [i \in DOMAIN w |-> w[i]]
  /\ \E n \in Nat : DOMAIN w = 1 .. n
  /\ Range(w) \subseteq Lines \cap given
  /\ \A i, j \in DOMAIN w : w[i] = w[j] => i = j

\* The ids that a request has been given for its new lines.
NewLines(r) ==
  CASE r.op = "create" -> Range(r.script)
    [] r.op = "update" -> IF r.script = Kept THEN {} ELSE Range(r.script) \ DOMAIN r.existing
    [] OTHER -> {}

Ops == {"none", "create", "update", "delete", "reorder", "costume", "no costume", "no character"}

\* What a request wants is possible: its ids are its own and those that it has
\* read belong to its scene for as long as they exist.
Fits(r) ==
  /\ r.op \in Ops
  /\ r.op = "create" =>
       /\ r.scene \in (Scenes \cap given) \ DOMAIN sequence
       /\ r.cast \in SUBSET CastRecords /\ OwnCostumes(r.cast)
       /\ Script(r.script)
  /\ r.op = "update" =>
       /\ r.scene \in Scenes
       /\ r.cast # Kept => r.cast \in SUBSET CastRecords /\ OwnCostumes(r.cast)
       /\ r.script # Kept => Script(r.script)
       /\ DOMAIN r.existing \subseteq Lines \cap given
       /\ \A l \in DOMAIN r.existing \cap DOMAIN line : line[l].scene = r.scene
  /\ r.op = "delete" => r.scene \in Scenes
  /\ r.op = "costume" => r.costume \in Costumes
  /\ NewLines(r) \cap DOMAIN line = {}

Requested == \A e \in Editors : Fits(edit[e])

\* No two requests have been given the same id, and none one of a line that
\* another has read.
IdsApart ==
  \A e, f \in Editors :
    /\ e # f => NewLines(edit[e]) \cap NewLines(edit[f]) = {}
    /\ e # f /\ edit[e].op = "create" /\ edit[f].op = "create" => edit[e].scene # edit[f].scene
    /\ edit[f].op = "update" => NewLines(edit[e]) \cap DOMAIN edit[f].existing = {}

CastsStand ==
  \A s \in DOMAIN sequence : \A m \in cast[s] :
    /\ m.who \in people
    /\ m.wears # Plain => m.wears \in wardrobe /\ CostumeOf[m.wears] = m.who

LinesStand ==
  \A l \in DOMAIN line : line[l].scene \in DOMAIN sequence /\ line[l].speaker \in people

VoicesStand == voiced \subseteq DOMAIN line /\ accepted \subseteq voiced \cup cascaded

ScenesInv ==
  /\ StoryTyped
  /\ Requested
  /\ IdsApart
  /\ CastsStand /\ LinesStand /\ PositionsDiffer(line) /\ VoicesStand

LEMMA RecordsAreConstant ==
  LineRecords' = LineRecords /\ CastRecords' = CastRecords
BY DEF LineRecords, CastRecords

LEMMA FitsKept ==
  ASSUME NEW r, Fits(r), given \subseteq given',
         r.op = "create" => r.scene \notin DOMAIN sequence',
         NewLines(r) \cap DOMAIN line' = {},
         r.op = "update" =>
           \A l \in DOMAIN r.existing \cap DOMAIN line' :
             l \in DOMAIN line /\ line'[l].scene = line[l].scene
  PROVE  Fits(r)'
<1>1. \A w : Script(w) => Script(w)'
  BY DEF Script
<1>2. NewLines(r)' = NewLines(r)
  BY DEF NewLines
<1> QED
  BY <1>1, <1>2 DEF Fits, OwnCostumes, CastRecords

\* What a request has been given or has read has been handed out.
LEMMA Handed ==
  ASSUME NEW r, Fits(r)
  PROVE  /\ NewLines(r) \subseteq given
         /\ r.op = "create" => r.scene \in given
         /\ r.op = "update" => DOMAIN r.existing \subseteq given
BY DEF Fits, NewLines, Script

LEMMA AskKeeps ==
  ASSUME ScenesInv, NEW e \in Editors, NEW r, NEW ids, Ask(e, r, ids),
         Fits(r)',
         NewLines(r) \cap given = {},
         r.op = "create" => r.scene \notin given,
         r.op = "update" => DOMAIN r.existing \subseteq DOMAIN line
  PROVE  ScenesInv'
<1>1. UNCHANGED rows /\ UNCHANGED cascaded /\ given' = given \cup ids
  BY DEF Ask
<1> USE DEF rows
<1>2. StoryTyped'
  BY <1>1 DEF ScenesInv, StoryTyped, Ask
<1>3. ASSUME NEW f \in Editors PROVE edit'[f] = IF f = e THEN r ELSE edit[f]
  BY DEF Ask, ScenesInv, StoryTyped
<1>4. ASSUME NEW f \in Editors PROVE Fits(edit[f]) /\ NewLines(edit[f]) \cap DOMAIN line = {}
  BY DEF ScenesInv, Requested, Fits
<1>5. ASSUME NEW f \in Editors, NEW q, q = edit'[f] PROVE Fits(q)'
  <2>1. CASE f = e
    BY <2>1, <1>3, <1>5
  <2>2. CASE f # e
    <3>1. edit[f].op = "create" => edit[f].scene \notin DOMAIN sequence
      BY <1>4 DEF Fits
    <3>2. q = edit[f]
      BY <2>2, <1>3, <1>5
    <3> QED
      BY <3>1, <3>2, <1>1, <1>4, FitsKept
  <2> QED
    BY <2>1, <2>2
<1>6. Requested'
  BY <1>5 DEF Requested, Fits, NewLines, Script, OwnCostumes
<1>7. IdsApart'
  <2>1. NewLines(r) = NewLines(r)'
    BY DEF NewLines
  <2>2. ASSUME NEW f \in Editors
        PROVE  /\ NewLines(edit[f]) \subseteq given
               /\ edit[f].op = "create" => edit[f].scene \in given
               /\ edit[f].op = "update" => DOMAIN edit[f].existing \subseteq given
    BY <1>4, Handed
  <2>3. r.op = "update" => NewLines(r) \cap DOMAIN r.existing = {}
    BY DEF NewLines
  <2>4. IdsApart
    BY DEF ScenesInv
  <2> QED
    BY <1>3, <1>4, <2>1, <2>2, <2>3, <2>4 DEF IdsApart
<1> QED
  BY <1>1, <1>2, <1>6, <1>7
  DEF ScenesInv, CastsStand, LinesStand, PositionsDiffer, VoicesStand

\* A request that is over leaves the others as they were.
LEMMA DoneKeeps ==
  ASSUME StoryTyped, Requested, IdsApart, NEW e \in Editors, Done(e), given' = given,
         \A s \in DOMAIN sequence' \ DOMAIN sequence :
           edit[e].op = "create" /\ s = edit[e].scene,
         DOMAIN line' \subseteq DOMAIN line \cup NewLines(edit[e]),
         \A l \in DOMAIN line \cap DOMAIN line' : line'[l].scene = line[l].scene
  PROVE  Requested' /\ IdsApart' /\ edit' = [f \in Editors |-> edit'[f]]
<1>1. ASSUME NEW f \in Editors PROVE edit'[f] = IF f = e THEN NoRequest ELSE edit[f]
  BY DEF Done, StoryTyped
<1>2. ASSUME NEW f \in Editors, f # e, NEW q0, q0 = edit'[f] PROVE Fits(q0)'
  <2>1. q0 = edit[f]
    BY <1>1, <1>2
  <2>2. Fits(q0)
    BY <2>1 DEF Requested
  <2>3. q0.op = "create" => q0.scene \notin DOMAIN sequence'
    BY <1>2, <2>1, <2>2 DEF Fits, IdsApart
  <2>4. NewLines(q0) \cap DOMAIN line' = {}
    BY <1>2, <2>1, <2>2 DEF Fits, IdsApart
  <2>5. q0.op = "update" =>
          \A l \in DOMAIN q0.existing \cap DOMAIN line' :
            l \in DOMAIN line /\ line'[l].scene = line[l].scene
    BY <1>2, <2>1 DEF IdsApart
  <2> QED
    BY <2>2, <2>3, <2>4, <2>5, FitsKept
<1>3. Fits(NoRequest)' /\ NewLines(NoRequest) = {}
  BY DEF Fits, NewLines, NoRequest, Ops
<1>4. Requested'
  <2>1. ASSUME NEW f \in Editors, NEW q, q = edit'[f] PROVE Fits(q)'
    BY <2>1, <1>1, <1>2, <1>3
  <2> QED
    BY <2>1 DEF Requested, Fits, NewLines, Script, OwnCostumes
<1>5. IdsApart'
  <2>1. NoRequest.op = "none"
    BY DEF NoRequest
  <2> QED
    BY <1>1, <1>3, <2>1 DEF IdsApart
<1>6. edit' = [f \in Editors |-> edit'[f]]
  BY DEF Done, StoryTyped
<1> QED
  BY <1>4, <1>5, <1>6

\* What a payload asks for, whether or not it is put up.
LEMMA ScriptsAreScripts ==
  ASSUME NEW w \in Scripts, Range(w) \subseteq given'
  PROVE  Script(w)'
<1>1. PICK n \in 0 .. MaxLines : w \in [1 .. n -> Lines]
  BY DEF Scripts
<1>2. \A i, j \in DOMAIN w : w[i] = w[j] => i = j
  BY DEF Scripts, IsInjective
<1>3. Range(w) \subseteq Lines
  BY <1>1 DEF Range
<1> QED
  BY <1>1, <1>2, <1>3 DEF Script

LEMMA CastsAreCasts ==
  ASSUME NEW c \in Casts, NEW who, ValidCast(c, who)
  PROVE  c \in SUBSET CastRecords /\ OwnCostumes(c)
BY StoryAssumption DEF Casts, ValidCast, OwnCostumes, CastRecords

LEMMA BeginKeeps ==
  ASSUME ScenesInv, NEW e \in Editors, Begin(e)
  PROVE  ScenesInv'
<1>1. ASSUME NEW s \in Scenes, NEW w \in Scripts \cup {Kept}, NEW speaker, w # Kept,
             NEW c \in Casts, BeginCreateScene(e, s, c, w, speaker)
      PROVE  ScenesInv'
  <2>1. PICK r : r = [op |-> "create", scene |-> s, sequence |-> NextSequence, cast |-> c,
                      script |-> w, speaker |-> speaker]
    OBVIOUS
  <2>2. Ask(e, r, {s} \cup Range(w)) /\ Fresh({s} \cup Range(w))
    BY <1>1, <2>1 DEF BeginCreateScene
  <2>3. Script(w)'
    BY <1>1, <2>2, ScriptsAreScripts DEF Ask
  <2>4. c \in SUBSET CastRecords /\ OwnCostumes(c)
    BY <1>1, CastsAreCasts DEF BeginCreateScene
  <2>5. NewLines(r) = Range(w)
    BY <2>1 DEF NewLines
  <2>6. /\ s \notin given /\ s \in given' /\ Range(w) \cap given = {}
        /\ UNCHANGED <<line, sequence>>
    BY <2>2 DEF Fresh, Ask, rows
  <2>7. DOMAIN line \cup DOMAIN sequence \subseteq given
    BY DEF ScenesInv, StoryTyped
  <2>8. r.op = "create" /\ r.scene = s /\ r.cast = c /\ r.script = w
    BY <2>1
  <2>9. Fits(r)'
    BY <2>3, <2>4, <2>5, <2>6, <2>7, <2>8 DEF Fits, Ops, NewLines, OwnCostumes
  <2> QED
    BY <2>2, <2>5, <2>6, <2>8, <2>9, AskKeeps
<1>2. ASSUME NEW s \in Scenes, NEW w \in Scripts \cup {Kept}, NEW speaker,
             NEW c \in Casts \cup {Kept}, BeginUpdateScene(e, s, c, w, speaker)
      PROVE  ScenesInv'
  <2>1. PICK r : r = [op |-> "update", scene |-> s, cast |-> c, script |-> w,
                      speaker |-> speaker,
                      existing |-> [l \in LinesOf(s) |-> line[l].speaker],
                      voiced |-> voiced \cap LinesOf(s)]
    OBVIOUS
  <2>2. Ask(e, r, IF w = Kept THEN {} ELSE Range(w))
    BY <1>2, <2>1 DEF BeginUpdateScene
  <2>3. w # Kept => Script(w)' /\ Range(w) \subseteq LinesOf(s) \cup (Lines \ given)
    BY <1>2, <2>2, ScriptsAreScripts DEF Ask, BeginUpdateScene, OwnLines
  <2>4. c # Kept => c \in SUBSET CastRecords /\ OwnCostumes(c)
    BY <1>2, CastsAreCasts DEF BeginUpdateScene
  <2>5. r.op = "update" /\ r.scene = s /\ r.cast = c /\ r.script = w
        /\ DOMAIN r.existing = LinesOf(s)
    BY <2>1
  <2>6. NewLines(r) = IF w = Kept THEN {} ELSE Range(w) \ LinesOf(s)
    BY <2>5 DEF NewLines
  <2>7. given \subseteq given' /\ UNCHANGED <<line, sequence>>
    BY <2>2 DEF Ask, rows
  <2>8. DOMAIN line \subseteq Lines \cap given
    BY DEF ScenesInv, StoryTyped
  <2>9. LinesOf(s) \subseteq DOMAIN line /\ \A l \in LinesOf(s) : line[l].scene = s
    BY DEF LinesOf
  <2>10. NewLines(r) \cap given = {} /\ (NewLines(r) \cap DOMAIN line = {})'
    <3>1. NewLines(r) \cap given = {}
      BY <2>3, <2>6
    <3> QED
      BY <3>1, <2>7, <2>8 DEF NewLines
  <2>11. Fits(r)'
    BY <2>3, <2>4, <2>5, <2>7, <2>8, <2>9, <2>10 DEF Fits, Ops, NewLines, OwnCostumes
  <2> QED
    BY <2>2, <2>5, <2>9, <2>10, <2>11, AskKeeps
<1>3. ASSUME NEW r, Ask(e, r, {}), NewLines(r) = {}, r.op \in Ops \ {"create", "update"},
             r.op = "delete" => r.scene \in Scenes, r.op # "costume"
      PROVE  ScenesInv'
  <2>1. Fits(r)'
    BY <1>3 DEF Fits, NewLines
  <2> QED
    BY <1>3, <2>1, AskKeeps
<1>4. ASSUME NEW s \in Scenes, BeginDeleteScene(e, s) PROVE ScenesInv'
  <2>1. PICK r : r = [op |-> "delete", scene |-> s, voiced |-> voiced \cap LinesOf(s)]
    OBVIOUS
  <2> QED
    BY <1>3, <1>4, <2>1 DEF BeginDeleteScene, NewLines, Ops
<1>5. ASSUME NEW order, BeginReorder(e, order) PROVE ScenesInv'
  <2>1. PICK r : r = [op |-> "reorder", order |-> order, loaded |-> sequence]
    OBVIOUS
  <2> QED
    BY <1>3, <1>5, <2>1 DEF BeginReorder, NewLines, Ops
<1>6. ASSUME NEW k \in Costumes, BeginCreateCostume(e, k) PROVE ScenesInv'
  <2>1. PICK r : r = [op |-> "costume", costume |-> k]
    OBVIOUS
  <2>2. Fits(r)' /\ NewLines(r) = {}
    BY <2>1 DEF Fits, NewLines, Ops
  <2> QED
    BY <1>6, <2>1, <2>2, AskKeeps DEF BeginCreateCostume
<1>7. ASSUME NEW k \in Costumes, BeginDeleteCostume(e, k) PROVE ScenesInv'
  <2>1. PICK r : r = [op |-> "no costume", costume |-> k]
    OBVIOUS
  <2> QED
    BY <1>3, <1>7, <2>1 DEF BeginDeleteCostume, NewLines, Ops
<1>8. ASSUME NEW ch \in Characters, BeginDeleteCharacter(e, ch) PROVE ScenesInv'
  <2>1. PICK r : r = [op |-> "no character", character |-> ch]
    OBVIOUS
  <2> QED
    BY <1>3, <1>8, <2>1 DEF BeginDeleteCharacter, NewLines, Ops
<1> QED
  BY <1>1, <1>2, <1>4, <1>5, <1>6, <1>7, <1>8 DEF Begin

-----------------------------------------------------------------------------
(* The lines as a payload leaves them.                                     *)

OwnLine(v, s) ==
  /\ v = [scene |-> s, position |-> v.position, speaker |-> v.speaker]
  /\ v.position \in Nat

\* Lines of the payload take their places in the scene, one each; the others
\* stay what they are, and no other line comes in.
LEMMA PlacedDomain ==
  ASSUME NEW r, NEW existing, NEW after, after = Placed(r, existing)
  PROVE  /\ DOMAIN after = (DOMAIN line \ (DOMAIN existing \ Range(r.script))) \cup Range(r.script)
         /\ IsFun(after)
BY DEF Placed, IsFun

LEMMA PlacedLines ==
  ASSUME NEW r, NEW existing, NEW after, after = Placed(r, existing), Script(r.script)
  PROVE  /\ \A l \in Range(r.script) :
              /\ OwnLine(after[l], r.scene)
              /\ \/ after[l].speaker = r.speaker
                 \/ l \in DOMAIN existing /\ after[l].speaker = line[l].speaker
         /\ \A l \in DOMAIN after : l \notin Range(r.script) => after[l] = line[l]
         /\ \A l, m \in Range(r.script) : l # m => after[l].position # after[m].position
<1> DEFINE w == r.script
           At(l) == CHOOSE i \in DOMAIN w : w[i] = l
<1>1. ASSUME NEW l \in Range(w) PROVE At(l) \in DOMAIN w /\ w[At(l)] = l
  BY DEF Range
<1>2. PICK n \in Nat : DOMAIN w = 1 .. n
  BY DEF Script
<1>3. ASSUME NEW l \in Range(w) PROVE At(l) - 1 \in Nat
  BY <1>1, <1>2
<1>4. ASSUME NEW l \in Range(w), NEW m \in Range(w), l # m PROVE At(l) - 1 # At(m) - 1
  <2>1. At(l) # At(m)
    BY <1>1, <1>4
  <2> HIDE DEF At
  <2> QED
    BY <2>1, <1>1, <1>2
<1>5. DOMAIN after = (DOMAIN line \ (DOMAIN existing \ Range(w))) \cup Range(w)
  BY PlacedDomain
<1>6. ASSUME NEW l \in Range(w)
      PROVE  after[l] = [scene |-> r.scene, position |-> At(l) - 1,
                         speaker |-> IF l \in DOMAIN existing /\ existing[l] = r.speaker
                                     THEN line[l].speaker ELSE r.speaker]
  BY DEF Placed
<1>7. ASSUME NEW l \in DOMAIN after, l \notin Range(w) PROVE after[l] = line[l]
  BY <1>7, <1>5 DEF Placed
<1> HIDE DEF At
<1>10. ASSUME NEW l \in Range(w)
       PROVE  /\ OwnLine(after[l], r.scene) /\ after[l].position = At(l) - 1
              /\ \/ after[l].speaker = r.speaker
                 \/ l \in DOMAIN existing /\ after[l].speaker = line[l].speaker
  <2> DEFINE sp == IF l \in DOMAIN existing /\ existing[l] = r.speaker
                   THEN line[l].speaker ELSE r.speaker
             p == At(l) - 1
  <2>1. after[l] = [scene |-> r.scene, position |-> p, speaker |-> sp]
    BY <1>6
  <2>2. sp = r.speaker \/ (l \in DOMAIN existing /\ sp = line[l].speaker)
    OBVIOUS
  <2>3. p \in Nat
    BY <1>3
  <2> HIDE DEF sp, p
  <2>4. after[l].scene = r.scene /\ after[l].position = p /\ after[l].speaker = sp
    BY <2>1
  <2> QED
    BY <2>1, <2>2, <2>3, <2>4 DEF p, OwnLine
<1>9. \A l, m \in Range(w) : l # m => after[l].position # after[m].position
  <2> SUFFICES ASSUME NEW l \in Range(w), NEW m \in Range(w), l # m
               PROVE  after[l].position # after[m].position
    OBVIOUS
  <2>1. after[l].position = At(l) - 1 /\ after[m].position = At(m) - 1
    BY <1>10
  <2> QED
    BY <2>1, <1>4
<1> QED
  BY <1>7, <1>9, <1>10

-----------------------------------------------------------------------------
(* What requests write.                                                    *)

LEMMA RefuseKeeps ==
  ASSUME ScenesInv, NEW e \in Editors, Refuse(e)
  PROVE  ScenesInv'
<1>1. Done(e) /\ given' = given /\ UNCHANGED rows /\ UNCHANGED cascaded
  BY DEF Refuse
<1> USE DEF rows
<1>2. Requested' /\ IdsApart' /\ edit' = [f \in Editors |-> edit'[f]]
  BY <1>1, DoneKeeps DEF ScenesInv
<1>3. StoryTyped'
  BY <1>1, <1>2, RecordsAreConstant DEF ScenesInv, StoryTyped, IsFun
<1>4. CastsStand' /\ LinesStand' /\ PositionsDiffer(line)' /\ VoicesStand'
  BY <1>1 DEF ScenesInv, CastsStand, LinesStand, PositionsDiffer, VoicesStand
<1> QED
  BY <1>2, <1>3, <1>4 DEF ScenesInv

LEMMA CommitCreateSceneKeeps ==
  ASSUME ScenesInv, NEW e \in Editors, CommitCreateScene(e)
  PROVE  ScenesInv'
<1>1. PICK r : r = edit[e]
  OBVIOUS
<1>2. r.op = "create" /\ Fits(r)
  BY <1>1 DEF CommitCreateScene, ScenesInv, Requested
<1>3. CASE Refuse(e)
  BY <1>3, RefuseKeeps
<1>4. CASE ~Refuse(e)
  <2>0. PICK none : none = <<>> /\ DOMAIN none = {}
    OBVIOUS
  <2> DEFINE w == r.script
  <2>14. PICK after : after = Placed(r, none)
    OBVIOUS
  <2>1. /\ ForeignKeys(r.cast, IF w = <<>> THEN {} ELSE {r.speaker})
        /\ sequence' = [s \in DOMAIN sequence \cup {r.scene} |->
                          IF s = r.scene THEN r.sequence ELSE sequence[s]]
        /\ cast' = [cast EXCEPT ![r.scene] = r.cast]
        /\ line' = after
        /\ Done(e)
        /\ UNCHANGED <<people, wardrobe, voiced, accepted, given, cascaded>>
    BY <1>1, <1>4, <2>0, <2>14 DEF CommitCreateScene
  <2>2. NewLines(r) = Range(w)
    BY <1>2 DEF NewLines
  <2>3. /\ r.scene \in (Scenes \cap given) \ DOMAIN sequence
        /\ r.cast \in SUBSET CastRecords /\ OwnCostumes(r.cast)
        /\ Script(w) /\ Range(w) \subseteq Lines \cap given
        /\ Range(w) \cap DOMAIN line = {}
    BY <1>2, <2>2 DEF Fits, Script
  <2>4. /\ DOMAIN after = DOMAIN line \cup Range(w)
        /\ IsFun(after)
        /\ \A l \in Range(w) : OwnLine(after[l], r.scene) /\ after[l].speaker = r.speaker
        /\ \A l \in DOMAIN line : after[l] = line[l]
        /\ \A l, m \in Range(w) : l # m => after[l].position # after[m].position
    <3>1. Script(r.script)
      BY <2>3
    <3>2. /\ \A l \in Range(w) :
               /\ OwnLine(after[l], r.scene)
               /\ \/ after[l].speaker = r.speaker
                  \/ l \in DOMAIN none /\ after[l].speaker = line[l].speaker
          /\ \A l \in DOMAIN after : l \notin Range(w) => after[l] = line[l]
          /\ \A l, m \in Range(w) : l # m => after[l].position # after[m].position
      BY <3>1, <2>14, PlacedLines
    <3> HIDE DEF w
    <3>3. DOMAIN after = DOMAIN line \cup Range(w) /\ IsFun(after)
      BY <2>0, <2>14, PlacedDomain DEF w
    <3>4. \A l \in Range(w) : OwnLine(after[l], r.scene) /\ after[l].speaker = r.speaker
      BY <3>2, <2>0
    <3>5. \A l \in DOMAIN line : after[l] = line[l]
      BY <3>2, <3>3, <2>3
    <3> QED
      BY <3>2, <3>3, <3>4, <3>5 DEF w
  <2>5. Requested' /\ IdsApart' /\ edit' = [f \in Editors |-> edit'[f]]
    <3>1. \A s \in DOMAIN sequence' \ DOMAIN sequence : s = edit[e].scene
      BY <2>1, <1>1
    <3>2. DOMAIN line' \subseteq DOMAIN line \cup NewLines(edit[e])
      BY <2>1, <2>2, <2>4, <1>1
    <3> QED
      BY <1>1, <1>2, <2>1, <2>4, <3>1, <3>2, DoneKeeps DEF ScenesInv
  <2>6. w # <<>> => r.speaker \in people
    BY <2>1 DEF ForeignKeys
  <2>7. Range(w) # {} => w # <<>>
    BY DEF Range
  <2>8. \A l \in Range(w) : after[l].speaker \in people
    BY <2>4, <2>6, <2>7
  <2>9. StoryTyped'
    <3>1. StoryTyped
      BY DEF ScenesInv
    <3>2. \A l \in DOMAIN line' : line'[l] \in LineRecords
      <4> SUFFICES ASSUME NEW l \in DOMAIN line' PROVE line'[l] \in LineRecords
        OBVIOUS
      <4>1. CASE l \in DOMAIN line
        BY <3>1, <4>1, <2>1, <2>4 DEF StoryTyped
      <4>2. CASE l \in Range(w)
        <5>1. /\ after[l].scene \in Scenes /\ after[l].position \in Nat
              /\ after[l].speaker \in Characters
              /\ after[l] = [scene |-> after[l].scene, position |-> after[l].position,
                             speaker |-> after[l].speaker]
          BY <4>2, <3>1, <2>3, <2>4, <2>8 DEF StoryTyped, OwnLine
        <5> QED
          BY <5>1, <2>1 DEF LineRecords
      <4> QED
        BY <4>1, <4>2, <2>1, <2>4
    <3>3. cast' \in [Scenes -> SUBSET CastRecords]
      BY <2>1, <2>3, <3>1 DEF StoryTyped
    <3> QED
      <4>1. people' \subseteq Characters /\ wardrobe' \subseteq Costumes
        BY <3>1, <2>1 DEF StoryTyped
      <4>2. DOMAIN sequence' \subseteq Scenes \cap given'
        BY <3>1, <2>1, <2>3 DEF StoryTyped
      <4>3. DOMAIN line' \subseteq Lines \cap given' /\ IsFun(line)'
        BY <3>1, <2>1, <2>3, <2>4 DEF StoryTyped, IsFun
      <4> QED
        BY <3>2, <3>3, <4>1, <4>2, <4>3, <2>5, RecordsAreConstant DEF StoryTyped
  <2>10. CastsStand'
    <3>1. cast'[r.scene] = r.cast /\ \A s \in DOMAIN sequence : cast'[s] = cast[s]
      BY <2>1, <2>3 DEF ScenesInv, StoryTyped
    <3>2. \A m \in r.cast : /\ m.who \in people
                            /\ m.wears # Plain => m.wears \in wardrobe /\ CostumeOf[m.wears] = m.who
      BY <2>1, <2>3 DEF ForeignKeys, OwnCostumes
    <3> QED
      BY <3>1, <3>2, <2>1 DEF CastsStand, ScenesInv
  <2>11. LinesStand'
    <3>1. LinesStand
      BY DEF ScenesInv
    <3>2. \A l \in Range(w) : after[l].scene = r.scene
      BY <2>4 DEF OwnLine
    <3> QED
      BY <3>1, <3>2, <2>1, <2>4, <2>8 DEF LinesStand
  <2>12. PositionsDiffer(line)'
    <3>1. PositionsDiffer(after)
      <4> SUFFICES ASSUME NEW l \in DOMAIN after, NEW m \in DOMAIN after, l # m,
                          after[l].scene = after[m].scene
                   PROVE  after[l].position # after[m].position
        BY DEF PositionsDiffer
      <4>1. \A n \in DOMAIN line : line[n].scene # r.scene
        BY <2>3 DEF ScenesInv, LinesStand
      <4>2. CASE l \in Range(w) /\ m \in Range(w)
        BY <4>2, <2>4
      <4>3. CASE l \in DOMAIN line /\ m \in DOMAIN line
        BY <4>3, <2>4 DEF ScenesInv, PositionsDiffer
      <4>4. \A n \in Range(w) : after[n].scene = r.scene
        BY <2>4 DEF OwnLine
      <4> QED
        BY <4>1, <4>2, <4>3, <4>4, <2>4
    <3> QED
      BY <3>1, <2>1 DEF PositionsDiffer
  <2>13. VoicesStand'
    BY <2>1, <2>4 DEF VoicesStand, ScenesInv
  <2> QED
    BY <2>5, <2>9, <2>10, <2>11, <2>12, <2>13 DEF ScenesInv
<1> QED
  BY <1>3, <1>4

LEMMA WithoutKeeps ==
  ASSUME VoicesStand, NEW gone, NEW seen, Without(gone, seen),
         DOMAIN line \ gone \subseteq DOMAIN line'
  PROVE  VoicesStand'
BY DEF VoicesStand, Without

\* The lines of an update: those of the payload are at their places in the scene,
\* whether they were there or are new.
LEMMA UpdatedLines ==
  ASSUME ScenesInv, NEW r, Fits(r), r.op = "update", r.script # Kept,
         r.scene \in DOMAIN sequence,
         r.script # <<>> => r.speaker \in people,
         Range(r.script) \cap (DOMAIN r.existing \ DOMAIN line) = {},
         NEW existing, DOMAIN existing \cap Range(r.script) \subseteq DOMAIN line,
         NEW after, after = Placed(r, existing)
  PROVE  /\ IsFun(after)
         /\ DOMAIN after \subseteq DOMAIN line \cup NewLines(r)
         /\ \A l \in DOMAIN after :
              after[l] \in LineRecords /\ after[l].scene \in DOMAIN sequence
              /\ after[l].speaker \in people
         /\ \A l \in DOMAIN line \cap DOMAIN after : after[l].scene = line[l].scene
<1> DEFINE w == r.script
<1>1. Script(w)
  BY DEF Fits
<1>2. IsFun(after) /\ DOMAIN after \subseteq DOMAIN line \cup Range(w)
  <2>1. /\ DOMAIN after = (DOMAIN line \ (DOMAIN existing \ Range(w))) \cup Range(w)
        /\ IsFun(after)
    BY PlacedDomain
  <2> QED
    BY <2>1
<1>3. NewLines(r) = Range(w) \ DOMAIN r.existing
  BY DEF NewLines
<1>4. DOMAIN after \subseteq DOMAIN line \cup NewLines(r)
  BY <1>2, <1>3
<1>5. \A l \in DOMAIN line : /\ line[l] \in LineRecords /\ line[l].scene \in DOMAIN sequence
                             /\ line[l].speaker \in people
  BY DEF ScenesInv, StoryTyped, LinesStand
<1>6. people \subseteq Characters /\ DOMAIN sequence \subseteq Scenes
  BY DEF ScenesInv, StoryTyped
<1>7. ASSUME NEW l \in Range(w)
      PROVE  /\ OwnLine(after[l], r.scene) /\ after[l].scene = r.scene
             /\ after[l].speaker \in people
  <2>1. w # <<>>
    BY <1>7 DEF Range
  <2>2. /\ OwnLine(after[l], r.scene)
        /\ \/ after[l].speaker = r.speaker
           \/ l \in DOMAIN existing /\ after[l].speaker = line[l].speaker
    BY <1>1, <1>7, PlacedLines
  <2>3. after[l].scene = r.scene
    BY <2>2 DEF OwnLine
  <2> QED
    BY <2>1, <2>2, <2>3, <1>5, <1>7
<1>8. ASSUME NEW l \in DOMAIN after, l \notin Range(w) PROVE after[l] = line[l] /\ l \in DOMAIN line
  BY <1>1, <1>2, <1>8, PlacedLines
<1> HIDE DEF w
<1>9. ASSUME NEW l \in DOMAIN after
      PROVE  after[l] \in LineRecords /\ after[l].scene \in DOMAIN sequence
             /\ after[l].speaker \in people
  <2>1. CASE l \in Range(w)
    <3>1. /\ after[l].speaker \in Characters /\ r.scene \in Scenes
          /\ after[l] = [scene |-> r.scene, position |-> after[l].position,
                         speaker |-> after[l].speaker]
          /\ after[l].position \in Nat
      BY <2>1, <1>6, <1>7 DEF OwnLine
    <3>2. after[l] \in LineRecords /\ after[l].scene = r.scene
      BY <3>1 DEF LineRecords
    <3> QED
      BY <3>2, <2>1, <1>7
  <2>2. CASE l \notin Range(w)
    BY <2>2, <1>5, <1>8
  <2> QED
    BY <2>1, <2>2
<1>10. ASSUME NEW l \in DOMAIN line \cap DOMAIN after PROVE after[l].scene = line[l].scene
  <2>1. CASE l \in Range(w)
    <3>1. l \notin NewLines(r) /\ \A k \in DOMAIN r.existing \cap DOMAIN line : line[k].scene = r.scene
      BY DEF Fits
    <3>2. line[l].scene = r.scene
      BY <3>1, <2>1, <1>3
    <3> QED
      BY <3>2, <2>1, <1>7
  <2>2. CASE l \notin Range(w)
    BY <2>2, <1>8
  <2> QED
    BY <2>1, <2>2
<1> QED
  BY <1>2, <1>4, <1>9, <1>10

LEMMA CommitUpdateSceneKeeps ==
  ASSUME ScenesInv, NEW e \in Editors, CommitUpdateScene(e)
  PROVE  ScenesInv' /\ \A l \in DOMAIN line \cap DOMAIN line' : line'[l].scene = line[l].scene
<1>1. PICK r : r = edit[e]
  OBVIOUS
<1>2. r.op = "update" /\ Fits(r)
  BY <1>1 DEF CommitUpdateScene, ScenesInv, Requested
<1>3. CASE Refuse(e)
  BY <1>3, RefuseKeeps DEF Refuse, rows
<1>4. CASE ~Refuse(e)
  <2>1. PICK existing, seen, after, who :
          /\ existing = IF r.cast = Kept THEN r.existing
                        ELSE [l \in LinesOf(r.scene) |-> line[l].speaker]
          /\ after = IF r.script = Kept THEN line ELSE Placed(r, existing)
          /\ who = IF r.script \in {Kept, <<>>} THEN {} ELSE {r.speaker}
          /\ r.scene \in DOMAIN sequence
          /\ ForeignKeys(IF r.cast = Kept THEN {} ELSE r.cast, who)
          /\ r.script # Kept => /\ Range(r.script) \cap (DOMAIN r.existing \ DOMAIN line) = {}
                                /\ PositionsDiffer(after)
          /\ cast' = IF r.cast = Kept THEN cast ELSE [cast EXCEPT ![r.scene] = r.cast]
          /\ line' = after
          /\ Without(DOMAIN line \ DOMAIN after, seen)
          /\ Done(e)
          /\ UNCHANGED <<people, wardrobe, sequence, given>>
    BY <1>1, <1>4 DEF CommitUpdateScene
  <2>2. /\ IsFun(after)
        /\ DOMAIN after \subseteq DOMAIN line \cup NewLines(r)
        /\ \A l \in DOMAIN after :
             after[l] \in LineRecords /\ after[l].scene \in DOMAIN sequence
             /\ after[l].speaker \in people
        /\ \A l \in DOMAIN line \cap DOMAIN after : after[l].scene = line[l].scene
    <3>1. CASE r.script = Kept
      BY <3>1, <2>1 DEF ScenesInv, StoryTyped, LinesStand
    <3>2. CASE r.script # Kept
      <4>1. r.script # <<>> => r.speaker \in people
        BY <3>2, <2>1 DEF ForeignKeys
      <4>2. DOMAIN existing \cap Range(r.script) \subseteq DOMAIN line
        BY <3>2, <2>1 DEF LinesOf
      <4>3. after = Placed(r, existing)
        BY <3>2, <2>1
      <4> QED
        BY <4>1, <4>2, <4>3, <3>2, <2>1, <1>2, UpdatedLines
    <3> QED
      BY <3>1, <3>2
  <2>3. PositionsDiffer(after)
    BY <2>1 DEF ScenesInv
  <2>4. Requested' /\ IdsApart' /\ edit' = [f \in Editors |-> edit'[f]]
    BY <1>1, <2>1, <2>2, DoneKeeps DEF ScenesInv
  <2>5. /\ DOMAIN after \subseteq Lines \cap given
        /\ \A s \in Scenes : cast'[s] = IF s = r.scene /\ r.cast # Kept THEN r.cast ELSE cast[s]
        /\ cast' \in [Scenes -> SUBSET CastRecords]
    <3>1. NewLines(r) \subseteq Lines \cap given
      BY <1>2 DEF Fits, NewLines, Script
    <3>2. r.scene \in Scenes /\ (r.cast # Kept => r.cast \in SUBSET CastRecords)
      BY <1>2 DEF Fits
    <3>3. cast \in [Scenes -> SUBSET CastRecords] /\ DOMAIN line \subseteq Lines \cap given
      BY DEF ScenesInv, StoryTyped
    <3> QED
      BY <3>1, <3>2, <3>3, <2>1, <2>2
  <2>6. StoryTyped'
    <3>1. people' \subseteq Characters /\ wardrobe' \subseteq Costumes
          /\ DOMAIN sequence' \subseteq Scenes \cap given'
      BY <2>1 DEF ScenesInv, StoryTyped
    <3>2. DOMAIN line' \subseteq Lines \cap given' /\ IsFun(line)'
          /\ \A l \in DOMAIN line' : line'[l] \in LineRecords
      BY <2>1, <2>2, <2>5 DEF IsFun
    <3> QED
      BY <3>1, <3>2, <2>4, <2>5, RecordsAreConstant DEF StoryTyped
  <2>7. CastsStand'
    <3>1. CastsStand /\ DOMAIN sequence \subseteq Scenes
      BY DEF ScenesInv, StoryTyped
    <3>2. r.cast # Kept =>
            \A m \in r.cast : /\ m.who \in people
                              /\ m.wears # Plain => m.wears \in wardrobe /\ CostumeOf[m.wears] = m.who
      BY <1>2, <2>1 DEF ForeignKeys, OwnCostumes, Fits
    <3> QED
      BY <3>1, <3>2, <2>1, <2>5 DEF CastsStand
  <2>8. LinesStand'
    BY <2>1, <2>2 DEF LinesStand
  <2>9. PositionsDiffer(line)'
    <3>1. line' = after
      BY <2>1
    <3> QED
      BY <3>1, <2>3 DEF PositionsDiffer
  <2>10. VoicesStand'
    <3>1. VoicesStand
      BY DEF ScenesInv
    <3> QED
      BY <3>1, <2>1, WithoutKeeps
  <2> QED
    BY <2>1, <2>2, <2>4, <2>6, <2>7, <2>8, <2>9, <2>10 DEF ScenesInv
<1> QED
  BY <1>3, <1>4

LEMMA CommitDeleteSceneKeeps ==
  ASSUME ScenesInv, NEW e \in Editors, CommitDeleteScene(e)
  PROVE  ScenesInv'
<1>1. PICK r : r = edit[e]
  OBVIOUS
<1>2. r.op = "delete" /\ Fits(r)
  BY <1>1 DEF CommitDeleteScene, ScenesInv, Requested
<1>3. /\ sequence' = [s \in DOMAIN sequence \ {r.scene} |-> sequence[s]]
      /\ cast' = [cast EXCEPT ![r.scene] = {}]
      /\ line' = [l \in DOMAIN line \ LinesOf(r.scene) |-> line[l]]
      /\ Without(LinesOf(r.scene), r.voiced)
      /\ Done(e)
      /\ UNCHANGED <<people, wardrobe, given>>
  BY <1>1 DEF CommitDeleteScene
<1>4. Requested' /\ IdsApart' /\ edit' = [f \in Editors |-> edit'[f]]
  <2>1. DOMAIN sequence' \subseteq DOMAIN sequence /\ DOMAIN line' \subseteq DOMAIN line
        /\ \A l \in DOMAIN line' : line'[l] = line[l]
    BY <1>3
  <2> QED
    BY <2>1, <1>3, DoneKeeps DEF ScenesInv
<1>5. StoryTyped'
  BY <1>3, <1>4, RecordsAreConstant DEF ScenesInv, StoryTyped, IsFun
<1>6. CastsStand'
  BY <1>3 DEF ScenesInv, StoryTyped, CastsStand
<1>7. LinesStand'
  BY <1>3 DEF ScenesInv, LinesStand, LinesOf
<1>8. PositionsDiffer(line)'
  BY <1>3 DEF ScenesInv, PositionsDiffer
<1>9. VoicesStand'
  <2>1. VoicesStand /\ DOMAIN line \ LinesOf(r.scene) \subseteq DOMAIN line'
    BY <1>3 DEF ScenesInv
  <2> QED
    BY <2>1, <1>3, WithoutKeeps
<1> QED
  BY <1>4, <1>5, <1>6, <1>7, <1>8, <1>9 DEF ScenesInv

LEMMA CommitReorderKeeps ==
  ASSUME ScenesInv, NEW e \in Editors, CommitReorder(e)
  PROVE  ScenesInv'
<1>1. CASE Refuse(e)
  BY <1>1, RefuseKeeps
<1>2. CASE ~Refuse(e)
  <2>1. /\ DOMAIN sequence' = DOMAIN sequence
        /\ Done(e)
        /\ UNCHANGED <<people, wardrobe, cast, line, voiced, accepted, given, cascaded>>
    BY <1>2 DEF CommitReorder
  <2>2. Requested' /\ IdsApart' /\ edit' = [f \in Editors |-> edit'[f]]
    BY <2>1, DoneKeeps DEF ScenesInv
  <2>3. StoryTyped'
    BY <2>1, <2>2, RecordsAreConstant DEF ScenesInv, StoryTyped, IsFun
  <2> QED
    BY <2>1, <2>2, <2>3
    DEF ScenesInv, CastsStand, LinesStand, PositionsDiffer, VoicesStand
<1> QED
  BY <1>1, <1>2

\* Characters and costumes come and go; what is shown keeps those that it needs.
LEMMA PeopleChange ==
  ASSUME ScenesInv, NEW e \in Editors, Done(e),
         UNCHANGED <<sequence, cast, line, voiced, accepted, given, cascaded>>,
         people' \subseteq people, wardrobe' \subseteq Costumes,
         \A l \in DOMAIN line : line[l].speaker \in people',
         \A s \in DOMAIN sequence : \A m \in cast[s] :
           m.who \in people' /\ (m.wears # Plain /\ m.wears \in wardrobe => m.wears \in wardrobe')
  PROVE  ScenesInv'
<1>1. Requested' /\ IdsApart' /\ edit' = [f \in Editors |-> edit'[f]]
  BY DoneKeeps DEF ScenesInv
<1>2. StoryTyped'
  BY <1>1, RecordsAreConstant DEF ScenesInv, StoryTyped, IsFun
<1>3. CastsStand'
  BY DEF ScenesInv, CastsStand
<1>4. LinesStand' /\ PositionsDiffer(line)' /\ VoicesStand'
  BY DEF ScenesInv, LinesStand, PositionsDiffer, VoicesStand
<1> QED
  BY <1>1, <1>2, <1>3, <1>4 DEF ScenesInv

LEMMA CommitCreateCostumeKeeps ==
  ASSUME ScenesInv, NEW e \in Editors, CommitCreateCostume(e)
  PROVE  ScenesInv'
<1>1. CASE Refuse(e)
  BY <1>1, RefuseKeeps
<1>2. CASE ~Refuse(e)
  <2>1. /\ wardrobe' = wardrobe \cup {edit[e].costume}
        /\ Done(e)
        /\ UNCHANGED <<people, sequence, cast, line, voiced, accepted, given, cascaded>>
    BY <1>2 DEF CommitCreateCostume
  <2>2. edit[e].op = "costume" /\ Fits(edit[e])
    BY DEF CommitCreateCostume, ScenesInv, Requested
  <2>3. wardrobe' \subseteq Costumes
    BY <2>1, <2>2 DEF Fits, ScenesInv, StoryTyped
  <2> QED
    BY <2>1, <2>3, PeopleChange DEF ScenesInv, LinesStand, CastsStand
<1> QED
  BY <1>1, <1>2

LEMMA CommitDeleteCostumeKeeps ==
  ASSUME ScenesInv, NEW e \in Editors, CommitDeleteCostume(e)
  PROVE  ScenesInv'
<1>1. CASE Refuse(e)
  BY <1>1, RefuseKeeps
<1>2. CASE ~Refuse(e)
  <2>1. /\ wardrobe' = wardrobe \ {edit[e].costume}
        /\ Unused({edit[e].costume})
        /\ Done(e)
        /\ UNCHANGED <<people, sequence, cast, line, voiced, accepted, given, cascaded>>
    BY <1>2 DEF CommitDeleteCostume
  <2>2. \A s \in DOMAIN sequence : \A m \in cast[s] : m.wears # edit[e].costume
    BY <2>1 DEF Unused, Members
  <2>3. wardrobe' \subseteq Costumes
    BY <2>1 DEF ScenesInv, StoryTyped
  <2> QED
    BY <2>1, <2>2, <2>3, PeopleChange DEF ScenesInv, LinesStand, CastsStand
<1> QED
  BY <1>1, <1>2

LEMMA CommitDeleteCharacterKeeps ==
  ASSUME ScenesInv, NEW e \in Editors, CommitDeleteCharacter(e)
  PROVE  ScenesInv'
<1>1. CASE Refuse(e)
  BY <1>1, RefuseKeeps
<1>2. CASE ~Refuse(e)
  <2>1. PICK ch, costumes :
          /\ ch = edit[e].character
          /\ costumes = {k \in wardrobe : CostumeOf[k] = ch}
          /\ Unused({ch} \cup costumes)
          /\ people' = people \ {ch}
          /\ wardrobe' = wardrobe \ costumes
          /\ Done(e)
          /\ UNCHANGED <<sequence, cast, line, voiced, accepted, given, cascaded>>
    BY <1>2 DEF CommitDeleteCharacter
  <2>2. \A s \in DOMAIN sequence : \A m \in cast[s] : m.who # ch /\ m.wears \notin costumes
    BY <2>1 DEF Unused, Members
  <2>3. \A l \in DOMAIN line : line[l].speaker # ch
    BY <2>1 DEF Unused, Speakers
  <2>4. wardrobe' \subseteq Costumes
    BY <2>1 DEF ScenesInv, StoryTyped
  <2>5. \A l \in DOMAIN line : line[l].speaker \in people'
    BY <2>1, <2>3 DEF ScenesInv, LinesStand
  <2>6. \A s \in DOMAIN sequence : \A m \in cast[s] :
          m.who \in people' /\ (m.wears # Plain /\ m.wears \in wardrobe => m.wears \in wardrobe')
    BY <2>1, <2>2 DEF ScenesInv, CastsStand
  <2> QED
    BY <2>1, <2>4, <2>5, <2>6, PeopleChange
<1> QED
  BY <1>1, <1>2

LEMMA CreateCharacterKeeps ==
  ASSUME ScenesInv, NEW ch \in Characters, CreateCharacter(ch)
  PROVE  ScenesInv'
<1>1. /\ people' = people \cup {ch} /\ given' = given \cup {ch}
      /\ UNCHANGED <<wardrobe, sequence, cast, line, voiced, accepted, edit, cascaded>>
  BY DEF CreateCharacter
<1>2. StoryTyped'
  BY <1>1, RecordsAreConstant DEF ScenesInv, StoryTyped, IsFun
<1>3. Requested' /\ IdsApart'
  <2>1. ASSUME NEW f \in Editors, NEW q, q = edit'[f] PROVE Fits(q)'
    <3>1. Fits(q) /\ q = edit[f]
      BY <1>1, <2>1 DEF ScenesInv, Requested
    <3>2. /\ q.op = "create" => q.scene \notin DOMAIN sequence
          /\ NewLines(q) \cap DOMAIN line = {}
      BY <3>1 DEF Fits
    <3> QED
      BY <3>1, <3>2, <1>1, FitsKept
  <2>2. Requested'
    BY <2>1 DEF Requested, Fits, NewLines, Script, OwnCostumes
  <2> QED
    BY <2>2, <1>1 DEF ScenesInv, IdsApart, NewLines
<1> QED
  BY <1>1, <1>2, <1>3 DEF ScenesInv, CastsStand, LinesStand, PositionsDiffer, VoicesStand

LEMMA VoiceChange ==
  ASSUME ScenesInv, VoicesStand',
         UNCHANGED <<people, wardrobe, sequence, cast, line, edit, given>>
  PROVE  ScenesInv'
<1>1. StoryTyped' /\ CastsStand' /\ LinesStand' /\ PositionsDiffer(line)'
  BY RecordsAreConstant
  DEF ScenesInv, StoryTyped, IsFun, CastsStand, LinesStand, PositionsDiffer
<1>2. Requested' /\ IdsApart'
  BY DEF ScenesInv, Requested, IdsApart, Fits, Script, OwnCostumes, NewLines, CastRecords
<1> QED
  BY <1>1, <1>2 DEF ScenesInv

LEMMA ScenesStep ==
  ASSUME ScenesInv, [StoryNext]_storyVars
  PROVE  ScenesInv'
<1>1. ASSUME NEW l \in Lines, AdoptVoice(l) \/ ReleaseVoice(l) PROVE ScenesInv'
  <2>1. VoicesStand'
    BY <1>1 DEF AdoptVoice, ReleaseVoice, VoicesStand, ScenesInv
  <2> QED
    BY <1>1, <2>1, VoiceChange DEF AdoptVoice, ReleaseVoice
<1>2. CASE UNCHANGED storyVars
  <2>1. VoicesStand'
    BY <1>2 DEF storyVars, VoicesStand, ScenesInv
  <2> QED
    BY <1>2, <2>1, VoiceChange DEF storyVars
<1> QED
  BY <1>1, <1>2, BeginKeeps, CommitCreateSceneKeeps, CommitUpdateSceneKeeps,
     CommitDeleteSceneKeeps, CommitReorderKeeps, CommitCreateCostumeKeeps,
     CommitDeleteCostumeKeeps, CommitDeleteCharacterKeeps, CreateCharacterKeeps
  DEF StoryNext

LEMMA ScenesInit ==
  ASSUME StoryInit
  PROVE  ScenesInv
<1>1. PICK none : none = <<>> /\ DOMAIN none = {}
  OBVIOUS
<1>2. /\ people = {} /\ wardrobe = {} /\ sequence = none /\ line = none
      /\ cast = [s \in Scenes |-> {}] /\ voiced = {} /\ accepted = {}
      /\ edit = [e \in Editors |-> NoRequest] /\ cascaded = {}
  BY <1>1 DEF StoryInit
<1>3. IsFun(none)
  BY <1>1 DEF IsFun
<1>4. StoryTyped
  BY <1>1, <1>2, <1>3 DEF StoryTyped
<1>5. \A e \in Editors : edit[e] = NoRequest
  BY <1>2
<1>6. Fits(NoRequest) /\ NewLines(NoRequest) = {} /\ NoRequest.op = "none"
  BY DEF Fits, NoRequest, Ops, NewLines
<1>7. Requested
  BY <1>5, <1>6 DEF Requested
<1>8. IdsApart
  BY <1>5, <1>6 DEF IdsApart
<1> QED
  BY <1>1, <1>2, <1>4, <1>7, <1>8
  DEF ScenesInv, CastsStand, LinesStand, PositionsDiffer, VoicesStand

\* The strengthened invariant of scenes, casts, lines and the requests on them.
THEOREM ScenesInvariance == StorySpec => []ScenesInv
<1>1. StoryInit => ScenesInv
  BY ScenesInit
<1>2. ScenesInv /\ [StoryNext]_storyVars => ScenesInv'
  BY ScenesStep
<1> QED
  BY <1>1, <1>2, PTL DEF StorySpec

\* Whatever editors do at the same time, what a scene shows stands: the commits
\* of story.py check again, or the database refuses what no longer holds.
THEOREM ScenesStand == StorySpec => []StoryStands
<1>1. ScenesInv => StoryStands
  BY DEF ScenesInv, CastsStand, LinesStand, VoicesStand, StoryStands
<1> QED
  BY <1>1, ScenesInvariance, PTL

\* No step moves a line to another scene, and none of a request costs a line that
\* stays its voice.
THEOREM VoicesStay == StorySpec => LinesKeepVoices
<1> DEFINE Kept2 == \A l \in DOMAIN line \cap DOMAIN line' :
                      /\ line'[l].scene = line[l].scene
                      /\ edit' # edit => (l \in voiced => l \in voiced')
<1>1. ScenesInv /\ [StoryNext]_storyVars => [Kept2]_storyVars
  <2> SUFFICES ASSUME ScenesInv, StoryNext PROVE Kept2
    OBVIOUS
  <2>1. ASSUME UNCHANGED <<line, voiced>> PROVE Kept2
    BY <2>1
  <2>2. ASSUME NEW l \in Lines, AdoptVoice(l) \/ ReleaseVoice(l) PROVE Kept2
    BY <2>2 DEF AdoptVoice, ReleaseVoice
  <2>3. ASSUME NEW e \in Editors, Begin(e) PROVE UNCHANGED <<line, voiced>>
    <3>1. ASSUME NEW r, NEW ids, Ask(e, r, ids) PROVE UNCHANGED <<line, voiced>>
      BY <3>1 DEF Ask, rows
    <3> QED
      BY <2>3, <3>1
      DEF Begin, BeginCreateScene, BeginUpdateScene, BeginDeleteScene, BeginReorder,
          BeginCreateCostume, BeginDeleteCostume, BeginDeleteCharacter
  <2>4. ASSUME NEW e \in Editors, Refuse(e) PROVE UNCHANGED <<line, voiced>>
    BY <2>4 DEF Refuse, rows
  <2>5. ASSUME NEW e \in Editors, CommitCreateScene(e) PROVE Kept2
    <3>1. CASE Refuse(e)
      BY <3>1, <2>1, <2>4
    <3>2. CASE ~Refuse(e)
      <4>1. PICK none : none = <<>> /\ DOMAIN none = {}
        OBVIOUS
      <4>2. PICK r : r = edit[e]
        OBVIOUS
      <4>3. /\ line' = Placed(r, none) /\ voiced' = voiced /\ r.op = "create"
        BY <3>2, <4>1, <4>2, <2>5 DEF CommitCreateScene
      <4>4. Fits(r)
        BY <4>2 DEF ScenesInv, Requested
      <4>5. Script(r.script) /\ NewLines(r) = Range(r.script) /\ NewLines(r) \cap DOMAIN line = {}
        BY <4>3, <4>4 DEF Fits, NewLines
      <4>6. PICK after : after = Placed(r, none)
        OBVIOUS
      <4>7. \A l \in DOMAIN after : l \notin Range(r.script) => after[l] = line[l]
        BY <4>5, <4>6, PlacedLines
      <4> QED
        BY <4>3, <4>5, <4>6, <4>7
    <3> QED
      BY <3>1, <3>2
  <2>6. ASSUME NEW e \in Editors, CommitUpdateScene(e) PROVE Kept2
    <3>1. CASE Refuse(e)
      BY <3>1, <2>1, <2>4
    <3>2. CASE ~Refuse(e)
      <4>1. voiced' = voiced \ (DOMAIN line \ DOMAIN line')
        BY <3>2, <2>6 DEF CommitUpdateScene, Without
      <4> QED
        BY <4>1, <2>6, CommitUpdateSceneKeeps
    <3> QED
      BY <3>1, <3>2
  <2>7. ASSUME NEW e \in Editors, CommitDeleteScene(e) PROVE Kept2
    <3>1. \A l \in DOMAIN line' : line'[l] = line[l] /\ (l \in voiced => l \in voiced')
      BY <2>7 DEF CommitDeleteScene, Without
    <3> QED
      BY <3>1
  <2>8. ASSUME NEW e \in Editors,
               CommitReorder(e) \/ CommitCreateCostume(e) \/ CommitDeleteCostume(e)
               \/ CommitDeleteCharacter(e)
        PROVE  UNCHANGED <<line, voiced>>
    BY <2>8, <2>4
    DEF CommitReorder, CommitCreateCostume, CommitDeleteCostume, CommitDeleteCharacter
  <2>9. ASSUME NEW ch \in Characters, CreateCharacter(ch) PROVE UNCHANGED <<line, voiced>>
    BY <2>9 DEF CreateCharacter
  <2> HIDE DEF Kept2
  <2> QED
    BY <2>1, <2>2, <2>3, <2>5, <2>6, <2>7, <2>8, <2>9 DEF StoryNext
<1> QED
  BY <1>1, ScenesInvariance, PTL DEF StorySpec, LinesKeepVoices

-----------------------------------------------------------------------------
(* Imports of a snapshot. A plan is of its source and, while nothing is    *)
(* disturbed, of the rows there are.                                       *)

PersonRecords(held) == \A p \in DOMAIN held : held[p] = [name |-> held[p].name, ref |-> held[p].ref]

ImportTyped ==
  /\ source \in Sources
  /\ DOMAIN persons \subseteq spent /\ DOMAIN scenes \subseteq spent
  /\ PersonRecords(persons)
  /\ run = [i \in Runs |-> run[i]]
  /\ settled \in BOOLEAN /\ baffled \in BOOLEAN

\* The rows that a run will add.
PlannedPeople(r) == IF r.op \in {"people", "import"} THEN Range(r.ids) ELSE {}
PlannedIds(r) == IF r.op = "import" THEN DOMAIN r.scenes ELSE {}
LinkedTo(r) == IF r.op = "links" THEN Range(r.to) ELSE {}

\* A row for everyone planned and nobody twice.
PeoplePlan(r) ==
  /\ r.source \in Sources /\ ~Clashing(r.source)
  /\ DOMAIN r.ids \subseteq Collected(r.source)
  /\ IsInjective(r.ids)
  /\ r.quiet \in BOOLEAN
  /\ r.quiet => r.source = source /\ DOMAIN r.ids = NewPeople(source, persons)

MembersExist(r) == \A m \in DOMAIN r.member : r.member[m] \in DOMAIN persons \cup Range(r.ids)

RefsOf(held) == {held[s].ref : s \in DOMAIN held}
NewRefs(src, held) == {s.ref : s \in NewScenes(src, held)}
RefsDiffer(held) == \A s, t \in DOMAIN held : s # t => held[s].ref # held[t].ref

ScenePlan(r) ==
  /\ RefsDiffer(r.scenes)
  /\ r.quiet =>
       /\ RefsOf(r.scenes) = NewRefs(source, scenes)
       /\ \A s \in DOMAIN r.scenes : r.scenes[s].cast \subseteq DOMAIN persons \cup Range(r.ids)

LinkPlan(r) ==
  \A w \in DOMAIN r.to : r.to[w] \in DOMAIN scenes => scenes[r.to[w]].ref = r.refs[w]

Planned(r) ==
  /\ r.op \in {"none", "people", "import", "links"}
  /\ r.op = "none" => r = Nothing
  /\ r.op = "people" =>
       /\ r = [op |-> "people", source |-> r.source, ids |-> r.ids, quiet |-> r.quiet,
               member |-> r.member]
       /\ PeoplePlan(r)
       /\ r.quiet => MembersExist(r)
  /\ r.op = "import" =>
       /\ r = [op |-> "import", source |-> r.source, ids |-> r.ids, quiet |-> r.quiet,
               scenes |-> r.scenes]
       /\ PeoplePlan(r) /\ ScenePlan(r)
  /\ r.op = "links" =>
       /\ r = [op |-> "links", owned |-> r.owned, refs |-> r.refs, to |-> r.to]
       /\ LinkPlan(r)

Plans == \A i \in Runs : Planned(run[i])

\* Ids that runs have been given are theirs: no row has them yet, and no other run.
IdsOwn ==
  /\ \A i \in Runs :
       /\ PlannedPeople(run[i]) \cup PlannedIds(run[i]) \cup LinkedTo(run[i]) \subseteq spent
       /\ PlannedPeople(run[i]) \cap DOMAIN persons = {}
       /\ PlannedIds(run[i]) \cap DOMAIN scenes = {}
  /\ \A i, j \in Runs :
       /\ i # j => /\ PlannedPeople(run[i]) \cap PlannedPeople(run[j]) = {}
                   /\ PlannedIds(run[i]) \cap PlannedIds(run[j]) = {}
       /\ PlannedIds(run[i]) \cap LinkedTo(run[j]) = {}

ImportInv ==
  /\ ImportTyped /\ Plans /\ IdsOwn
  /\ OnePerSource /\ Repeatable

-----------------------------------------------------------------------------
(* What is collected from a source.                                        *)

LEMMA LeastIndex ==
  ASSUME NEW S \in SUBSET Nat, S # {}
  PROVE  \E i \in S : \A j \in S : ~(j < i)
<1>1. \E i \in S : \A j \in S : ~(<<j, i>> \in OpToRel(<, Nat))
  BY NatLessThanWellFounded, WFMin
<1> QED
  BY <1>1 DEF OpToRel

LEMMA FirstsDiffer ==
  ASSUME NEW items, items \in Seq(Range(items))
  PROVE  /\ \A c, d \in FirstOfName(items) : c.name = d.name => c = d
         /\ \A c, d \in FirstOfRef(items) : c.ref = d.ref => c = d
<1>1. DOMAIN items = 1 .. Len(items) /\ Len(items) \in Nat
  OBVIOUS
<1>2. ASSUME NEW c \in FirstOfName(items), NEW d \in FirstOfName(items), c.name = d.name
      PROVE  c = d
  <2>1. PICK i \in DOMAIN items : c = items[i] /\ \A h \in 1 .. i - 1 : items[h].name # items[i].name
    BY DEF FirstOfName
  <2>2. PICK j \in DOMAIN items : d = items[j] /\ \A h \in 1 .. j - 1 : items[h].name # items[j].name
    BY DEF FirstOfName
  <2>3. ~(i < j) /\ ~(j < i)
    BY <1>1, <1>2, <2>1, <2>2
  <2> QED
    BY <1>1, <2>1, <2>2, <2>3
<1>3. ASSUME NEW c \in FirstOfRef(items), NEW d \in FirstOfRef(items), c.ref = d.ref
      PROVE  c = d
  <2>1. PICK i \in DOMAIN items : c = items[i] /\ \A h \in 1 .. i - 1 : items[h].ref # items[i].ref
    BY DEF FirstOfRef
  <2>2. PICK j \in DOMAIN items : d = items[j] /\ \A h \in 1 .. j - 1 : items[h].ref # items[j].ref
    BY DEF FirstOfRef
  <2>3. ~(i < j) /\ ~(j < i)
    BY <1>1, <1>3, <2>1, <2>2
  <2> QED
    BY <1>1, <2>1, <2>2, <2>3
<1> QED
  BY <1>2, <1>3

\* Every name has its first.
LEMMA FirstsCover ==
  ASSUME NEW items, items \in Seq(Range(items)), NEW l \in Range(items)
  PROVE  \E c \in FirstOfName(items) : c.name = l.name
<1>1. DOMAIN items = 1 .. Len(items) /\ Len(items) \in Nat
  OBVIOUS
<1> DEFINE S == {i \in DOMAIN items : items[i].name = l.name}
<1>2. S \in SUBSET Nat /\ S # {}
  BY <1>1 DEF Range
<1>3. PICK i \in S : \A j \in S : ~(j < i)
  BY <1>2, LeastIndex
<1>4. \A h \in 1 .. i - 1 : h \in DOMAIN items /\ h < i
  BY <1>1, <1>3
<1>5. \A h \in 1 .. i - 1 : items[h].name # items[i].name
  BY <1>3, <1>4
<1> QED
  BY <1>3, <1>5 DEF FirstOfName

LEMMA CollectedDiffer ==
  ASSUME NEW src \in Sources
  PROVE  \A c, d \in Collected(src) : c.name = d.name => c = d
<1>1. \A c, d \in FirstOfName(src.canon) : c.name = d.name => c = d
  BY FirstsDiffer, ImportAssumption
<1>2. \A c, d \in FirstOfName(src.legacy) : c.name = d.name => c = d
  BY FirstsDiffer, ImportAssumption
<1> QED
  BY <1>1, <1>2 DEF Collected

LEMMA CollectedCover ==
  ASSUME NEW src \in Sources, NEW l \in Range(src.legacy)
  PROVE  \E c \in Collected(src) : c.name = l.name
<1>1. PICK c \in FirstOfName(src.legacy) : c.name = l.name
  BY FirstsCover, ImportAssumption
<1> QED
  BY <1>1 DEF Collected

\* A member has a row, or will have one.
LEMMA MembersHaveRows ==
  ASSUME NEW src \in Sources, NEW held, NEW ids, DOMAIN ids = NewPeople(src, held),
         NEW member \in {l.ref : l \in Range(src.legacy)}
  PROVE  RowOf(src, held, ids, member) \in DOMAIN held \cup Range(ids)
<1>1. PICK old : old = CHOOSE l \in Range(src.legacy) : l.ref = member
  OBVIOUS
<1>2. old \in Range(src.legacy)
  BY <1>1
<1>3. PICK c : c = CHOOSE d \in Collected(src) : d.name = old.name
  OBVIOUS
<1>4. c \in Collected(src)
  BY <1>2, <1>3, CollectedCover
<1> DEFINE exact == {p \in DOMAIN held : held[p].ref = c.ref}
<1>5. RowOf(src, held, ids, member) =
        IF c \in DOMAIN ids THEN ids[c]
        ELSE CHOOSE p \in (IF exact # {} THEN exact ELSE Known(c, held)) : TRUE
  BY <1>1, <1>3 DEF RowOf
<1>6. CASE c \in DOMAIN ids
  BY <1>5, <1>6 DEF Range
<1>7. CASE c \notin DOMAIN ids
  <2>1. Known(c, held) # {}
    BY <1>4, <1>7 DEF NewPeople
  <2>2. Known(c, held) \subseteq DOMAIN held /\ exact \subseteq DOMAIN held
    BY DEF Known
  <2> QED
    BY <1>5, <1>7, <2>1, <2>2
<1> QED
  BY <1>6, <1>7

\* The scenes of a plan are the new ones of the source, once each.
LEMMA PlannedScenesAreNew ==
  ASSUME NEW src \in Sources, NEW held, NEW at, NEW free, NEW member,
         NEW chosen \in Injection(NewScenes(src, held), free),
         NEW planned, planned = PlannedScenes(src, held, at, chosen, member)
  PROVE  /\ DOMAIN planned = Range(chosen)
         /\ RefsDiffer(planned)
         /\ RefsOf(planned) = NewRefs(src, held)
         /\ \A s \in DOMAIN planned : planned[s].cast \subseteq Range(member)
<1> DEFINE new == NewScenes(src, held)
           Of(id) == CHOOSE t \in new : chosen[t] = id
<1>1. chosen \in [new -> free] /\ \A s, t \in new : chosen[s] = chosen[t] => s = t
  BY DEF Injection, IsInjective
<1>2. ASSUME NEW id \in Range(chosen) PROVE Of(id) \in new /\ chosen[Of(id)] = id
  BY <1>1 DEF Range
<1>3. DOMAIN planned = Range(chosen)
  BY DEF PlannedScenes
<1>4. ASSUME NEW id \in Range(chosen)
      PROVE  planned[id].ref = Of(id).ref
             /\ planned[id].cast = {member[m] : m \in Of(id).members \cap DOMAIN member}
  BY DEF PlannedScenes
<1>5. \A s, t \in new : s.ref = t.ref => s = t
  <2>1. \A s, t \in FirstOfRef(src.scenes) : s.ref = t.ref => s = t
    BY FirstsDiffer, ImportAssumption
  <2> QED
    BY <2>1 DEF NewScenes
<1> HIDE DEF new, Of
<1>6. \A s, t \in Range(chosen) : s # t => planned[s].ref # planned[t].ref
  BY <1>2, <1>4, <1>5
<1>7. \A s \in new : chosen[s] \in Range(chosen) /\ Of(chosen[s]) = s
  <2> SUFFICES ASSUME NEW s \in new PROVE chosen[s] \in Range(chosen) /\ Of(chosen[s]) = s
    OBVIOUS
  <2>1. chosen[s] \in Range(chosen)
    BY <1>1 DEF Range
  <2> QED
    BY <2>1, <1>1, <1>2
<1>8. {planned[s].ref : s \in Range(chosen)} = {s.ref : s \in new}
  <2>1. ASSUME NEW id \in Range(chosen) PROVE planned[id].ref \in {s.ref : s \in new}
    BY <2>1, <1>2, <1>4
  <2>2. ASSUME NEW s \in new PROVE s.ref \in {planned[id].ref : id \in Range(chosen)}
    BY <2>2, <1>4, <1>7
  <2> QED
    BY <2>1, <2>2
<1>9. \A s \in Range(chosen) : planned[s].cast \subseteq Range(member)
  BY <1>4 DEF Range
<1> QED
  BY <1>3, <1>6, <1>8, <1>9 DEF new, RefsDiffer, RefsOf, NewRefs

LEMMA NewIdsAreInjective ==
  ASSUME NEW new, NEW free, ExistsInjection(new, free)
  PROVE  IdsFor(new, free) \in Injection(new, free)
BY DEF ExistsInjection, IdsFor

-----------------------------------------------------------------------------
(* Runs and what happens around them.                                      *)

\* A plan stays right while nothing changes; once disturbed it promises less.
LEMMA PlanKept ==
  ASSUME NEW r, Planned(r),
         r.op \in {"people", "import"} => ~r.quiet \/ UNCHANGED <<source, persons, scenes>>,
         \A s \in LinkedTo(r) \cap DOMAIN scenes' :
           s \in DOMAIN scenes /\ scenes'[s].ref = scenes[s].ref
  PROVE  Planned(r)'
<1>1. CASE r.op = "none"
  BY <1>1 DEF Planned
<1>2. CASE r.op = "people"
  <2>1. PeoplePlan(r)'
    BY <1>2 DEF Planned, PeoplePlan
  <2>2. r.quiet => MembersExist(r)'
    BY <1>2 DEF Planned, MembersExist
  <2> QED
    BY <1>2, <2>1, <2>2 DEF Planned
<1>3. CASE r.op = "import"
  <2>1. PeoplePlan(r)'
    BY <1>3 DEF Planned, PeoplePlan
  <2>2. ScenePlan(r)'
    BY <1>3 DEF Planned, ScenePlan
  <2> QED
    BY <1>3, <2>1, <2>2 DEF Planned
<1>4. CASE r.op = "links"
  <2>1. \A w \in DOMAIN r.to : r.to[w] \in LinkedTo(r)
    BY <1>4 DEF LinkedTo, Range
  <2>2. LinkPlan(r)'
    BY <1>4, <2>1 DEF Planned, LinkPlan
  <2> QED
    BY <1>4, <2>2 DEF Planned
<1> QED
  BY <1>1, <1>2, <1>3, <1>4 DEF Planned

Unquiet(r) == IF r.op \in {"people", "import"} THEN [r EXCEPT !.quiet = FALSE] ELSE r

LEMMA UnquietPlan ==
  ASSUME NEW r, Planned(r)
  PROVE  /\ Planned(Unquiet(r)) /\ Unquiet(r).op = r.op
         /\ r.op \in {"people", "import"} => Unquiet(r).quiet = FALSE
         /\ PlannedPeople(Unquiet(r)) = PlannedPeople(r)
         /\ PlannedIds(Unquiet(r)) = PlannedIds(r)
         /\ LinkedTo(Unquiet(r)) = LinkedTo(r)
<1>1. CASE r.op = "people"
  <2>1. r = [op |-> "people", source |-> r.source, ids |-> r.ids, quiet |-> r.quiet,
             member |-> r.member]
    BY <1>1 DEF Planned
  <2>2. PICK q : q = Unquiet(r)
    OBVIOUS
  <2>3. q = [op |-> "people", source |-> r.source, ids |-> r.ids, quiet |-> FALSE,
             member |-> r.member]
    BY <1>1, <2>1, <2>2 DEF Unquiet
  <2>4. /\ q.op = "people" /\ q.source = r.source /\ q.ids = r.ids /\ q.quiet = FALSE
        /\ q.member = r.member
    BY <2>3
  <2>5. Planned(q)
    BY <1>1, <2>3, <2>4 DEF Planned, PeoplePlan
  <2> QED
    BY <1>1, <2>2, <2>4, <2>5 DEF PlannedPeople, PlannedIds, LinkedTo
<1>2. CASE r.op = "import"
  <2>1. r = [op |-> "import", source |-> r.source, ids |-> r.ids, quiet |-> r.quiet,
             scenes |-> r.scenes]
    BY <1>2 DEF Planned
  <2>2. PICK q : q = Unquiet(r)
    OBVIOUS
  <2>3. q = [op |-> "import", source |-> r.source, ids |-> r.ids, quiet |-> FALSE,
             scenes |-> r.scenes]
    BY <1>2, <2>1, <2>2 DEF Unquiet
  <2>4. /\ q.op = "import" /\ q.source = r.source /\ q.ids = r.ids /\ q.quiet = FALSE
        /\ q.scenes = r.scenes
    BY <2>3
  <2>5. Planned(q)
    BY <1>2, <2>3, <2>4 DEF Planned, PeoplePlan, ScenePlan
  <2> QED
    BY <1>2, <2>2, <2>4, <2>5 DEF PlannedPeople, PlannedIds, LinkedTo
<1>3. CASE r.op \notin {"people", "import"}
  BY <1>3 DEF Unquiet
<1> QED
  BY <1>1, <1>2, <1>3

LEMMA PlansNext ==
  ASSUME \A j \in Runs : \A q : q = run'[j] => Planned(q)'
  PROVE  Plans'
<1> SUFFICES ASSUME NEW j \in Runs PROVE Planned(run[j])'
  BY DEF Plans
<1>1. PICK q : q = run'[j]
  OBVIOUS
<1>2. Planned(q)'
  BY <1>1
<1>3. PeoplePlan(q)' => PeoplePlan(run[j])'
  BY <1>1 DEF PeoplePlan
<1>4. ScenePlan(q)' => ScenePlan(run[j])'
  BY <1>1 DEF ScenePlan
<1>5. LinkPlan(q)' => LinkPlan(run[j])'
  BY <1>1 DEF LinkPlan
<1>6. MembersExist(q)' => MembersExist(run[j])'
  BY <1>1 DEF MembersExist
<1> QED
  BY <1>1, <1>2, <1>3, <1>4, <1>5, <1>6 DEF Planned

\* A run goes on to r; the others stay as they are and nothing else changes but
\* the ids that r has been given.
LEMMA BecomeKeeps ==
  ASSUME ImportInv, NEW i \in Runs, NEW r, Become(i, r),
         UNCHANGED <<source, persons, scenes, settled, baffled>>,
         spent \subseteq spent',
         Planned(r)',
         PlannedPeople(r) \cup PlannedIds(r) \cup LinkedTo(r) \subseteq spent',
         PlannedPeople(r) \subseteq PlannedPeople(run[i])
         \/ PlannedPeople(r) \cap spent = {},
         PlannedIds(r) \cap spent = {},
         LinkedTo(r) \subseteq DOMAIN scenes,
         PlannedIds(r) \cap LinkedTo(r) = {}
  PROVE  ImportInv'
<1>1. ASSUME NEW j \in Runs PROVE run'[j] = IF j = i THEN r ELSE run[j]
  BY DEF Become, ImportInv, ImportTyped
<1>2. Plans'
  <2>1. ASSUME NEW j \in Runs, NEW q, q = run'[j] PROVE Planned(q)'
    <3>1. CASE j = i
      BY <3>1, <2>1, <1>1
    <3>2. CASE j # i
      BY <3>2, <2>1, <1>1, PlanKept DEF ImportInv, Plans
    <3> QED
      BY <3>1, <3>2
  <2> QED
    BY <2>1, PlansNext
<1>3. IdsOwn'
  <2>1. IdsOwn /\ DOMAIN persons \cup DOMAIN scenes \subseteq spent
    BY DEF ImportInv, ImportTyped
  <2>2. ASSUME NEW j \in Runs
        PROVE  /\ PlannedPeople(run[j]) \cup PlannedIds(run[j]) \cup LinkedTo(run[j]) \subseteq spent
               /\ PlannedPeople(run[j]) \cap DOMAIN persons = {}
               /\ PlannedIds(run[j]) \cap DOMAIN scenes = {}
    BY <2>1 DEF IdsOwn
  <2>3. PlannedPeople(r) \cap DOMAIN persons = {} /\ PlannedIds(r) \cap DOMAIN scenes = {}
    BY <2>1, <2>2
  <2>4. ASSUME NEW j \in Runs, j # i
        PROVE  /\ PlannedPeople(r) \cap PlannedPeople(run[j]) = {}
               /\ PlannedIds(r) \cap PlannedIds(run[j]) = {}
               /\ PlannedIds(r) \cap LinkedTo(run[j]) = {}
               /\ PlannedIds(run[j]) \cap LinkedTo(r) = {}
    <3>1. PlannedPeople(run[i]) \cap PlannedPeople(run[j]) = {}
      BY <2>1, <2>4 DEF IdsOwn
    <3> QED
      BY <3>1, <2>2
  <2>5. ASSUME NEW j \in Runs
        PROVE  /\ PlannedPeople(run'[j]) \cup PlannedIds(run'[j]) \cup LinkedTo(run'[j]) \subseteq spent'
               /\ PlannedPeople(run'[j]) \cap DOMAIN persons' = {}
               /\ PlannedIds(run'[j]) \cap DOMAIN scenes' = {}
    BY <1>1, <2>2, <2>3
  <2>6. ASSUME NEW j \in Runs, NEW k \in Runs
        PROVE  /\ j # k => /\ PlannedPeople(run'[j]) \cap PlannedPeople(run'[k]) = {}
                           /\ PlannedIds(run'[j]) \cap PlannedIds(run'[k]) = {}
               /\ PlannedIds(run'[j]) \cap LinkedTo(run'[k]) = {}
    <3>1. CASE j # i /\ k # i
      BY <3>1, <1>1, <2>1 DEF IdsOwn
    <3>2. CASE j = i /\ k # i
      BY <3>2, <1>1, <2>4
    <3>3. CASE j # i /\ k = i
      BY <3>3, <1>1, <2>4
    <3>4. CASE j = i /\ k = i
      BY <3>4, <1>1
    <3> QED
      BY <3>1, <3>2, <3>3, <3>4
  <2> QED
    BY <2>5, <2>6 DEF IdsOwn, PlannedPeople, PlannedIds, LinkedTo
<1>4. ImportTyped'
  BY DEF ImportInv, ImportTyped, PersonRecords, Become
<1>5. OnePerSource' /\ Repeatable'
  BY DEF ImportInv, OnePerSource, Repeatable, NewPeople, NewScenes, Known, Collected
<1> QED
  BY <1>2, <1>3, <1>4, <1>5 DEF ImportInv

LEMMA BeginImportKeeps ==
  ASSUME ImportInv, NEW i \in Runs, BeginImport(i)
  PROVE  ImportInv'
<1>1. PICK new, ids :
        /\ new = NewPeople(source, persons)
        /\ ids \in Injection(new, PersonIds \ spent)
        /\ Become(i, [op |-> "people", source |-> source, ids |-> ids, quiet |-> TRUE,
                      member |-> [m \in {l.ref : l \in Range(source.legacy)} |->
                                    RowOf(source, persons, ids, m)]])
        /\ spent' = spent \cup Range(ids)
        /\ ~Clashing(source)
        /\ UNCHANGED <<source, persons, scenes, link, settled, baffled>>
  BY NewIdsAreInjective DEF BeginImport
<1>2. PICK r : r = [op |-> "people", source |-> source, ids |-> ids, quiet |-> TRUE,
                    member |-> [m \in {l.ref : l \in Range(source.legacy)} |->
                                  RowOf(source, persons, ids, m)]]
  OBVIOUS
<1>3. /\ r.op = "people" /\ r.source = source /\ r.ids = ids /\ r.quiet = TRUE
      /\ r.member = [m \in {l.ref : l \in Range(source.legacy)} |->
                       RowOf(source, persons, ids, m)]
      /\ r = [op |-> "people", source |-> r.source, ids |-> r.ids, quiet |-> r.quiet,
              member |-> r.member]
  BY <1>2
<1>4. source \in Sources
  BY DEF ImportInv, ImportTyped
<1>5. DOMAIN ids = new /\ IsInjective(ids) /\ Range(ids) \subseteq PersonIds \ spent
  BY <1>1 DEF Injection, Range
<1>6. PeoplePlan(r)
  BY <1>1, <1>3, <1>4, <1>5 DEF PeoplePlan, NewPeople
<1>7. MembersExist(r)
  BY <1>1, <1>3, <1>4, <1>5, MembersHaveRows DEF MembersExist
<1>8. Planned(r)
  BY <1>3, <1>6, <1>7 DEF Planned
<1>9. PlannedPeople(r) = Range(ids) /\ PlannedIds(r) = {} /\ LinkedTo(r) = {}
  BY <1>3 DEF PlannedPeople, PlannedIds, LinkedTo
<1>10. Planned(r)'
  BY <1>1, <1>8, <1>9, PlanKept
<1> QED
  BY <1>1, <1>2, <1>5, <1>9, <1>10, BecomeKeeps

LEMMA PlanScenesKeeps ==
  ASSUME ImportInv, NEW i \in Runs, PlanScenes(i)
  PROVE  ImportInv'
<1>1. PICK o : o = run[i]
  OBVIOUS
<1>2. Planned(o) /\ o.op = "people"
  BY <1>1 DEF PlanScenes, ImportInv, Plans
<1>3. PICK at, chosen, planned, r :
        /\ chosen \in Injection(NewScenes(o.source, scenes), SceneIds \ spent)
        /\ planned = PlannedScenes(o.source, scenes, at, chosen, o.member)
        /\ r = [op |-> "import", source |-> o.source, ids |-> o.ids, quiet |-> o.quiet,
                scenes |-> planned]
        /\ Become(i, r)
        /\ spent' = spent \cup Range(chosen)
        /\ UNCHANGED <<source, persons, scenes, link, settled, baffled>>
  BY <1>1, NewIdsAreInjective DEF PlanScenes
<1>4. /\ r.op = "import" /\ r.source = o.source /\ r.ids = o.ids /\ r.quiet = o.quiet
      /\ r.scenes = planned
      /\ r = [op |-> "import", source |-> r.source, ids |-> r.ids, quiet |-> r.quiet,
              scenes |-> r.scenes]
  BY <1>3
<1>5. PeoplePlan(o) /\ (o.quiet => MembersExist(o))
  BY <1>2 DEF Planned
<1>6. PeoplePlan(r)
  BY <1>4, <1>5 DEF PeoplePlan
<1>7. /\ DOMAIN planned = Range(chosen)
      /\ RefsDiffer(planned)
      /\ RefsOf(planned) = NewRefs(o.source, scenes)
      /\ \A s \in DOMAIN planned : planned[s].cast \subseteq Range(o.member)
  <2>1. o.source \in Sources
    BY <1>5 DEF PeoplePlan
  <2> QED
    <3>1. PICK from, free, member : from = o.source /\ free = SceneIds \ spent /\ member = o.member
      OBVIOUS
    <3>2. /\ from \in Sources /\ chosen \in Injection(NewScenes(from, scenes), free)
          /\ planned = PlannedScenes(from, scenes, at, chosen, member)
      BY <2>1, <3>1, <1>3
    <3>3. /\ DOMAIN planned = Range(chosen)
          /\ RefsDiffer(planned)
          /\ RefsOf(planned) = NewRefs(from, scenes)
          /\ \A s \in DOMAIN planned : planned[s].cast \subseteq Range(member)
      BY <3>2, PlannedScenesAreNew
    <3> QED
      BY <3>1, <3>3
<1>8. o.quiet => o.source = source /\ Range(o.member) \subseteq DOMAIN persons \cup Range(o.ids)
  BY <1>5 DEF PeoplePlan, MembersExist, Range
<1>9. ScenePlan(r)
  BY <1>4, <1>7, <1>8 DEF ScenePlan
<1>10. Planned(r)
  BY <1>4, <1>6, <1>9 DEF Planned
<1>11. /\ PlannedPeople(r) = PlannedPeople(o) /\ PlannedIds(r) = Range(chosen) /\ LinkedTo(r) = {}
  BY <1>2, <1>4, <1>7 DEF PlannedPeople, PlannedIds, LinkedTo
<1>12. Range(chosen) \cap spent = {}
  BY <1>3 DEF Injection, Range
<1>13. PlannedPeople(o) \subseteq spent
  BY <1>1 DEF ImportInv, IdsOwn
<1>14. Planned(r)'
  BY <1>3, <1>10, <1>11, PlanKept
<1> QED
  BY <1>1, <1>3, <1>11, <1>12, <1>13, <1>14, BecomeKeeps

LEMMA BeginLinksKeeps ==
  ASSUME ImportInv, NEW i \in Runs, BeginLinks(i)
  PROVE  ImportInv'
<1>1. PICK refs, to, r :
        /\ refs = [w \in Works |-> FiledScene(w)]
        /\ to = [w \in {v \in Works : Targets(v) # {}} |-> CHOOSE s \in Targets(w) : TRUE]
        /\ r = [op |-> "links", owned |-> owned, refs |-> refs, to |-> to]
        /\ Become(i, r)
        /\ UNCHANGED <<source, persons, scenes, link, settled, baffled, spent>>
  BY DEF BeginLinks
<1>2. /\ r.op = "links" /\ r.refs = refs /\ r.to = to
      /\ r = [op |-> "links", owned |-> r.owned, refs |-> r.refs, to |-> r.to]
  BY <1>1
<1>3. \A w \in DOMAIN to : w \in Works /\ to[w] \in Targets(w)
  BY <1>1
<1>4. \A w \in DOMAIN to : to[w] \in DOMAIN scenes /\ scenes[to[w]].ref = refs[w]
  BY <1>1, <1>3 DEF Targets
<1>5. Planned(r)
  BY <1>2, <1>4 DEF Planned, LinkPlan
<1>6. PlannedPeople(r) = {} /\ PlannedIds(r) = {} /\ LinkedTo(r) \subseteq DOMAIN scenes
  BY <1>2, <1>4 DEF PlannedPeople, PlannedIds, LinkedTo, Range
<1>7. Planned(r)'
  BY <1>1, <1>2, <1>5, <1>6, PlanKept
<1>8. DOMAIN scenes \subseteq spent
  BY DEF ImportInv, ImportTyped
<1> QED
  BY <1>1, <1>6, <1>7, <1>8, BecomeKeeps

\* Rows change under runs that are disturbed by it, or over.
LEMMA RunsDisturbed ==
  ASSUME ImportInv, NEW over,
         \A j \in Runs : run'[j] = IF j \in over THEN Nothing ELSE Unquiet(run[j]),
         spent \subseteq spent',
         \A j \in Runs \ over :
           /\ PlannedPeople(run[j]) \cap DOMAIN persons' = {}
           /\ PlannedIds(run[j]) \cap DOMAIN scenes' = {}
           /\ \A s \in LinkedTo(run[j]) \cap DOMAIN scenes' :
                s \in DOMAIN scenes /\ scenes'[s].ref = scenes[s].ref
  PROVE  Plans' /\ IdsOwn'
<1>1. ASSUME NEW j \in Runs \ over, NEW r, r = run[j]
      PROVE  /\ Planned(Unquiet(r)) /\ Unquiet(r).op = r.op
             /\ r.op \in {"people", "import"} => Unquiet(r).quiet = FALSE
             /\ PlannedPeople(Unquiet(r)) = PlannedPeople(r)
             /\ PlannedIds(Unquiet(r)) = PlannedIds(r)
             /\ LinkedTo(Unquiet(r)) = LinkedTo(r)
  BY <1>1, UnquietPlan DEF ImportInv, Plans
<1>2. Planned(Nothing)' /\ PlannedPeople(Nothing) = {} /\ PlannedIds(Nothing) = {}
      /\ LinkedTo(Nothing) = {}
  BY DEF Nothing, Planned, PlannedPeople, PlannedIds, LinkedTo
<1>3. ASSUME NEW j \in Runs, NEW q, q = run'[j] PROVE Planned(q)'
  <2>1. CASE j \in over
    BY <2>1, <1>2, <1>3
  <2>2. CASE j \notin over
    <3>1. q = Unquiet(run[j])
      BY <2>2, <1>3
    <3>2. /\ Planned(q) /\ (q.op \in {"people", "import"} => ~q.quiet)
          /\ LinkedTo(q) = LinkedTo(run[j])
      BY <3>1, <2>2, <1>1
    <3> QED
      BY <3>2, <2>2, PlanKept
  <2> QED
    BY <2>1, <2>2
<1>4. Plans'
  BY <1>3, PlansNext
<1>5. ASSUME NEW j \in Runs
      PROVE  /\ PlannedPeople(run'[j]) = IF j \in over THEN {} ELSE PlannedPeople(run[j])
             /\ PlannedIds(run'[j]) = IF j \in over THEN {} ELSE PlannedIds(run[j])
             /\ LinkedTo(run'[j]) = IF j \in over THEN {} ELSE LinkedTo(run[j])
  BY <1>1, <1>2
<1>6. IdsOwn
  BY DEF ImportInv
<1>7. ASSUME NEW j \in Runs
      PROVE  /\ PlannedPeople(run'[j]) \cup PlannedIds(run'[j]) \cup LinkedTo(run'[j]) \subseteq spent'
             /\ PlannedPeople(run'[j]) \cap DOMAIN persons' = {}
             /\ PlannedIds(run'[j]) \cap DOMAIN scenes' = {}
  BY <1>5, <1>6 DEF IdsOwn
<1>8. ASSUME NEW j \in Runs, NEW k \in Runs
      PROVE  /\ j # k => /\ PlannedPeople(run'[j]) \cap PlannedPeople(run'[k]) = {}
                         /\ PlannedIds(run'[j]) \cap PlannedIds(run'[k]) = {}
             /\ PlannedIds(run'[j]) \cap LinkedTo(run'[k]) = {}
  BY <1>5, <1>6 DEF IdsOwn
<1>9. IdsOwn'
  BY <1>7, <1>8 DEF IdsOwn, PlannedPeople, PlannedIds, LinkedTo
<1> QED
  BY <1>4, <1>9

\* The rows that a plan of people makes: one name and one reference each.
RowsRight(held, ids) ==
  /\ DOMAIN held = Range(ids) /\ PersonRecords(held)
  /\ \A p, q \in DOMAIN held :
       p # q => held[p].name # held[q].name /\ held[p].ref # held[q].ref
  /\ \A c \in DOMAIN ids : ids[c] \in DOMAIN held /\ held[ids[c]].name = c.name
  /\ \A p \in DOMAIN held :
       \E c \in DOMAIN ids : held[p].name = c.name /\ held[p].ref = c.ref

LEMMA NewRowsDiffer ==
  ASSUME NEW r, PeoplePlan(r), NEW held, held = RowsFor(r.ids)
  PROVE  RowsRight(held, r.ids)
<1> DEFINE Of(p) == CHOOSE d \in DOMAIN r.ids : r.ids[d] = p
<1>1. ASSUME NEW p \in Range(r.ids) PROVE Of(p) \in DOMAIN r.ids /\ r.ids[Of(p)] = p
  BY DEF Range
<1>2. ASSUME NEW p \in Range(r.ids) PROVE held[p] = [name |-> Of(p).name, ref |-> Of(p).ref]
  BY DEF RowsFor
<1> HIDE DEF Of
<1>3. ASSUME NEW p \in Range(r.ids) PROVE held[p].name = Of(p).name /\ held[p].ref = Of(p).ref
  <2>1. held[p] = [name |-> Of(p).name, ref |-> Of(p).ref]
    BY <1>2
  <2> QED
    BY <2>1
<1>4. \A c, d \in DOMAIN r.ids : c # d => c.name # d.name /\ c.ref # d.ref
  <2>1. \A c, d \in Collected(r.source) : c.name = d.name => c = d
    BY CollectedDiffer DEF PeoplePlan
  <2> QED
    BY <2>1 DEF PeoplePlan, Clashing
<1>5. DOMAIN held = Range(r.ids)
  BY DEF RowsFor
<1>6. PersonRecords(held)
  BY <1>2, <1>3, <1>5 DEF PersonRecords
<1>7. ASSUME NEW p \in Range(r.ids), NEW q \in Range(r.ids), p # q
      PROVE  held[p].name # held[q].name /\ held[p].ref # held[q].ref
  <2>1. Of(p) # Of(q)
    BY <1>1, <1>7
  <2> QED
    BY <2>1, <1>1, <1>3, <1>4
<1>8. ASSUME NEW c \in DOMAIN r.ids
      PROVE  r.ids[c] \in Range(r.ids) /\ held[r.ids[c]].name = c.name
  <2>1. r.ids[c] \in Range(r.ids)
    BY DEF Range
  <2>2. Of(r.ids[c]) = c
    BY <2>1, <1>1 DEF PeoplePlan, IsInjective
  <2> QED
    BY <2>1, <2>2, <1>3
<1>9. ASSUME NEW p \in DOMAIN held
      PROVE  \E c \in DOMAIN r.ids : held[p].name = c.name /\ held[p].ref = c.ref
  <2>1. p \in Range(r.ids)
    BY <1>5
  <2>2. Of(p) \in DOMAIN r.ids
    BY <2>1, <1>1
  <2>3. held[p].name = Of(p).name /\ held[p].ref = Of(p).ref
    BY <2>1, <1>3
  <2> QED
    BY <2>2, <2>3
<1>10. \A p, q \in DOMAIN held :
         p # q => held[p].name # held[q].name /\ held[p].ref # held[q].ref
  BY <1>5, <1>7
<1>11. \A c \in DOMAIN r.ids : r.ids[c] \in DOMAIN held /\ held[r.ids[c]].name = c.name
  BY <1>5, <1>8
<1> QED
  BY <1>5, <1>6, <1>9, <1>10, <1>11 DEF RowsRight

LEMMA ApplyImportKeeps ==
  ASSUME ImportInv, NEW i \in Runs, ApplyImport(i)
  PROVE  ImportInv'
<1>1. PICK o, newPeople :
        /\ o = run[i]
        /\ newPeople = RowsFor(o.ids)
        /\ o.op = "import"
        /\ IF Allowed(newPeople, o.scenes)
           THEN /\ persons' = Joined(persons, newPeople)
                /\ scenes' = Joined(scenes, o.scenes)
                /\ settled' = o.quiet
                /\ run' = [Disturb(Runs \ {i}) EXCEPT ![i] = Nothing]
                /\ UNCHANGED baffled
           ELSE /\ baffled' = (baffled \/ o.quiet)
                /\ Become(i, Nothing)
                /\ UNCHANGED <<persons, scenes, settled>>
        /\ UNCHANGED <<source, link, spent>>
  BY DEF ApplyImport
<1>2. Planned(o)
  BY <1>1 DEF ImportInv, Plans
<1>3. PeoplePlan(o) /\ ScenePlan(o)
  BY <1>1, <1>2 DEF Planned
<1>4. /\ DOMAIN newPeople = Range(o.ids) /\ PersonRecords(newPeople)
      /\ \A p, q \in DOMAIN newPeople :
           p # q => newPeople[p].name # newPeople[q].name /\ newPeople[p].ref # newPeople[q].ref
      /\ \A c \in DOMAIN o.ids :
           o.ids[c] \in DOMAIN newPeople /\ newPeople[o.ids[c]].name = c.name
      /\ \A p \in DOMAIN newPeople :
           \E c \in DOMAIN o.ids : newPeople[p].name = c.name /\ newPeople[p].ref = c.ref
  <2>1. newPeople = RowsFor(o.ids)
    BY <1>1
  <2>2. RowsRight(newPeople, o.ids)
    BY <2>1, <1>3, NewRowsDiffer
  <2> QED
    BY <2>2 DEF RowsRight
<1>5. PlannedPeople(o) = Range(o.ids) /\ PlannedIds(o) = DOMAIN o.scenes
  BY <1>1 DEF PlannedPeople, PlannedIds
<1>6. /\ DOMAIN newPeople \cap DOMAIN persons = {} /\ DOMAIN o.scenes \cap DOMAIN scenes = {}
      /\ DOMAIN newPeople \cup DOMAIN o.scenes \subseteq spent
  BY <1>1, <1>4, <1>5 DEF ImportInv, IdsOwn
\* Nothing has changed since it was planned: the database accepts it.
<1>7. ASSUME o.quiet PROVE Allowed(newPeople, o.scenes)
  <2>1. o.source = source /\ DOMAIN o.ids = NewPeople(source, persons)
    BY <1>3, <1>7 DEF PeoplePlan
  <2>2. ASSUME NEW p \in DOMAIN newPeople, NEW q \in DOMAIN persons
        PROVE  newPeople[p].name # persons[q].name /\ newPeople[p].ref # persons[q].ref
    <3>1. PICK c \in DOMAIN o.ids : newPeople[p].name = c.name /\ newPeople[p].ref = c.ref
      BY <1>4
    <3>2. Known(c, persons) = {}
      BY <2>1 DEF NewPeople
    <3> QED
      BY <3>1, <3>2 DEF Known
  <2>3. RefsOf(o.scenes) = NewRefs(source, scenes)
    BY <1>3, <1>7 DEF ScenePlan
  <2>4. ASSUME NEW s \in DOMAIN o.scenes, NEW t \in DOMAIN scenes
        PROVE  o.scenes[s].ref # scenes[t].ref
    <3>1. o.scenes[s].ref \in NewRefs(source, scenes)
      BY <2>3 DEF RefsOf
    <3> QED
      BY <3>1 DEF NewRefs, NewScenes
  <2>5. \A s \in DOMAIN o.scenes : o.scenes[s].cast \subseteq DOMAIN persons \cup DOMAIN newPeople
    BY <1>3, <1>4, <1>7 DEF ScenePlan
  <2> QED
    BY <2>2, <2>4, <2>5 DEF Allowed
<1>8. CASE ~Allowed(newPeople, o.scenes)
  <2>1. ~o.quiet
    BY <1>7, <1>8
  <2>2. PICK r : r = Nothing
    OBVIOUS
  <2>3. Planned(r)' /\ PlannedPeople(r) = {} /\ PlannedIds(r) = {} /\ LinkedTo(r) = {}
    BY <2>2 DEF Nothing, Planned, PlannedPeople, PlannedIds, LinkedTo
  <2>4. Become(i, r) /\ UNCHANGED <<source, persons, scenes, link, settled, spent>>
    BY <1>1, <1>8, <2>2
  <2>5. o.quiet = FALSE
    BY <2>1, <1>3 DEF PeoplePlan
  <2>6. baffled' = baffled
    BY <1>1, <1>8, <2>5 DEF ImportInv, ImportTyped
  <2> QED
    BY <2>3, <2>4, <2>6, BecomeKeeps
<1>9. CASE Allowed(newPeople, o.scenes)
  <2>1. /\ persons' = Joined(persons, newPeople)
        /\ scenes' = Joined(scenes, o.scenes)
        /\ settled' = o.quiet
        /\ run' = [Disturb(Runs \ {i}) EXCEPT ![i] = Nothing]
        /\ UNCHANGED <<baffled, source, link, spent>>
    BY <1>1, <1>9
  <2>2. /\ DOMAIN persons' = DOMAIN persons \cup DOMAIN newPeople
        /\ \A x \in DOMAIN persons : persons'[x] = persons[x]
        /\ \A x \in DOMAIN newPeople : persons'[x] = newPeople[x]
    <3>1. PICK all : all = Joined(persons, newPeople)
      OBVIOUS
    <3>2. /\ DOMAIN all = DOMAIN persons \cup DOMAIN newPeople
          /\ \A x \in DOMAIN persons : all[x] = persons[x]
          /\ \A x \in DOMAIN newPeople \ DOMAIN persons : all[x] = newPeople[x]
      BY <3>1 DEF Joined
    <3> QED
      BY <2>1, <3>1, <3>2, <1>6
  <2>3. /\ DOMAIN scenes' = DOMAIN scenes \cup DOMAIN o.scenes
        /\ \A x \in DOMAIN scenes : scenes'[x] = scenes[x]
        /\ \A x \in DOMAIN o.scenes : scenes'[x] = o.scenes[x]
    <3>1. PICK all : all = Joined(scenes, o.scenes)
      OBVIOUS
    <3>2. /\ DOMAIN all = DOMAIN scenes \cup DOMAIN o.scenes
          /\ \A x \in DOMAIN scenes : all[x] = scenes[x]
          /\ \A x \in DOMAIN o.scenes \ DOMAIN scenes : all[x] = o.scenes[x]
      BY <3>1 DEF Joined
    <3> QED
      BY <2>1, <3>1, <3>2, <1>6
  <2>4. \A j \in Runs : run'[j] = IF j \in {i} THEN Nothing ELSE Unquiet(run[j])
    BY <2>1 DEF Disturb, Unquiet
  <2>5. Plans' /\ IdsOwn'
    <3>1. ASSUME NEW j \in Runs \ {i}
          PROVE  /\ PlannedPeople(run[j]) \cap DOMAIN persons' = {}
                 /\ PlannedIds(run[j]) \cap DOMAIN scenes' = {}
                 /\ \A s \in LinkedTo(run[j]) \cap DOMAIN scenes' :
                      s \in DOMAIN scenes /\ scenes'[s].ref = scenes[s].ref
      <4>1. /\ PlannedPeople(run[j]) \cap PlannedPeople(o) = {}
            /\ PlannedIds(run[j]) \cap PlannedIds(o) = {}
            /\ PlannedIds(o) \cap LinkedTo(run[j]) = {}
            /\ PlannedPeople(run[j]) \cap DOMAIN persons = {}
            /\ PlannedIds(run[j]) \cap DOMAIN scenes = {}
        BY <1>1 DEF ImportInv, IdsOwn
      <4> QED
        BY <4>1, <1>4, <1>5, <2>2, <2>3
    <3> QED
      BY <2>1, <2>4, <3>1, RunsDisturbed
  <2>6. ImportTyped'
    <3>1. PersonRecords(persons)'
      BY <1>4, <2>2 DEF PersonRecords, ImportInv, ImportTyped
    <3>2. run' = [j \in Runs |-> run'[j]]
      BY <2>1 DEF Disturb
    <3>3. o.quiet \in BOOLEAN
      BY <1>3 DEF PeoplePlan
    <3> QED
      BY <3>1, <3>2, <3>3, <1>6, <2>1, <2>2, <2>3 DEF ImportInv, ImportTyped
  <2>7. OnePerSource'
    <3>1. /\ \A p \in DOMAIN newPeople, q \in DOMAIN persons :
               newPeople[p].name # persons[q].name /\ newPeople[p].ref # persons[q].ref
          /\ \A s \in DOMAIN o.scenes, t \in DOMAIN scenes : o.scenes[s].ref # scenes[t].ref
          /\ \A s \in DOMAIN o.scenes : o.scenes[s].cast \subseteq DOMAIN persons \cup DOMAIN newPeople
      BY <1>9 DEF Allowed
    <3>2. OnePerSource
      BY DEF ImportInv
    <3>3. ASSUME NEW p \in DOMAIN persons', NEW q \in DOMAIN persons', p # q
          PROVE  /\ persons'[p].name # persons'[q].name
                 /\ persons'[p].ref = None \/ persons'[p].ref # persons'[q].ref
      <4>1. CASE p \in DOMAIN persons /\ q \in DOMAIN persons
        BY <4>1, <3>2, <3>3, <2>2 DEF OnePerSource
      <4>2. CASE p \in DOMAIN newPeople /\ q \in DOMAIN newPeople
        BY <4>2, <3>3, <1>4, <2>2
      <4>3. CASE p \in DOMAIN newPeople /\ q \in DOMAIN persons
        BY <4>3, <3>1, <2>2
      <4>4. CASE p \in DOMAIN persons /\ q \in DOMAIN newPeople
        BY <4>4, <3>1, <2>2
      <4> QED
        BY <4>1, <4>2, <4>3, <4>4, <2>2
    <3>4. ASSUME NEW s \in DOMAIN scenes', NEW t \in DOMAIN scenes', s # t
          PROVE  scenes'[s].ref # scenes'[t].ref
      <4>1. \A x, y \in DOMAIN o.scenes : x # y => o.scenes[x].ref # o.scenes[y].ref
        BY <1>3 DEF ScenePlan, RefsDiffer
      <4>2. CASE s \in DOMAIN scenes /\ t \in DOMAIN scenes
        BY <4>2, <3>2, <3>4, <2>3 DEF OnePerSource
      <4>3. CASE s \in DOMAIN o.scenes /\ t \in DOMAIN o.scenes
        BY <4>1, <4>3, <3>4, <2>3
      <4>4. CASE s \in DOMAIN o.scenes /\ t \in DOMAIN scenes
        BY <4>4, <3>1, <2>3
      <4>5. CASE s \in DOMAIN scenes /\ t \in DOMAIN o.scenes
        BY <4>5, <3>1, <2>3
      <4> QED
        BY <4>2, <4>3, <4>4, <4>5, <2>3
    <3>5. \A s \in DOMAIN scenes' : scenes'[s].cast \subseteq DOMAIN persons'
      BY <3>1, <3>2, <2>2, <2>3 DEF OnePerSource
    <3> QED
      BY <3>3, <3>4, <3>5 DEF OnePerSource
  <2>8. Repeatable'
    <3>1. ASSUME o.quiet PROVE NewPeople(source, persons') = {}
      <4>1. DOMAIN o.ids = NewPeople(source, persons)
        BY <1>3, <3>1 DEF PeoplePlan
      <4>2. ASSUME NEW c \in Collected(source) PROVE Known(c, persons') # {}
        <5>1. CASE c \in DOMAIN o.ids
          BY <5>1, <1>4, <2>2 DEF Known
        <5>2. CASE c \notin DOMAIN o.ids
          <6>1. PICK p \in DOMAIN persons : persons[p].ref = c.ref \/ persons[p].name = c.name
            BY <4>1, <5>2 DEF NewPeople, Known
          <6> QED
            BY <6>1, <2>2 DEF Known
        <5> QED
          BY <5>1, <5>2
      <4> QED
        BY <4>2 DEF NewPeople
    <3>2. ASSUME o.quiet PROVE NewScenes(source, scenes') = {}
      <4>1. RefsOf(o.scenes) = NewRefs(source, scenes)
        BY <1>3, <3>2 DEF ScenePlan
      <4>2. ASSUME NEW s \in FirstOfRef(source.scenes)
            PROVE  \E t \in DOMAIN scenes' : scenes'[t].ref = s.ref
        <5>1. CASE s \in NewScenes(source, scenes)
          <6>1. s.ref \in RefsOf(o.scenes)
            BY <4>1, <5>1 DEF NewRefs
          <6> QED
            BY <6>1, <2>3 DEF RefsOf
        <5>2. CASE s \notin NewScenes(source, scenes)
          BY <5>2, <2>3 DEF NewScenes
        <5> QED
          BY <5>1, <5>2
      <4> QED
        BY <4>2 DEF NewScenes
    <3>3. ~baffled
      BY DEF ImportInv, Repeatable
    <3>4. (NewPeople(source, persons))' = NewPeople(source, persons')
          /\ (NewScenes(source, scenes))' = NewScenes(source, scenes')
      BY <2>1 DEF NewPeople, NewScenes, Collected, Known, FirstOfName, FirstOfRef
    <3> QED
      BY <3>1, <3>2, <3>3, <3>4, <2>1 DEF Repeatable
  <2> QED
    BY <2>5, <2>6, <2>7, <2>8 DEF ImportInv
<1> QED
  BY <1>8, <1>9

LEMMA ApplyLinksKeeps ==
  ASSUME ImportInv, NEW i \in Runs, ApplyLinks(i)
  PROVE  /\ ImportInv'
         /\ \A w \in Works : link'[w] # link[w] =>
              link[w] = None /\ w \notin binned /\ scenes[link'[w]].ref = run[i].refs[w]
<1>1. PICK o, linked, r :
        /\ o = run[i] /\ r = Nothing
        /\ linked = {w \in DOMAIN o.to : StillOpen(o, w)}
        /\ o.op = "links"
        /\ IF {o.to[w] : w \in linked} \subseteq DOMAIN scenes
           THEN link' = [w \in Works |-> IF w \in linked THEN o.to[w] ELSE link[w]]
           ELSE link' = link
        /\ Become(i, r)
        /\ UNCHANGED <<source, persons, scenes, settled, baffled, spent>>
  BY DEF ApplyLinks
<1>2. Planned(r)' /\ PlannedPeople(r) = {} /\ PlannedIds(r) = {} /\ LinkedTo(r) = {}
  BY <1>1 DEF Nothing, Planned, PlannedPeople, PlannedIds, LinkedTo
<1>3. LinkPlan(o)
  BY <1>1 DEF ImportInv, Plans, Planned
<1>4. \A w \in Works : link'[w] # link[w] => w \in linked /\ o.to[w] \in DOMAIN scenes
                                            /\ link'[w] = o.to[w]
  BY <1>1
<1>5. ASSUME NEW w \in Works, link'[w] # link[w]
      PROVE  link[w] = None /\ w \notin binned /\ scenes[link'[w]].ref = o.refs[w]
  BY <1>1, <1>3, <1>4, <1>5 DEF StillOpen, LinkPlan
<1>6. ImportInv'
  BY <1>1, <1>2, BecomeKeeps
<1> QED
  BY <1>1, <1>5, <1>6

\* What users and synchronisation do keeps the rows as they must be and disturbs
\* every run.
LEMMA ActKeeps ==
  ASSUME ImportInv, Act, spent \subseteq spent', source' \in Sources,
         DOMAIN persons' \subseteq spent' /\ PersonRecords(persons'),
         DOMAIN persons' \cap spent \subseteq DOMAIN persons,
         DOMAIN scenes' \subseteq DOMAIN scenes,
         \A s \in DOMAIN scenes' : scenes'[s] = scenes[s],
         OnePerSource'
  PROVE  ImportInv'
<1>1. settled' = FALSE /\ baffled' = baffled /\ run' = Disturb(Runs)
  BY DEF Act
<1>2. \A j \in Runs : run'[j] = IF j \in {} THEN Nothing ELSE Unquiet(run[j])
  BY <1>1 DEF Disturb, Unquiet
<1>3. ASSUME NEW j \in Runs
      PROVE  /\ PlannedPeople(run[j]) \cap DOMAIN persons' = {}
             /\ PlannedIds(run[j]) \cap DOMAIN scenes' = {}
             /\ \A s \in LinkedTo(run[j]) \cap DOMAIN scenes' :
                  s \in DOMAIN scenes /\ scenes'[s].ref = scenes[s].ref
  BY DEF ImportInv, IdsOwn
<1>4. Plans' /\ IdsOwn'
  <2>1. \A j \in Runs \ {} :
          /\ PlannedPeople(run[j]) \cap DOMAIN persons' = {}
          /\ PlannedIds(run[j]) \cap DOMAIN scenes' = {}
          /\ \A s \in LinkedTo(run[j]) \cap DOMAIN scenes' :
               s \in DOMAIN scenes /\ scenes'[s].ref = scenes[s].ref
    BY <1>3
  <2> QED
    BY <1>2, <2>1, RunsDisturbed
<1>5. ImportTyped'
  <2>1. DOMAIN scenes' \subseteq spent'
    BY DEF ImportInv, ImportTyped
  <2>2. run' = [j \in Runs |-> run'[j]]
    BY <1>1 DEF Disturb
  <2> QED
    BY <1>1, <2>1, <2>2 DEF ImportInv, ImportTyped, PersonRecords
<1>6. Repeatable'
  BY <1>1 DEF ImportInv, Repeatable
<1> QED
  BY <1>4, <1>5, <1>6 DEF ImportInv

LEMMA ActsKeep ==
  ASSUME ImportInv,
         \/ Synchronise \/ OtherProjectClaims
         \/ \E p \in PersonIds : \/ \E n \in Names : AddPerson(p, n) \/ RenamePerson(p, n)
                                 \/ RemovePerson(p)
         \/ \E s \in SceneIds : RemoveScene(s) \/ \E w \in Works : LinkByHand(w, s)
         \/ \E w \in Works : Bin(w)
  PROVE  ImportInv'
<1>1. /\ source \in Sources /\ DOMAIN persons \subseteq spent /\ DOMAIN scenes \subseteq spent
      /\ PersonRecords(persons) /\ OnePerSource
  BY DEF ImportInv, ImportTyped
<1>2. ASSUME Act, source' \in Sources, UNCHANGED <<persons, scenes, spent>>
      PROVE  ImportInv'
  <2>1. OnePerSource'
    BY <1>1, <1>2 DEF OnePerSource
  <2> QED
    BY <1>1, <1>2, <2>1, ActKeeps
<1>3. CASE Synchronise
  BY <1>2, <1>3 DEF Synchronise
<1>4. CASE OtherProjectClaims
  BY <1>1, <1>2, <1>4 DEF OtherProjectClaims
<1>5. ASSUME NEW w \in Works, NEW s \in SceneIds, LinkByHand(w, s) PROVE ImportInv'
  BY <1>1, <1>2, <1>5 DEF LinkByHand
<1>6. ASSUME NEW w \in Works, Bin(w) PROVE ImportInv'
  BY <1>1, <1>2, <1>6 DEF Bin
<1>7. ASSUME NEW p \in PersonIds, NEW n \in Names, AddPerson(p, n) PROVE ImportInv'
  <2>1. PICK more : more = [x \in {p} |-> [name |-> n, ref |-> None]]
    OBVIOUS
  <2>2. DOMAIN more = {p} /\ more[p] = [name |-> n, ref |-> None]
    BY <2>1
  <2>3. more[p].name = n /\ more[p].ref = None
    BY <2>2
  <2>4. /\ Act /\ p \notin spent
        /\ \A q \in DOMAIN persons : persons[q].name # n
        /\ persons' = Joined(persons, more)
        /\ spent' = spent \cup {p}
        /\ UNCHANGED <<source, scenes>>
    BY <1>7, <2>1 DEF AddPerson
  <2>5. p \notin DOMAIN persons
    BY <1>1, <2>4
  <2>6. /\ DOMAIN persons' = DOMAIN persons \cup {p}
        /\ \A x \in DOMAIN persons : persons'[x] = persons[x]
        /\ persons'[p] = more[p]
    BY <2>2, <2>4, <2>5 DEF Joined
  <2>7. OnePerSource'
    BY <1>1, <2>3, <2>4, <2>5, <2>6 DEF OnePerSource
  <2>8. PersonRecords(persons')
    BY <1>1, <2>2, <2>3, <2>6 DEF PersonRecords
  <2> QED
    BY <1>1, <2>4, <2>5, <2>6, <2>7, <2>8, ActKeeps
<1>8. ASSUME NEW p \in PersonIds, NEW n \in Names, RenamePerson(p, n) PROVE ImportInv'
  <2>1. /\ Act /\ p \in DOMAIN persons
        /\ \A q \in DOMAIN persons : persons[q].name # n
        /\ persons' = [persons EXCEPT ![p].name = n]
        /\ UNCHANGED <<source, scenes, spent>>
    BY <1>8 DEF RenamePerson
  <2>2. DOMAIN persons' = DOMAIN persons /\ \A x \in DOMAIN persons : x # p => persons'[x] = persons[x]
    BY <2>1
  <2>3. persons[p] = [name |-> persons[p].name, ref |-> persons[p].ref]
    BY <1>1, <2>1 DEF PersonRecords
  <2>4. persons'[p] = [persons[p] EXCEPT !.name = n]
    BY <2>1
  <2>5. persons'[p] = [name |-> n, ref |-> persons[p].ref]
    BY <2>3, <2>4
  <2>6. persons'[p].name = n /\ persons'[p].ref = persons[p].ref
    BY <2>5
  <2>7. OnePerSource'
    <3>1. ASSUME NEW x \in DOMAIN persons', NEW y \in DOMAIN persons', x # y
          PROVE  /\ persons'[x].name # persons'[y].name
                 /\ persons'[x].ref = None \/ persons'[x].ref # persons'[y].ref
      <4>1. persons[x].ref = None \/ persons[x].ref # persons[y].ref
        BY <3>1, <1>1, <2>2 DEF OnePerSource
      <4>2. persons[x].name # persons[y].name
        BY <3>1, <1>1, <2>2 DEF OnePerSource
      <4> QED
        BY <3>1, <4>1, <4>2, <2>1, <2>2, <2>6
    <3> QED
      BY <3>1, <1>1, <2>1, <2>2 DEF OnePerSource
  <2>8. PersonRecords(persons')
    BY <1>1, <2>2, <2>5, <2>6 DEF PersonRecords
  <2> QED
    BY <1>1, <2>1, <2>2, <2>7, <2>8, ActKeeps
<1>9. ASSUME NEW p \in PersonIds, RemovePerson(p) PROVE ImportInv'
  <2>1. /\ Act /\ p \in DOMAIN persons
        /\ \A s \in DOMAIN scenes : p \notin scenes[s].cast
        /\ persons' = [q \in DOMAIN persons \ {p} |-> persons[q]]
        /\ UNCHANGED <<source, scenes, spent>>
    BY <1>9 DEF RemovePerson
  <2>2. OnePerSource'
    BY <1>1, <2>1 DEF OnePerSource
  <2>3. PersonRecords(persons') /\ DOMAIN persons' \subseteq DOMAIN persons
    BY <1>1, <2>1 DEF PersonRecords
  <2> QED
    BY <1>1, <2>1, <2>2, <2>3, ActKeeps
<1>10. ASSUME NEW s \in SceneIds, RemoveScene(s) PROVE ImportInv'
  <2>1. /\ Act /\ scenes' = [t \in DOMAIN scenes \ {s} |-> scenes[t]]
        /\ UNCHANGED <<source, persons, spent>>
    BY <1>10 DEF RemoveScene
  <2>2. OnePerSource'
    BY <1>1, <2>1 DEF OnePerSource
  <2> QED
    BY <1>1, <2>1, <2>2, ActKeeps
<1> QED
  BY <1>3, <1>4, <1>5, <1>6, <1>7, <1>8, <1>9, <1>10

LEMMA ImportStep ==
  ASSUME ImportInv, [ImportNext]_importVars
  PROVE  ImportInv'
<1>1. CASE UNCHANGED importVars
  <2>1. Plans'
    <3>1. ASSUME NEW j \in Runs, NEW q, q = run'[j] PROVE Planned(q)'
      <4>1. Planned(q)
        BY <1>1, <3>1 DEF importVars, ImportInv, Plans
      <4> QED
        BY <4>1, <1>1, PlanKept DEF importVars
    <3> QED
      BY <3>1, PlansNext
  <2>2. IdsOwn'
    BY <1>1 DEF importVars, ImportInv, IdsOwn, PlannedPeople, PlannedIds, LinkedTo
  <2>3. ImportTyped' /\ OnePerSource'
    BY <1>1 DEF importVars, ImportInv, ImportTyped, PersonRecords, OnePerSource
  <2>4. Repeatable'
    BY <1>1 DEF importVars, ImportInv, Repeatable, NewPeople, NewScenes, Known, Collected
  <2> QED
    BY <2>1, <2>2, <2>3, <2>4 DEF ImportInv
<1>2. ASSUME NEW i \in Runs, BeginImport(i) \/ PlanScenes(i) \/ ApplyImport(i) \/ BeginLinks(i)
                             \/ ApplyLinks(i)
      PROVE  ImportInv'
  BY <1>2, BeginImportKeeps, PlanScenesKeeps, ApplyImportKeeps, BeginLinksKeeps, ApplyLinksKeeps
<1> QED
  BY <1>1, <1>2, ActsKeep DEF ImportNext

LEMMA ImportBegins ==
  ASSUME ImportInit
  PROVE  ImportInv
<1>1. PICK none : none = <<>> /\ DOMAIN none = {}
  OBVIOUS
<1>2. /\ source \in Sources /\ persons = none /\ scenes = none
      /\ run = [i \in Runs |-> Nothing] /\ spent = {} /\ settled = FALSE /\ baffled = FALSE
  BY <1>1 DEF ImportInit
<1>3. Planned(Nothing) /\ PlannedPeople(Nothing) = {} /\ PlannedIds(Nothing) = {}
      /\ LinkedTo(Nothing) = {}
  BY DEF Nothing, Planned, PlannedPeople, PlannedIds, LinkedTo
<1>4. \A i \in Runs : run[i] = Nothing
  BY <1>2
<1>5. Plans /\ IdsOwn
  BY <1>1, <1>2, <1>3, <1>4 DEF Plans, IdsOwn
<1>6. ImportTyped
  BY <1>1, <1>2 DEF ImportTyped, PersonRecords
<1>7. OnePerSource /\ Repeatable
  BY <1>1, <1>2 DEF OnePerSource, Repeatable
<1> QED
  BY <1>5, <1>6, <1>7 DEF ImportInv

\* The strengthened invariant of the imports, the link runs and the rows they make.
THEOREM ImportInvariance == ImportSpec => []ImportInv
<1>1. ImportInit => ImportInv
  BY ImportBegins
<1>2. ImportInv /\ [ImportNext]_importVars => ImportInv'
  BY ImportStep
<1> QED
  BY <1>1, <1>2, PTL DEF ImportSpec

\* However many imports overlap, with one another and with users, each character
\* and scene is made once, an import right after another makes nothing, and only a
\* change in between refuses one.
THEOREM ImportIsSafe == ImportSpec => []StoryImportSafe
<1>1. ImportInv => StoryImportSafe
  BY DEF ImportInv, StoryImportSafe
<1> QED
  BY <1>1, ImportInvariance, PTL

\* A link run writes what its plan found, where nobody has linked or binned
\* anything since.
THEOREM LinkRunsAreMild == ImportSpec => LinksOnlyOpen
<1> DEFINE Mild == \A i \in Runs, w \in Works :
                     run[i].op = "links" /\ run'[i].op = "none" /\ link'[w] # link[w] =>
                       /\ link[w] = None
                       /\ w \notin binned
                       /\ scenes[link'[w]].ref = run[i].refs[w]
<1>1. ImportInv /\ [ImportNext]_importVars => [Mild]_importVars
  <2> SUFFICES ASSUME ImportInv, ImportNext, NEW i \in Runs, NEW w \in Works,
                      run[i].op = "links", run'[i].op = "none", link'[w] # link[w]
               PROVE  /\ link[w] = None
                      /\ w \notin binned
                      /\ scenes[link'[w]].ref = run[i].refs[w]
    OBVIOUS
  <2>1. ASSUME NEW j \in Runs, ApplyLinks(j) PROVE i = j
    BY <2>1 DEF ApplyLinks, Become, ImportInv, ImportTyped
  <2>2. ASSUME Act PROVE FALSE
    <3>1. run'[i] = Unquiet(run[i])
      BY <2>2 DEF Act, Disturb, Unquiet
    <3> QED
      BY <3>1 DEF Unquiet
  <2>3. ASSUME NEW j \in Runs, BeginImport(j) \/ PlanScenes(j) \/ ApplyImport(j) \/ BeginLinks(j)
        PROVE  FALSE
    BY <2>3 DEF BeginImport, PlanScenes, ApplyImport, BeginLinks
  <2>4. PICK j \in Runs : ApplyLinks(j)
    BY <2>2, <2>3 DEF ImportNext, Synchronise, OtherProjectClaims, AddPerson, RenamePerson,
                     RemovePerson, RemoveScene, LinkByHand, Bin
  <2> QED
    BY <2>1, <2>4, ApplyLinksKeeps
<1> QED
  BY <1>1, ImportInvariance, PTL DEF ImportSpec, LinksOnlyOpen

-----------------------------------------------------------------------------
(* The old structure of Scenes and Shots.                                  *)

UnitsThere == LegacyScenes \cup LegacyShots

StructureTyped ==
  /\ Rows \subseteq UnitsThere
  /\ unit = [u \in Rows |-> unit[u]]
  /\ \A u \in Rows : /\ unit[u] = [sequence |-> unit[u].sequence, deleted |-> unit[u].deleted]
                     /\ unit[u].deleted \in 0 .. clock
  /\ clock \in Nat
  /\ counts = [scenes |-> counts.scenes, shots |-> counts.shots]
  /\ pen = [c \in Pens |-> pen[c]]
  /\ \A s \in LegacyScenes :
       /\ took[s].stamp \in 0 .. clock
       /\ \A t \in took[s].shots : t \in Rows /\ ShotScene[t] = s
       /\ took[s].shots # {} => s \in Rows /\ took[s].stamp # 0
  /\ took \in [LegacyScenes -> [stamp : Nat, shots : SUBSET LegacyShots]]
  /\ alone \subseteq Rows \cap LegacyShots

\* What a request has loaded: rows there are, and for a new one no row.
Loaded(c) ==
  LET r == pen[c] IN
  /\ r.op \in {"none", "create", "delete", "restore", "reorder"}
  /\ r.op = "create" => r.unit \in UnitsThere \ Rows
  /\ r.op \in {"delete", "restore"} => r.unit \in Rows
  /\ r.op = "restore" => r.deleted \in 1 .. clock
  /\ r.op = "reorder" =>
       /\ \A i \in DOMAIN r.order : r.order[i] \in Rows
       /\ \A i, j \in DOMAIN r.order : i # j => r.order[i] # r.order[j]
       /\ DOMAIN r.order \subseteq Int

NewUnitsDiffer ==
  \A c, d \in Pens : c # d /\ pen[c].op = "create" /\ pen[d].op = "create" =>
    pen[c].unit # pen[d].unit

\* A deleted scene bears the stamp of its last deletion.
StampsKept ==
  \A s \in SceneRows : unit[s].deleted # 0 => unit[s].deleted = took[s].stamp

ShotsBack ==
  \A s \in SceneRows : unit[s].deleted = 0 /\ s \notin crossed =>
    \A t \in took[s].shots : unit[t].deleted # took[s].stamp

\* The stamp of a shot that was deleted for itself is no scene's, now or as loaded.
StampsApart ==
  \A t \in alone :
    /\ unit[t].deleted # 0
    /\ \A s \in SceneRows : unit[s].deleted # unit[t].deleted
    /\ \A c \in Pens : pen[c].op = "restore" /\ pen[c].unit \in LegacyScenes =>
         pen[c].deleted # unit[t].deleted

StructureInv ==
  /\ StructureTyped
  /\ \A c \in Pens : Loaded(c)
  /\ NewUnitsDiffer /\ StampsKept /\ ShotsBack /\ StampsApart
  /\ OrderStands /\ CountsExact

LEMMA StructureInitInv == StructureInit => StructureInv
<1> SUFFICES ASSUME StructureInit PROVE StructureInv
  OBVIOUS
<1>1. Rows = AtFirst /\ \A u \in Rows : unit[u].deleted = 0
  BY DEF StructureInit, Rows
<1>2. StructureTyped
  BY <1>1, StructureAssumption DEF StructureInit, StructureTyped, UnitsThere, Rows
<1>3. \A c \in Pens : Loaded(c) /\ pen[c].op = "none"
  BY DEF StructureInit, Loaded, Ready
<1>4. CountsExact
  <2>1. Live(unit) = AtFirst
    BY <1>1 DEF Live, Rows
  <2> QED
    BY <2>1 DEF StructureInit, CountsExact, Counted
<1>5. StampsKept /\ ShotsBack /\ StampsApart /\ OrderStands
  BY <1>1 DEF StructureInit, StampsKept, ShotsBack, StampsApart, OrderStands, SceneRows
<1> QED
  BY <1>2, <1>3, <1>4, <1>5 DEF StructureInv, NewUnitsDiffer

\* A request is made: nothing but the pen changes.
LEMMA LoadKeeps ==
  ASSUME StructureInv, NEW c \in Pens, NEW r, Load(c, r),
         /\ r.op \in {"create", "delete", "restore", "reorder"}
         /\ r.op = "create" =>
              /\ r.unit \in UnitsThere \ Rows
              /\ \A d \in Pens : pen[d].op = "create" => pen[d].unit # r.unit
         /\ r.op \in {"delete", "restore"} => r.unit \in Rows
         /\ r.op = "restore" => r.deleted = unit[r.unit].deleted /\ r.deleted # 0
         /\ r.op = "reorder" =>
              /\ \A i \in DOMAIN r.order : r.order[i] \in Rows
              /\ \A i, j \in DOMAIN r.order : i # j => r.order[i] # r.order[j]
              /\ DOMAIN r.order \subseteq Int
  PROVE  StructureInv'
<1>1. /\ UNCHANGED <<unit, counts, clock, took, crossed, alone, lagging>> /\ ordered' = <<>>
      /\ pen' = [pen EXCEPT ![c] = r]
  BY DEF Load
<1>2. pen'[c] = r /\ \A d \in Pens \ {c} : pen'[d] = pen[d]
  BY <1>1 DEF StructureInv, StructureTyped
<1>3. StructureTyped'
  <2>1. StructureTyped /\ pen' = [d \in Pens |-> pen'[d]] /\ Rows' = Rows
    BY <1>1 DEF StructureInv, StructureTyped, Rows
  <2> QED
    BY <1>1, <2>1 DEF StructureTyped
<1>4. \A d \in Pens : Loaded(d)'
  <2> SUFFICES ASSUME NEW d \in Pens PROVE Loaded(d)'
    OBVIOUS
  <2>1. CASE d = c
    <3>1. r.op = "restore" => r.deleted \in 1 .. clock
      BY DEF StructureInv, StructureTyped
    <3> QED
      BY <1>1, <1>2, <2>1, <3>1 DEF Loaded, Rows
  <2>2. CASE d # c
    BY <1>1, <1>2, <2>2 DEF StructureInv, Loaded, Rows
  <2> QED
    BY <2>1, <2>2
<1>5. NewUnitsDiffer'
  BY <1>2 DEF StructureInv, NewUnitsDiffer
<1>6. StampsKept' /\ ShotsBack'
  BY <1>1 DEF StructureInv, StampsKept, ShotsBack, SceneRows, Rows
<1>7. StampsApart'
  <2> SUFFICES ASSUME NEW t \in alone
               PROVE  /\ unit[t].deleted # 0
                      /\ \A s \in SceneRows : unit[s].deleted # unit[t].deleted
                      /\ \A d \in Pens : pen'[d].op = "restore" /\ pen'[d].unit \in LegacyScenes =>
                           pen'[d].deleted # unit[t].deleted
    BY <1>1 DEF StampsApart, SceneRows, Rows
  <2>1. /\ unit[t].deleted # 0 /\ \A s \in SceneRows : unit[s].deleted # unit[t].deleted
        /\ \A d \in Pens : pen[d].op = "restore" /\ pen[d].unit \in LegacyScenes =>
             pen[d].deleted # unit[t].deleted
    BY DEF StructureInv, StampsApart
  <2>2. r.op = "restore" /\ r.unit \in LegacyScenes => r.deleted # unit[t].deleted
    BY <2>1 DEF SceneRows
  <2> QED
    BY <1>2, <2>1, <2>2
<1>8. OrderStands' /\ CountsExact'
  BY <1>1 DEF StructureInv, OrderStands, CountsExact, Counted, Live
<1> QED
  BY <1>3, <1>4, <1>5, <1>6, <1>7, <1>8 DEF StructureInv

LEMMA BeginStructureKeeps ==
  ASSUME StructureInv, NEW c \in Pens,
         \/ \E u \in LegacyScenes \cup LegacyShots :
              BeginCreate(c, u) \/ BeginDelete(c, u) \/ BeginRestore(c, u)
         \/ \E order \in Orders : BeginReorderUnits(c, order)
  PROVE  StructureInv'
<1>1. ASSUME NEW u \in LegacyScenes \cup LegacyShots, BeginCreate(c, u) PROVE StructureInv'
  <2> DEFINE r == [op |-> "create", unit |-> u, sequence |-> LastOf(Siblings(u)) + 1, counts |-> counts]
  <2>1. /\ Load(c, r) /\ r.op = "create" /\ r.unit = u /\ u \in UnitsThere \ Rows
        /\ \A d \in Pens : pen[d].op = "create" => pen[d].unit # u
    BY <1>1 DEF BeginCreate, UnitsThere
  <2> HIDE DEF r
  <2> QED
    BY <2>1, LoadKeeps
<1>2. ASSUME NEW u \in LegacyScenes \cup LegacyShots, BeginDelete(c, u) PROVE StructureInv'
  <2> DEFINE r == [op |-> "delete", unit |-> u, counts |-> counts]
  <2>1. Load(c, r) /\ r.op = "delete" /\ r.unit = u /\ u \in Rows
    BY <1>2 DEF BeginDelete, Live, Rows
  <2> HIDE DEF r
  <2> QED
    BY <2>1, LoadKeeps
<1>3. ASSUME NEW u \in LegacyScenes \cup LegacyShots, BeginRestore(c, u) PROVE StructureInv'
  <2> DEFINE r == [op |-> "restore", unit |-> u, deleted |-> unit[u].deleted, counts |-> counts]
  <2>1. /\ Load(c, r) /\ r.op = "restore" /\ r.unit = u /\ u \in Rows
        /\ r.deleted = unit[u].deleted /\ unit[u].deleted # 0
    BY <1>3 DEF BeginRestore, Live, Rows
  <2> HIDE DEF r
  <2> QED
    BY <2>1, LoadKeeps
<1>4. ASSUME NEW order \in Orders, BeginReorderUnits(c, order) PROVE StructureInv'
  <2> DEFINE r == [op |-> "reorder", order |-> order,
                   loaded |-> [u \in Range(order) |-> unit[u].sequence], counts |-> counts]
  <2>1. Load(c, r) /\ r.op = "reorder" /\ r.order = order /\ Range(order) \subseteq Rows
    BY <1>4 DEF BeginReorderUnits, Live, Rows
  <2>2. \A i \in DOMAIN order : order[i] \in Rows
    BY <2>1 DEF Range
  <2>3. PICK S : order \in SetToSeqs(S)
    BY DEF Orders
  <2>4. DOMAIN order \subseteq Int /\ \A i, j \in DOMAIN order : i # j => order[i] # order[j]
    BY <2>3 DEF SetToSeqs
  <2> HIDE DEF r
  <2> QED
    BY <2>1, <2>2, <2>4, LoadKeeps
<1> QED
  BY <1>1, <1>2, <1>3, <1>4

\* Writing the counts: what has been counted stands, unless changes overlapped.
LEMMA RefreshKeeps ==
  ASSUME StructureInv, NEW c \in Pens, NEW after, Refresh(c, after)
  PROVE  /\ CountsExact' /\ OrderStands'
         /\ unit' = after /\ pen' = [pen EXCEPT ![c] = Ready]
         /\ counts' = [scenes |-> counts'.scenes, shots |-> counts'.shots]
<1>1. unit' = after /\ pen' = [pen EXCEPT ![c] = Ready] /\ ordered' = <<>>
  BY DEF Refresh, Close
<1>2. Counted(unit)' = Counted(after)
  BY <1>1 DEF Counted, Live
<1> DEFINE loaded == pen[c].counts
           now == Counted(after)
<1>3. /\ counts' = [scenes |-> IF now.scenes = loaded.scenes THEN counts.scenes ELSE now.scenes,
                    shots |-> IF now.shots = loaded.shots THEN counts.shots ELSE now.shots]
      /\ lagging' = (counts' # now /\ (loaded # counts \/ lagging))
  BY DEF Refresh
<1>4. now = [scenes |-> now.scenes, shots |-> now.shots]
  BY DEF Counted
<1>5. CountsExact'
  <2> SUFFICES ASSUME ~lagging' PROVE counts' = now
    BY <1>2 DEF CountsExact
  <2> HIDE DEF now, loaded
  <2>1. CASE loaded = counts
    BY <1>3, <1>4, <2>1
  <2>2. CASE loaded # counts
    BY <1>3, <2>2
  <2> QED
    BY <2>1, <2>2
<1> QED
  BY <1>1, <1>3, <1>5 DEF OrderStands

LEMMA MarkedFacts ==
  ASSUME StructureTyped, NEW gone, NEW stamp
  PROVE  /\ DOMAIN Marked(gone, stamp) = Rows
         /\ \A u \in Rows :
              /\ Marked(gone, stamp)[u].deleted = IF u \in gone THEN stamp ELSE unit[u].deleted
              /\ Marked(gone, stamp)[u] = [sequence |-> Marked(gone, stamp)[u].sequence,
                                           deleted |-> Marked(gone, stamp)[u].deleted]
         /\ Marked(gone, stamp) = [u \in Rows |-> Marked(gone, stamp)[u]]
<1>1. ASSUME NEW u \in Rows
      PROVE  /\ Marked(gone, stamp)[u].deleted = IF u \in gone THEN stamp ELSE unit[u].deleted
             /\ Marked(gone, stamp)[u] = [sequence |-> Marked(gone, stamp)[u].sequence,
                                          deleted |-> Marked(gone, stamp)[u].deleted]
  <2> DEFINE n == unit[u].sequence
             d == unit[u].deleted
  <2>1. unit[u] = [sequence |-> n, deleted |-> d]
    BY DEF StructureTyped
  <2>2. Marked(gone, stamp)[u] = IF u \in gone THEN [unit[u] EXCEPT !.deleted = stamp] ELSE unit[u]
    BY DEF Marked
  <2> HIDE DEF n
  <2>3. Marked(gone, stamp)[u] = [sequence |-> n, deleted |-> IF u \in gone THEN stamp ELSE d]
    <3> HIDE DEF d
    <3> QED
      BY <2>1, <2>2
  <2> QED
    BY <2>3
<1> QED
  BY <1>1 DEF Marked, Rows

\* Requests under way stay what they are while rows come and stamps are given.
LEMMA OthersLoaded ==
  ASSUME StructureInv, NEW c \in Pens, pen' = [pen EXCEPT ![c] = Ready],
         Rows \subseteq Rows', clock \in Nat, clock' \in Nat, clock' >= clock,
         \A d \in Pens \ {c} : pen[d].op = "create" => pen[d].unit \notin Rows'
  PROVE  (\A d \in Pens : Loaded(d)') /\ NewUnitsDiffer'
<1>1. pen'[c].op = "none" /\ \A d \in Pens \ {c} : pen'[d] = pen[d]
  BY DEF StructureInv, StructureTyped, Ready
<1>2. ASSUME NEW d \in Pens PROVE Loaded(d)'
  <2>1. CASE d = c
    BY <1>1, <2>1 DEF Loaded
  <2>2. CASE d # c
    <3>1. Loaded(d) /\ pen'[d] = pen[d]
      BY <1>1, <2>2 DEF StructureInv
    <3> QED
      BY <2>2, <3>1 DEF Loaded
  <2> QED
    BY <2>1, <2>2
<1>3. NewUnitsDiffer'
  BY <1>1 DEF StructureInv, NewUnitsDiffer
<1> QED
  BY <1>2, <1>3

LEMMA CreateKeeps ==
  ASSUME StructureInv, NEW c \in Pens, CommitCreate(c) PROVE StructureInv'
<1> DEFINE u == pen[c].unit
<1>1. /\ u \in UnitsThere \ Rows /\ StructureTyped
      /\ \A d \in Pens \ {c} : pen[d].op = "create" => pen[d].unit # u
  BY DEF StructureInv, Loaded, NewUnitsDiffer, CommitCreate
<1>2. /\ UNCHANGED <<clock, took, crossed, alone>>
      /\ Refresh(c, [v \in Rows \cup {u} |->
                       IF v \in Rows THEN unit[v] ELSE [sequence |-> pen[c].sequence, deleted |-> 0]])
  BY DEF CommitCreate
<1>3. /\ CountsExact' /\ OrderStands' /\ pen' = [pen EXCEPT ![c] = Ready]
      /\ counts' = [scenes |-> counts'.scenes, shots |-> counts'.shots]
      /\ unit' = [v \in Rows \cup {u} |->
                    IF v \in Rows THEN unit[v] ELSE [sequence |-> pen[c].sequence, deleted |-> 0]]
  BY <1>2, RefreshKeeps
<1> HIDE DEF u
<1>4. /\ Rows' = Rows \cup {u} /\ \A v \in Rows : unit'[v] = unit[v]
      /\ unit'[u] = [sequence |-> pen[c].sequence, deleted |-> 0]
      /\ unit' = [v \in Rows' |-> unit'[v]]
  BY <1>1, <1>3 DEF Rows
<1>5. unit'[u].deleted = 0 /\ unit'[u] = [sequence |-> unit'[u].sequence, deleted |-> unit'[u].deleted]
  BY <1>4
<1>6. StructureTyped'
  BY <1>1, <1>2, <1>3, <1>4, <1>5 DEF StructureTyped
<1>7. (\A d \in Pens : Loaded(d)') /\ NewUnitsDiffer'
  <2>1. clock' \in Nat /\ clock \in Nat /\ clock' >= clock /\ Rows \subseteq Rows'
    BY <1>1, <1>2, <1>4 DEF StructureTyped
  <2>2. \A d \in Pens \ {c} : pen[d].op = "create" => pen[d].unit \notin Rows'
    BY <1>1, <1>4 DEF StructureInv, Loaded
  <2> QED
    BY <1>3, <2>1, <2>2, OthersLoaded
<1>8. StampsKept'
  BY <1>2, <1>4, <1>5 DEF StructureInv, StampsKept, SceneRows
<1>9. ShotsBack'
  <2> SUFFICES ASSUME NEW s \in SceneRows', unit'[s].deleted = 0, s \notin crossed,
                      NEW t \in took[s].shots
               PROVE  unit'[t].deleted # took[s].stamp
    BY <1>2 DEF ShotsBack
  <2>1. s \in LegacyScenes /\ t \in Rows /\ unit'[t] = unit[t]
    BY <1>4, <1>1 DEF SceneRows, StructureTyped
  <2>2. CASE s \in Rows
    BY <1>4, <2>1, <2>2 DEF StructureInv, ShotsBack, SceneRows
  <2>3. CASE s \notin Rows
    BY <1>1, <2>1, <2>3 DEF StructureTyped
  <2> QED
    BY <2>2, <2>3
<1>10. StampsApart'
  <2> SUFFICES ASSUME NEW t \in alone
               PROVE  /\ unit'[t].deleted # 0
                      /\ \A s \in SceneRows' : unit'[s].deleted # unit'[t].deleted
                      /\ \A d \in Pens : pen'[d].op = "restore" /\ pen'[d].unit \in LegacyScenes =>
                           pen'[d].deleted # unit'[t].deleted
    BY <1>2 DEF StampsApart
  <2>1. t \in Rows /\ unit'[t] = unit[t]
    BY <1>1, <1>4 DEF StructureTyped
  <2>2. pen'[c].op = "none" /\ \A d \in Pens \ {c} : pen'[d] = pen[d]
    BY <1>1, <1>3 DEF StructureTyped, Ready
  <2> QED
    BY <1>4, <1>5, <2>1, <2>2 DEF StructureInv, StampsApart, SceneRows
<1> QED
  BY <1>3, <1>6, <1>7, <1>8, <1>9, <1>10 DEF StructureInv

LEMMA DeleteKeeps ==
  ASSUME StructureInv, NEW c \in Pens, CommitDelete(c) PROVE StructureInv'
<1> DEFINE u == pen[c].unit
           shots == ShotsOf(u) \cap Live(unit)
           stamp == clock + 1
           gone == {u} \cup shots
<1>1. /\ u \in Rows /\ StructureTyped /\ clock \in Nat /\ stamp \in Nat /\ stamp # 0
      /\ shots \subseteq Rows \cap LegacyShots
  BY DEF StructureInv, StructureTyped, Loaded, CommitDelete, ShotsOf
<1>2. /\ clock' = stamp /\ Refresh(c, Marked(gone, stamp))
      /\ took' = IF u \in LegacyScenes
                 THEN [took EXCEPT ![u] = [stamp |-> stamp, shots |-> shots]] ELSE took
      /\ crossed' = crossed \ {u}
      /\ alone' = alone \cup ({u} \cap LegacyShots)
  BY DEF CommitDelete
<1>3. /\ CountsExact' /\ OrderStands' /\ pen' = [pen EXCEPT ![c] = Ready]
      /\ counts' = [scenes |-> counts'.scenes, shots |-> counts'.shots]
      /\ unit' = Marked(gone, stamp)
  BY <1>2, RefreshKeeps
<1>u. \A v \in Rows : unit[v].deleted \in Nat /\ unit[v].deleted < stamp
  BY <1>1 DEF StructureTyped
<1>s. /\ LegacyScenes \cap LegacyShots = {}
      /\ \A s \in LegacyScenes : took[s].stamp \in Nat /\ took[s].stamp < stamp
      /\ \A s \in LegacyScenes \ {u} : took'[s] = took[s]
      /\ u \in LegacyScenes => took'[u].stamp = stamp /\ took'[u].shots = shots
  BY <1>1, <1>2, StructureAssumption DEF StructureTyped
<1> HIDE DEF u, shots, stamp
<1>4. /\ Rows' = Rows /\ unit' = [v \in Rows |-> unit'[v]]
      /\ \A v \in Rows : /\ unit'[v].deleted = IF v \in gone THEN stamp ELSE unit[v].deleted
                         /\ unit'[v] = [sequence |-> unit'[v].sequence, deleted |-> unit'[v].deleted]
  <2> HIDE DEF gone
  <2> DEFINE M == Marked(gone, stamp)
  <2>1. /\ DOMAIN M = Rows /\ M = [v \in Rows |-> M[v]]
        /\ \A v \in Rows : /\ M[v].deleted = IF v \in gone THEN stamp ELSE unit[v].deleted
                           /\ M[v] = [sequence |-> M[v].sequence, deleted |-> M[v].deleted]
    BY <1>1, MarkedFacts
  <2>2. unit' = M
    BY <1>3
  <2> HIDE DEF M
  <2> QED
    BY <2>1, <2>2 DEF Rows
<1>6. StructureTyped'
  <2>1. \A v \in Rows : unit'[v].deleted \in 0 .. stamp
    BY <1>1, <1>4, <1>u
  <2>2. took' \in [LegacyScenes -> [stamp : Nat, shots : SUBSET LegacyShots]]
    BY <1>1, <1>2 DEF StructureTyped
  <2>3. ASSUME NEW s \in LegacyScenes
        PROVE  /\ took'[s].stamp \in 0 .. stamp
               /\ \A t \in took'[s].shots : t \in Rows /\ ShotScene[t] = s
               /\ took'[s].shots # {} => s \in Rows /\ took'[s].stamp # 0
    <3>1. CASE s = u
      BY <1>1, <1>s, <3>1 DEF shots, ShotsOf
    <3>2. CASE s # u
      BY <1>1, <1>s, <3>2 DEF StructureTyped
    <3> QED
      BY <3>1, <3>2
  <2>4. pen' = [d \in Pens |-> pen'[d]] /\ alone' \subseteq Rows \cap LegacyShots
        /\ Rows \subseteq UnitsThere
    BY <1>1, <1>2, <1>3 DEF StructureTyped
  <2> QED
    BY <1>1, <1>2, <1>3, <1>4, <2>1, <2>2, <2>3, <2>4 DEF StructureTyped
<1>7. (\A d \in Pens : Loaded(d)') /\ NewUnitsDiffer'
  <2>1. clock' \in Nat /\ clock' >= clock
    BY <1>1, <1>2 DEF stamp
  <2> QED
    BY <1>1, <1>3, <1>4, <2>1, OthersLoaded DEF StructureInv, Loaded
<1>8. StampsKept'
  <2> SUFFICES ASSUME NEW s \in SceneRows', unit'[s].deleted # 0
               PROVE  unit'[s].deleted = took'[s].stamp
    BY DEF StampsKept
  <2>1. CASE s = u
    BY <1>4, <1>s, <2>1 DEF SceneRows
  <2>2. CASE s # u
    <3>1. s \in Rows \cap LegacyScenes /\ s \notin gone
      BY <1>1, <1>4, <1>s, <2>2 DEF SceneRows
    <3> QED
      BY <1>4, <1>s, <2>2, <3>1 DEF StructureInv, StampsKept, SceneRows
  <2> QED
    BY <2>1, <2>2
<1>9. ShotsBack'
  <2> SUFFICES ASSUME NEW s \in SceneRows', unit'[s].deleted = 0, s \notin crossed',
                      NEW t \in took'[s].shots
               PROVE  unit'[t].deleted # took'[s].stamp
    BY DEF ShotsBack
  <2>1. s \in Rows \cap LegacyScenes /\ s # u
    BY <1>1, <1>4 DEF SceneRows
  <2>2. s \notin gone /\ took'[s] = took[s] /\ s \notin crossed
    BY <1>1, <1>2, <1>s, <2>1
  <2>3. t \in Rows /\ unit[t].deleted # took[s].stamp /\ took[s].stamp \in Nat
        /\ took[s].stamp < stamp
    BY <1>1, <1>4, <1>s, <2>1, <2>2 DEF StructureInv, StructureTyped, ShotsBack, SceneRows
  <2> QED
    BY <1>1, <1>4, <2>2, <2>3
<1>10. StampsApart'
  <2> SUFFICES ASSUME NEW t \in alone'
               PROVE  /\ unit'[t].deleted # 0
                      /\ \A s \in SceneRows' : unit'[s].deleted # unit'[t].deleted
                      /\ \A d \in Pens : pen'[d].op = "restore" /\ pen'[d].unit \in LegacyScenes =>
                           pen'[d].deleted # unit'[t].deleted
    BY DEF StampsApart
  <2>0. /\ pen'[c].op = "none" /\ \A d \in Pens \ {c} : pen'[d] = pen[d]
        /\ \A d \in Pens : pen[d].op = "restore" => pen[d].deleted \in Nat /\ pen[d].deleted < stamp
    BY <1>1, <1>3 DEF StructureInv, StructureTyped, Ready, Loaded, stamp
  <2>1. CASE t \in gone
    <3>1. t \in Rows /\ t \in LegacyShots /\ unit'[t].deleted = stamp
      BY <1>1, <1>2, <1>4, <1>s, <2>1 DEF StructureTyped
    <3>2. u \in LegacyShots => shots = {}
      BY <1>s, StructureAssumption DEF shots, ShotsOf
    <3>3. t \in alone \/ (t = u /\ u \in LegacyShots)
      BY <1>2
    <3>4. t \in alone => unit[t].deleted # 0
      BY DEF StructureInv, StampsApart
    <3>5. t \in shots => unit[t].deleted = 0
      BY DEF shots, Live
    <3>6. t = u /\ u \in LegacyShots
      BY <1>s, <2>1, <3>1, <3>3, <3>4, <3>5
    <3>7. \A s \in SceneRows' : s \in Rows /\ s \notin gone
      BY <1>4, <1>s, <3>2, <3>6 DEF SceneRows
    <3> QED
      BY <1>1, <1>4, <1>u, <2>0, <3>1, <3>7
  <2>2. CASE t \notin gone
    <3>1. t \in alone /\ t \in Rows /\ unit'[t].deleted = unit[t].deleted
          /\ unit[t].deleted \in Nat /\ unit[t].deleted < stamp
      BY <1>1, <1>2, <1>4, <1>u, <2>2 DEF StructureTyped
    <3>2. \A s \in SceneRows' : s \in SceneRows
      BY <1>4 DEF SceneRows
    <3> QED
      BY <1>1, <1>4, <2>0, <3>1, <3>2 DEF StructureInv, StampsApart, SceneRows
  <2> QED
    BY <2>1, <2>2
<1> QED
  BY <1>3, <1>6, <1>7, <1>8, <1>9, <1>10 DEF StructureInv

LEMMA RestoreKeeps ==
  ASSUME StructureInv, NEW c \in Pens, CommitRestore(c) PROVE StructureInv'
<1> DEFINE u == pen[c].unit
           back == {u} \cup GoneWith(u, pen[c].deleted)
<1>1. /\ u \in Rows /\ StructureTyped /\ clock \in Nat /\ pen[c].deleted \in Nat \ {0}
      /\ GoneWith(u, pen[c].deleted) \subseteq Rows \cap LegacyShots
      /\ pen[c].op = "restore"
  BY DEF StructureInv, StructureTyped, Loaded, CommitRestore, GoneWith, ShotsOf
<1>2. /\ UNCHANGED <<clock, took>> /\ Refresh(c, Marked(back, 0))
      /\ crossed' = IF unit[u].deleted # pen[c].deleted THEN crossed \cup {u} ELSE crossed
      /\ alone' = alone \ {u}
  BY DEF CommitRestore
<1>3. /\ CountsExact' /\ OrderStands' /\ pen' = [pen EXCEPT ![c] = Ready]
      /\ counts' = [scenes |-> counts'.scenes, shots |-> counts'.shots]
      /\ unit' = Marked(back, 0)
  BY <1>2, RefreshKeeps
<1>5. /\ LegacyScenes \cap LegacyShots = {}
      /\ \A v \in back \ {u} : /\ v \in LegacyShots /\ unit[v].deleted = pen[c].deleted
                               /\ u \in LegacyScenes
      /\ \A v \in Rows \cap LegacyShots : ShotScene[v] = u /\ unit[v].deleted = pen[c].deleted =>
           v \in back
  BY StructureAssumption DEF GoneWith, ShotsOf
<1> HIDE DEF u, back
<1>4. /\ Rows' = Rows /\ unit' = [v \in Rows |-> unit'[v]]
      /\ \A v \in Rows : /\ unit'[v].deleted = IF v \in back THEN 0 ELSE unit[v].deleted
                         /\ unit'[v] = [sequence |-> unit'[v].sequence, deleted |-> unit'[v].deleted]
  BY <1>1, <1>3, MarkedFacts DEF Rows
<1>6. StructureTyped'
  <2>1. \A v \in Rows : unit'[v].deleted \in 0 .. clock
    BY <1>1, <1>4 DEF StructureTyped
  <2> QED
    BY <1>1, <1>2, <1>3, <1>4, <2>1 DEF StructureTyped
<1>7. (\A d \in Pens : Loaded(d)') /\ NewUnitsDiffer'
  <2>1. clock' \in Nat /\ clock \in Nat /\ clock' >= clock /\ Rows \subseteq Rows'
    BY <1>1, <1>2, <1>4
  <2>2. \A d \in Pens \ {c} : pen[d].op = "create" => pen[d].unit \notin Rows'
    BY <1>4 DEF StructureInv, Loaded
  <2> QED
    BY <1>3, <2>1, <2>2, OthersLoaded
<1>8. StampsKept'
  BY <1>2, <1>4 DEF StructureInv, StampsKept, SceneRows
<1>9. ShotsBack'
  <2> SUFFICES ASSUME NEW s \in SceneRows', unit'[s].deleted = 0, s \notin crossed',
                      NEW t \in took[s].shots
               PROVE  unit'[t].deleted # took[s].stamp
    BY <1>2 DEF ShotsBack
  <2>1. s \in SceneRows /\ s \in Rows /\ s \in LegacyScenes /\ s \notin crossed /\ t \in Rows
        /\ t \in LegacyShots
        /\ took[s].stamp # 0
    BY <1>1, <1>2, <1>4 DEF SceneRows, StructureTyped
  <2>2. CASE unit[s].deleted = 0
    <3>1. unit[t].deleted # took[s].stamp
      BY <2>1, <2>2 DEF StructureInv, ShotsBack
    <3> QED
      BY <1>4, <2>1, <3>1
  <2>3. CASE unit[s].deleted # 0
    <3>1. s = u
      BY <1>4, <1>5, <2>1, <2>3
    <3>2. unit[s].deleted = pen[c].deleted /\ unit[s].deleted = took[s].stamp
      BY <1>2, <2>1, <2>3, <3>1 DEF StructureInv, StampsKept
    <3>3. ShotScene[t] = s
      BY <1>1, <2>1 DEF StructureTyped
    <3> QED
      BY <1>4, <1>5, <2>1, <3>1, <3>2, <3>3
  <2> QED
    BY <2>2, <2>3
<1>10. StampsApart'
  <2> SUFFICES ASSUME NEW t \in alone'
               PROVE  /\ unit'[t].deleted # 0
                      /\ \A s \in SceneRows' : unit'[s].deleted # unit'[t].deleted
                      /\ \A d \in Pens : pen'[d].op = "restore" /\ pen'[d].unit \in LegacyScenes =>
                           pen'[d].deleted # unit'[t].deleted
    BY DEF StampsApart
  <2>0. /\ pen'[c].op = "none" /\ \A d \in Pens \ {c} : pen'[d] = pen[d]
    BY <1>1, <1>3 DEF StructureTyped, Ready
  <2>1. t \in alone /\ t # u /\ t \in Rows
    BY <1>1, <1>2 DEF StructureTyped
  <2>2. /\ unit[t].deleted # 0
        /\ \A s \in SceneRows : unit[s].deleted # unit[t].deleted
        /\ \A d \in Pens : pen[d].op = "restore" /\ pen[d].unit \in LegacyScenes =>
             pen[d].deleted # unit[t].deleted
    BY <2>1 DEF StructureInv, StampsApart
  <2>3. t \notin back
    <3> SUFFICES ASSUME t \in back PROVE FALSE
      OBVIOUS
    <3>1. u \in LegacyScenes /\ unit[t].deleted = pen[c].deleted
      BY <1>5, <2>1
    <3> QED
      BY <1>1, <2>2, <3>1 DEF u
  <2>4. unit'[t].deleted = unit[t].deleted /\ \A s \in SceneRows' : s \in SceneRows /\ s \in Rows
    BY <1>4, <2>1, <2>3 DEF SceneRows
  <2> QED
    BY <1>4, <2>0, <2>2, <2>4
<1> QED
  BY <1>3, <1>6, <1>7, <1>8, <1>9, <1>10 DEF StructureInv

LEMMA ReorderKeeps ==
  ASSUME StructureInv, NEW c \in Pens, CommitReorderUnits(c) PROVE StructureInv'
<1> DEFINE order == pen[c].order
           Moved(u) == [unit[u] EXCEPT !.sequence = Renumbered(pen[c], u, PlaceOf(order, u))]
<1>1. /\ StructureTyped /\ Loaded(c) /\ pen[c].op = "reorder"
      /\ UNCHANGED <<counts, clock, took, crossed, alone, lagging>>
      /\ ordered' = order /\ pen' = [pen EXCEPT ![c] = Ready]
      /\ unit' = [u \in Rows |-> IF u \in Range(order) THEN Moved(u) ELSE unit[u]]
  BY DEF StructureInv, CommitReorderUnits, Close
<1>2. ASSUME NEW u \in Rows
      PROVE  /\ unit'[u].deleted = unit[u].deleted
             /\ unit'[u] = [sequence |-> unit'[u].sequence, deleted |-> unit'[u].deleted]
             /\ u \in Range(order) => unit'[u].sequence = PlaceOf(order, u)
  <2> DEFINE n == unit[u].sequence
             d == unit[u].deleted
             p == PlaceOf(order, u)
  <2>1. unit[u] = [sequence |-> n, deleted |-> d]
    BY <1>1 DEF StructureTyped
  <2>2. unit'[u] = IF u \in Range(order) THEN [unit[u] EXCEPT !.sequence = p] ELSE unit[u]
    BY <1>1 DEF Renumbered
  <2> HIDE DEF n, d, p
  <2>3. unit'[u] = [sequence |-> IF u \in Range(order) THEN p ELSE n, deleted |-> d]
    BY <2>1, <2>2
  <2> QED
    BY <2>3 DEF d, p
<1>3. Rows' = Rows /\ unit' = [u \in Rows |-> unit'[u]]
  BY <1>1 DEF Rows
<1> HIDE DEF Moved
<1>4. StructureTyped'
  BY <1>1, <1>2, <1>3 DEF StructureTyped
<1>5. (\A d \in Pens : Loaded(d)') /\ NewUnitsDiffer'
  <2>1. clock' \in Nat /\ clock \in Nat /\ clock' >= clock /\ Rows \subseteq Rows'
    BY <1>1, <1>3 DEF StructureTyped
  <2>2. \A d \in Pens \ {c} : pen[d].op = "create" => pen[d].unit \notin Rows'
    BY <1>3 DEF StructureInv, Loaded
  <2> QED
    BY <1>1, <2>1, <2>2, OthersLoaded
<1>6. StampsKept'
  BY <1>1, <1>2, <1>3 DEF StructureInv, StampsKept, SceneRows
<1>7. ShotsBack'
  <2>1. \A s \in SceneRows : \A t \in took[s].shots : t \in Rows
    BY <1>1 DEF StructureTyped, SceneRows
  <2>2. ShotsBack /\ SceneRows' = SceneRows /\ SceneRows \subseteq Rows
    BY <1>3 DEF StructureInv, SceneRows
  <2> QED
    <3>1. UNCHANGED <<took, crossed>> /\ \A u \in Rows : unit'[u].deleted = unit[u].deleted
      BY <1>1, <1>2
    <3>2. took' = took /\ crossed' = crossed
      BY <3>1
    <3> SUFFICES ASSUME NEW s \in SceneRows, unit'[s].deleted = 0, s \notin crossed,
                        NEW t \in took[s].shots
                 PROVE  unit'[t].deleted # took[s].stamp
      BY <2>2, <3>2 DEF ShotsBack
    <3> QED
      BY <2>1, <2>2, <3>1 DEF ShotsBack
<1>8. StampsApart'
  <2>1. pen'[c].op = "none" /\ \A d \in Pens \ {c} : pen'[d] = pen[d]
    BY <1>1 DEF StructureTyped, Ready
  <2> QED
    <3>1. alone \subseteq Rows /\ StampsApart /\ SceneRows' = SceneRows /\ SceneRows \subseteq Rows
      BY <1>1, <1>3 DEF StructureInv, StructureTyped, SceneRows
    <3> QED
      <4>1. alone' = alone /\ \A u \in Rows : unit'[u].deleted = unit[u].deleted
        BY <1>1, <1>2
      <4> SUFFICES ASSUME NEW t \in alone
                   PROVE  /\ unit'[t].deleted # 0
                          /\ \A s \in SceneRows : unit'[s].deleted # unit'[t].deleted
                          /\ \A d \in Pens : pen'[d].op = "restore" /\ pen'[d].unit \in LegacyScenes =>
                               pen'[d].deleted # unit'[t].deleted
        BY <3>1, <4>1 DEF StampsApart
      <4> QED
        BY <2>1, <3>1, <4>1 DEF StampsApart
<1>9. CountsExact'
  <2>1. Live(unit') = Live(unit)
    BY <1>2, <1>3 DEF Live, Rows
  <2> QED
    BY <1>1, <2>1 DEF StructureInv, CountsExact, Counted
<1>10. OrderStands'
  <2>1. /\ \A i \in DOMAIN order : order[i] \in Rows /\ order[i] \in Range(order)
        /\ \A i, j \in DOMAIN order : i # j => order[i] # order[j]
    BY <1>1 DEF Loaded, Range
  <2>2. \A i \in DOMAIN order : PlaceOf(order, order[i]) = i
    BY <2>1 DEF PlaceOf
  <2>3. \A i \in DOMAIN order : unit'[order[i]].sequence = i
    BY <1>2, <2>1, <2>2
  <2> QED
    BY <1>1, <2>3 DEF OrderStands
<1> QED
  BY <1>4, <1>5, <1>6, <1>7, <1>8, <1>9, <1>10 DEF StructureInv

LEMMA StructureNextInv == StructureInv /\ [StructureNext]_structureVars => StructureInv'
<1> SUFFICES ASSUME StructureInv, [StructureNext]_structureVars PROVE StructureInv'
  OBVIOUS
<1>1. ASSUME NEW c \in Pens, NEW u \in LegacyScenes \cup LegacyShots,
             BeginCreate(c, u) \/ BeginDelete(c, u) \/ BeginRestore(c, u)
      PROVE  StructureInv'
  BY <1>1, BeginStructureKeeps
<1>2. ASSUME NEW c \in Pens, NEW order \in Orders, BeginReorderUnits(c, order) PROVE StructureInv'
  BY <1>2, BeginStructureKeeps
<1>3. ASSUME NEW c \in Pens,
             CommitCreate(c) \/ CommitDelete(c) \/ CommitRestore(c) \/ CommitReorderUnits(c)
      PROVE  StructureInv'
  BY <1>3, CreateKeeps, DeleteKeeps, RestoreKeeps, ReorderKeeps
<1>4. ASSUME UNCHANGED <<unit, counts, pen, clock, took, crossed, alone, lagging>>,
             ordered' \in {ordered, <<>>}
      PROVE  StructureInv'
  <2>1. StructureTyped' /\ \A c \in Pens : Loaded(c)'
    BY <1>4 DEF StructureInv, StructureTyped, Loaded, Rows
  <2>2. NewUnitsDiffer' /\ StampsKept' /\ ShotsBack' /\ StampsApart'
    BY <1>4 DEF StructureInv, NewUnitsDiffer, StampsKept, ShotsBack, StampsApart, SceneRows, Rows
  <2>3. OrderStands' /\ CountsExact'
    BY <1>4 DEF StructureInv, OrderStands, CountsExact, Counted, Live
  <2> QED
    BY <2>1, <2>2, <2>3 DEF StructureInv
<1>5. CASE UNCHANGED structureVars
  BY <1>4, <1>5 DEF structureVars
<1>6. ASSUME NEW s \in LegacyScenes, JobComesOrGoes(s) PROVE StructureInv'
  BY <1>4, <1>6 DEF JobComesOrGoes
<1> QED
  BY <1>1, <1>2, <1>3, <1>5, <1>6 DEF StructureNext

LEMMA StructureInvSafe == StructureInv => StructureSafe
<1> SUFFICES ASSUME StructureInv PROVE DeletedTogether
  BY DEF StructureInv, StructureSafe
<1>1. \A s \in (SceneRows \cap Live(unit)) \ crossed : \A t \in took[s].shots :
        unit[t].deleted # took[s].stamp
  BY DEF StructureInv, ShotsBack, Live
<1>2. alone \cap Live(unit) = {}
  BY DEF StructureInv, StampsApart, Live
<1> QED
  BY <1>1, <1>2 DEF DeletedTogether

\* Stamps of deletions tell apart what went together, and each request in flight knows
\* no more than was there when it read.
THEOREM StructureInvariance == StructureSpec => []StructureInv
<1>1. StructureInit => StructureInv
  BY StructureInitInv
<1>2. StructureInv /\ [StructureNext]_structureVars => StructureInv'
  BY StructureNextInv
<1> QED
  BY <1>1, <1>2, PTL DEF StructureSpec

\* A scene comes back with what its deletion took and nothing else, a granted order is
\* the order there is, and the counts are exact unless changes overlapped.
THEOREM StructureIsSafe == StructureSpec => []StructureSafe
<1>1. StructureInv => StructureSafe
  BY StructureInvSafe
<1> QED
  BY <1>1, StructureInvariance, PTL

-----------------------------------------------------------------------------
(* Run the rest of a scene.                                                *)

\* The loop has a Job in its hands.
Working == {"posted", "polling", "collecting", "adopting", "cancelling"}
JobStates == {"active", "cancelling", "succeeded", "failed"}

RunTyped ==
  /\ loop \in [Pages -> Loops]
  /\ open \in SUBSET Pages
  /\ aborted \in SUBSET Pages /\ cancelOnAbort \in SUBSET Pages
  /\ phase \in [Pages -> Phases]
  /\ shown \in [Pages -> [StepIds -> StepStates]]
  /\ todo \in [Pages -> SUBSET StepIds]
  /\ current \in [Pages -> Nat]

JobsTyped ==
  /\ Len(jobs) \in Nat /\ DOMAIN jobs = 1 .. Len(jobs)
  /\ \A i \in DOMAIN jobs :
       /\ jobs[i] = [unit |-> jobs[i].unit, state |-> jobs[i].state, page |-> jobs[i].page]
       /\ jobs[i].page \in Pages /\ jobs[i].state \in JobStates
  /\ jobs \in Seq(Range(jobs))
  /\ fate \in Seq(Fates) /\ Len(fate) = Len(jobs)

\* One page is there at most; a loop of a page that is gone has been told to end;
\* a run of the page that is there is aborted by its user only.
AbortsMeant ==
  /\ \A p, q \in open : p = q
  /\ \A p \in Pages : loop[p] # "off" /\ p \notin open => p \in aborted
  /\ \A p \in open \cap aborted : p \in cancelOnAbort

\* The loop knows the Job it works on, and no other time any Job.
JobInHand ==
  \A p \in Pages :
    IF loop[p] \in Working
    THEN /\ current[p] \in DOMAIN jobs
         /\ jobs[current[p]].page = p
         /\ loop[p] \in {"collecting", "adopting"} => ~Alive(current[p])
    ELSE current[p] = 0

FateTrue(i) ==
  /\ fate[i] = "awaited" => current[jobs[i].page] = i /\ loop[jobs[i].page] \in Working
  /\ fate[i] = "ended" => ~Alive(i)
  /\ fate[i] = "left" => jobs[i].page \in aborted \ open
  /\ fate[i] = "cancelled" => jobs[i].state # "active"

FatesTrue == \A i \in DOMAIN jobs : FateTrue(i)

\* The steps as they are drawn, where a page is there or may come back.
NoneRunning(p) == \A s \in StepIds : shown[p][s] # "running"
OneFailed(p) == \E x \in StepIds : \A s \in StepIds : shown[p][s] = "failed" => s = x
AllThrough(p) == \A s \in StepIds : shown[p][s] \in {"done", "skipped"}

OnTheWay(p) ==
  \A s \in StepIds :
    /\ shown[p][s] # "failed"
    /\ shown[p][s] = "running" => loop[p] # "choosing" /\ s = Step(p)
    /\ shown[p][s] \in {"done", "skipped"} \/ s \in todo[p]

DrawnRight(p) ==
  /\ loop[p] \in {"off", "starting"} => NoneRunning(p) /\ OneFailed(p)
  /\ loop[p] = "off" /\ phase[p] = "completed" => AllThrough(p)
  /\ loop[p] \notin {"off", "starting"} => OnTheWay(p)

StepsDrawn == \A p \in Pages : p \in open \/ p \notin aborted => DrawnRight(p)

RunAllInv ==
  RunTyped /\ JobsTyped /\ AbortsMeant /\ JobInHand /\ FatesTrue /\ StepsDrawn

\* Adding to a sequence, and changing one of its elements.
LEMMA AppendKeeps ==
  ASSUME NEW q, q \in Seq(Range(q)), NEW e
  PROVE  /\ Append(q, e) \in Seq(Range(Append(q, e)))
         /\ Len(Append(q, e)) = Len(q) + 1
         /\ DOMAIN Append(q, e) = 1 .. (Len(q) + 1)
         /\ \A i \in 1 .. Len(q) : Append(q, e)[i] = q[i]
         /\ Append(q, e)[Len(q) + 1] = e
<1> DEFINE S == Range(q) \cup {e}
<1>1. q \in Seq(S) /\ e \in S /\ DOMAIN q = 1 .. Len(q) /\ Len(q) \in Nat
  <2>1. Len(q) \in Nat /\ q \in [1 .. Len(q) -> Range(q)]
    OBVIOUS
  <2> QED
    BY <2>1
<1> HIDE DEF S
<1>2. /\ Append(q, e) \in Seq(S)
      /\ Len(Append(q, e)) = Len(q) + 1
      /\ \A i \in 1 .. Len(q) : Append(q, e)[i] = q[i]
      /\ Append(q, e)[Len(q) + 1] = e
  BY <1>1
<1>3. DOMAIN Append(q, e) = 1 .. (Len(q) + 1)
  BY <1>1, <1>2
<1> DEFINE Q == Append(q, e)
<1>4. Q \in Seq(S) /\ Len(Q) = Len(q) + 1 /\ DOMAIN Q = 1 .. Len(Q) /\ Len(Q) \in Nat
  BY <1>1, <1>2, <1>3
<1> HIDE DEF Q
<1>5. Q = [i \in 1 .. Len(Q) |-> Q[i]] /\ \A i \in 1 .. Len(Q) : Q[i] \in Range(Q)
  BY <1>4 DEF Range
<1>6. Q \in [1 .. Len(Q) -> Range(Q)]
  <2> HIDE DEF Range
  <2> QED
    BY <1>5
<1>8. Q \in Seq(Range(Q))
  <2> HIDE DEF Range
  <2> QED
    BY <1>4, <1>6
<1> QED
  BY <1>1, <1>2, <1>3, <1>8 DEF Q

LEMMA ChangeKeeps ==
  ASSUME NEW q, q \in Seq(Range(q)), NEW i \in DOMAIN q, NEW e
  PROVE  LET c == [q EXCEPT ![i] = e]
         IN  /\ c \in Seq(Range(c)) /\ Len(c) = Len(q) /\ DOMAIN c = DOMAIN q
<1> DEFINE c == [q EXCEPT ![i] = e]
<1>1. Len(q) \in Nat /\ q \in [1 .. Len(q) -> Range(q)] /\ DOMAIN q = 1 .. Len(q)
  OBVIOUS
<1>2. c = [j \in 1 .. Len(q) |-> c[j]] /\ DOMAIN c = 1 .. Len(q)
  BY <1>1
<1> HIDE DEF c
<1>3. \A j \in 1 .. Len(q) : c[j] \in Range(c)
  BY <1>2 DEF Range
<1>4. c \in Seq(Range(c)) /\ Len(c) = Len(q)
  <2> HIDE DEF Range
  <2>1. c \in [1 .. Len(q) -> Range(c)]
    BY <1>2, <1>3
  <2> QED
    BY <1>1, <2>1
<1> QED
  BY <1>1, <1>2, <1>4 DEF c

LEMMA RunInitInv == RunAllInit => RunAllInv
<1> SUFFICES ASSUME RunAllInit PROVE RunAllInv
  OBVIOUS
<1>1. RunTyped /\ AbortsMeant /\ JobInHand
  BY DEF RunAllInit, RunTyped, AbortsMeant, JobInHand, Loops, Phases, StepStates, Working
<1>2. JobsTyped /\ FatesTrue
  BY DEF RunAllInit, JobsTyped, FatesTrue
<1>3. StepsDrawn
  BY DEF RunAllInit, StepsDrawn, DrawnRight, NoneRunning, OneFailed, StepIds
<1> QED
  BY <1>1, <1>2, <1>3 DEF RunAllInv

\* The steps of a page's loop, by what they do to the Jobs.
LoopAct(p) ==
  \/ LoadScene(p) \/ NextStep(p) \/ CheckStep(p) \/ PickUnit(p) \/ Post(p) \/ PostRefused(p)
  \/ Reply(p) \/ ReplyLost(p) \/ Poll(p) \/ PollFails(p) \/ Collect(p) \/ Adopt(p) \/ CancelJob(p)
UserAct(p) == OpenPage(p) \/ Start(p) \/ Stop(p) \/ ClosePage(p)

\* What an action of one page leaves as it is for the others.
OthersAsBefore(p) ==
  \A q \in Pages \ {p} :
    /\ loop'[q] = loop[q] /\ phase'[q] = phase[q] /\ shown'[q] = shown[q]
    /\ todo'[q] = todo[q] /\ current'[q] = current[q]
    /\ q \in open' <=> q \in open
    /\ q \in aborted' <=> q \in aborted
    /\ q \in cancelOnAbort' <=> q \in cancelOnAbort

LEMMA LeaveTyped ==
  ASSUME RunTyped, NEW p \in Pages, NEW f, Leave(p, f), open' = open
  PROVE  RunTyped' /\ OthersAsBefore(p)
<1> USE DEF RunTyped, Leave, Enter, Draw, Forget, OthersAsBefore
<1>1. Interrupted(p) \in [StepIds -> StepStates]
  BY DEF Interrupted, StepStates
<1>2. RunTyped'
  BY <1>1 DEF Loops, Phases
<1> QED
  BY <1>1, <1>2

LEMMA EndTyped ==
  ASSUME RunTyped, NEW p \in Pages, NEW r \in StepStates, StepEnds(p, r), open' = open
  PROVE  RunTyped' /\ OthersAsBefore(p)
BY DEF RunTyped, StepEnds, Enter, Draw, OthersAsBefore, Loops

LEMMA MoveTyped ==
  ASSUME RunTyped, NEW p \in Pages, NEW l \in Loops, loop' = [loop EXCEPT ![p] = l],
         NEW c \in Nat, current' = [current EXCEPT ![p] = c] \/ UNCHANGED current,
         UNCHANGED <<phase, shown, todo, aborted, cancelOnAbort, open>>
  PROVE  RunTyped' /\ OthersAsBefore(p)
BY DEF RunTyped, OthersAsBefore

LEMMA LoopTyped ==
  ASSUME RunTyped, Len(jobs) \in Nat, NEW p \in Pages, LoopAct(p)
  PROVE  RunTyped' /\ OthersAsBefore(p)
<1>0. open' = open
  BY DEF LoopAct, LoadScene, NextStep, CheckStep, PickUnit, Post, PostRefused, Reply, ReplyLost,
         Poll, PollFails, Collect, Adopt, CancelJob
<1>1. ASSUME NEW f, Leave(p, f) PROVE RunTyped' /\ OthersAsBefore(p)
  BY <1>0, <1>1, LeaveTyped
<1>2. ASSUME StepEnds(p, "skipped") \/ StepEnds(p, "done") PROVE RunTyped' /\ OthersAsBefore(p)
  BY <1>0, <1>2, EndTyped DEF StepStates
<1> HIDE DEF Leave, StepEnds
<1> USE <1>0 DEF RunTyped, OthersAsBefore, Enter, Draw, Loops
<1>3. CASE LoadScene(p)
  <2>1. [s \in StepIds |-> IF Wanted(s) THEN "pending" ELSE "skipped"] \in [StepIds -> StepStates]
    BY DEF StepStates
  <2>2. CASE \E f : Leave(p, f)
    BY <1>1, <2>2
  <2>3. CASE ~ \E f : Leave(p, f)
    <3>1. /\ loop' = [loop EXCEPT ![p] = "choosing"] /\ UNCHANGED <<current, aborted, cancelOnAbort>>
          /\ todo' = [todo EXCEPT ![p] = {s \in StepIds : Wanted(s)}]
          /\ phase' = IF p \in open THEN [phase EXCEPT ![p] = "running"] ELSE phase
          /\ shown' = IF p \in open
                      THEN [shown EXCEPT ![p] =
                              [s \in StepIds |-> IF Wanted(s) THEN "pending" ELSE "skipped"]]
                      ELSE shown
      BY <1>3, <2>3 DEF LoadScene
    <3>2. {s \in StepIds : Wanted(s)} \subseteq StepIds
      OBVIOUS
    <3>3. shown' \in [Pages -> [StepIds -> StepStates]]
      BY <2>1, <3>1
    <3> QED
      BY <2>1, <3>1, <3>2, <3>3 DEF Phases
  <2> QED
    BY <2>2, <2>3
<1>4. CASE NextStep(p)
  <2>1. CASE \E f : Leave(p, f)
    BY <1>1, <2>1
  <2>2. CASE todo[p] = {}
    <3>1. /\ loop' = [loop EXCEPT ![p] = "off"] /\ current' = [current EXCEPT ![p] = 0]
          /\ todo' = [todo EXCEPT ![p] = {}] /\ UNCHANGED <<aborted, cancelOnAbort>>
          /\ phase' = IF p \in open THEN [phase EXCEPT ![p] = "completed"] ELSE phase
          /\ shown' = IF p \in open THEN [shown EXCEPT ![p] = shown[p]] ELSE shown
      BY <1>4, <2>2 DEF NextStep, Forget
    <3>2. shown' = shown
      BY <3>1
    <3> QED
      BY <3>1, <3>2 DEF Phases
  <2>3. CASE todo[p] # {} /\ ~ \E f : Leave(p, f)
    <3>1. [shown[p] EXCEPT ![Step(p)] = "running"] \in [StepIds -> StepStates]
      BY DEF StepStates
    <3> QED
      BY <1>4, <2>3, <3>1 DEF NextStep
  <2> QED
    BY <2>1, <2>2, <2>3
<1>5. CASE CheckStep(p)
  BY <1>1, <1>2, <1>5 DEF CheckStep
<1>6. CASE PickUnit(p)
  BY <1>1, <1>2, <1>6 DEF PickUnit
<1>7. CASE Post(p) \/ Reply(p)
  <2>1. PICK l \in {"posted", "polling"} : loop' = [loop EXCEPT ![p] = l]
    BY <1>7 DEF Post, Reply
  <2>2. /\ current' = [current EXCEPT ![p] = Len(jobs) + 1] \/ UNCHANGED current
        /\ UNCHANGED <<phase, shown, todo, aborted, cancelOnAbort>>
    BY <1>7 DEF Post, Reply
  <2>3. Len(jobs) + 1 \in Nat /\ l \in Loops
    OBVIOUS
  <2> HIDE DEF RunTyped, OthersAsBefore
  <2> QED
    BY <2>1, <2>2, <2>3, MoveTyped
<1>8. CASE PostRefused(p) \/ ReplyLost(p)
  BY <1>1, <1>8 DEF PostRefused, ReplyLost
<1>9. CASE Poll(p) \/ PollFails(p)
  BY <1>1, <1>9 DEF Poll, PollFails, GiveUpJob
<1>10. CASE Collect(p)
  BY <1>1, <1>10 DEF Collect, GiveUpJob
<1>11. CASE Adopt(p)
  <2>1. CASE \E f : Leave(p, f)
    BY <1>1, <2>1
  <2>2. CASE ~ \E f : Leave(p, f)
    <3>1. /\ loop' = [loop EXCEPT ![p] = "picking"] /\ current' = [current EXCEPT ![p] = 0]
          /\ UNCHANGED <<phase, shown, todo, aborted, cancelOnAbort>>
      BY <1>11, <2>2 DEF Adopt
    <3>2. 0 \in Nat /\ "picking" \in Loops
      OBVIOUS
    <3> HIDE DEF RunTyped, OthersAsBefore
    <3> QED
      BY <3>1, <3>2, MoveTyped
  <2> QED
    BY <2>1, <2>2
<1>12. CASE CancelJob(p)
  BY <1>1, <1>12 DEF CancelJob
<1> QED
  BY <1>3, <1>4, <1>5, <1>6, <1>7, <1>8, <1>9, <1>10, <1>11, <1>12 DEF LoopAct

LEMMA UserTyped ==
  ASSUME RunTyped, AbortsMeant, NEW p \in Pages, UserAct(p)
  PROVE  RunTyped' /\ AbortsMeant' /\ OthersAsBefore(p)
<1> USE DEF RunTyped, AbortsMeant, OthersAsBefore
<1>1. CASE OpenPage(p)
  BY <1>1 DEF OpenPage, pageVars
<1>2. CASE Start(p)
  BY <1>2 DEF Start, Enter, Loops
<1>3. CASE Stop(p)
  BY <1>3 DEF Stop
<1>4. CASE ClosePage(p)
  BY <1>4 DEF ClosePage, NotRunning
<1> QED
  BY <1>1, <1>2, <1>3, <1>4 DEF UserAct

LEMMA LoopAborts ==
  ASSUME RunTyped, AbortsMeant, Len(jobs) \in Nat, NEW p \in Pages, LoopAct(p)
  PROVE  AbortsMeant' /\ UNCHANGED <<open, aborted, cancelOnAbort>> /\ loop[p] # "off"
<1>1. UNCHANGED <<open, aborted, cancelOnAbort>> /\ loop[p] # "off"
  BY DEF LoopAct, LoadScene, NextStep, CheckStep, PickUnit, Post, PostRefused, Reply, ReplyLost,
         Poll, PollFails, Collect, Adopt, CancelJob, Leave, StepEnds, GiveUpJob
<1>2. OthersAsBefore(p)
  BY LoopTyped
<1> QED
  BY <1>1, <1>2 DEF AbortsMeant, OthersAsBefore

AtWork(job) == job.state \in {"active", "cancelling"}

\* Jobs only end; none comes, none goes.
JobsOnward ==
  /\ Len(jobs') = Len(jobs) /\ DOMAIN jobs' = DOMAIN jobs /\ jobs' \in Seq(Range(jobs'))
  /\ \A i \in DOMAIN jobs :
       /\ jobs'[i] = [unit |-> jobs'[i].unit, state |-> jobs'[i].state, page |-> jobs'[i].page]
       /\ jobs'[i].page = jobs[i].page /\ jobs'[i].state \in JobStates
       /\ AtWork(jobs'[i]) => AtWork(jobs[i])
       /\ jobs'[i].state = "active" => jobs[i].state = "active"

LEMMA NoJobChanges == JobsTyped /\ UNCHANGED jobs => JobsOnward
BY DEF JobsTyped, JobsOnward, Alive, AtWork

LEMMA OneJobChanges ==
  ASSUME JobsTyped, NEW i \in DOMAIN jobs, NEW s \in JobStates \ {"active"},
         s = "cancelling" => jobs[i].state = "active", AtWork(jobs[i]),
         jobs' = [jobs EXCEPT ![i].state = s]
  PROVE  JobsOnward
<1>1. /\ jobs' \in Seq(Range(jobs')) /\ Len(jobs') = Len(jobs) /\ DOMAIN jobs' = DOMAIN jobs
  BY ChangeKeeps DEF JobsTyped
<1>2. /\ jobs'[i] = [jobs[i] EXCEPT !.state = s]
      /\ \A k \in DOMAIN jobs \ {i} : jobs'[k] = jobs[k]
  BY DEF JobsTyped
<1>3. jobs[i] = [unit |-> jobs[i].unit, state |-> jobs[i].state, page |-> jobs[i].page]
  BY DEF JobsTyped
<1>4. jobs'[i] = [unit |-> jobs[i].unit, state |-> s, page |-> jobs[i].page]
  <2> DEFINE u == jobs[i].unit
             t == jobs[i].state
             g == jobs[i].page
  <2>1. jobs[i] = [unit |-> u, state |-> t, page |-> g]
    BY <1>3
  <2> HIDE DEF u, t, g
  <2>2. jobs'[i] = [unit |-> u, state |-> s, page |-> g]
    BY <1>2, <2>1
  <2> QED
    BY <2>2 DEF u, g
<1> QED
  BY <1>1, <1>2, <1>3, <1>4 DEF JobsOnward, Alive, AtWork, JobsTyped

\* The loop moves on with the Job it has, or without one as before.
LEMMA MoveJobs ==
  ASSUME RunTyped, JobsTyped, JobInHand, FatesTrue, NEW p \in Pages, OthersAsBefore(p),
         JobsOnward, UNCHANGED <<fate, open, aborted>>, current'[p] = current[p],
         loop[p] \in Working <=> loop'[p] \in Working,
         loop'[p] \in {"collecting", "adopting"} => ~AtWork(jobs[current[p]])
  PROVE  JobsTyped' /\ JobInHand' /\ FatesTrue'
<1>1. JobsTyped'
  BY DEF JobsTyped, JobsOnward
<1>2. JobInHand'
  <2> SUFFICES ASSUME NEW q \in Pages
               PROVE  IF loop'[q] \in Working
                      THEN /\ current'[q] \in DOMAIN jobs
                           /\ jobs'[current'[q]].page = q
                           /\ loop'[q] \in {"collecting", "adopting"} => ~AtWork(jobs'[current'[q]])
                      ELSE current'[q] = 0
    BY DEF JobInHand, JobsOnward, Alive, AtWork
  <2>1. current'[q] = current[q] /\ (loop[q] \in Working <=> loop'[q] \in Working)
        /\ (loop'[q] \in {"collecting", "adopting"} => ~AtWork(jobs[current[q]]))
    BY DEF OthersAsBefore, JobInHand, Working, Alive, AtWork
  <2>2. current[q] \in DOMAIN jobs =>
          jobs'[current[q]].page = jobs[current[q]].page /\ (AtWork(jobs'[current[q]]) => AtWork(jobs[current[q]]))
    BY DEF JobsOnward, Alive, AtWork
  <2> QED
    BY <2>1, <2>2 DEF JobInHand, Alive, AtWork
<1>3. FatesTrue'
  <2> SUFFICES ASSUME NEW i \in DOMAIN jobs PROVE FateTrue(i)'
    BY DEF FatesTrue, JobsOnward
  <2>1. FateTrue(i) /\ jobs[i].page \in Pages /\ jobs'[i].page = jobs[i].page
        /\ (AtWork(jobs'[i]) => AtWork(jobs[i])) /\ (jobs'[i].state = "active" => jobs[i].state = "active")
    BY DEF FatesTrue, JobsTyped, JobsOnward
  <2>2. \A q \in Pages : current'[q] = current[q] /\ (loop[q] \in Working <=> loop'[q] \in Working)
    BY DEF OthersAsBefore
  <2> QED
    BY <2>1, <2>2 DEF FateTrue, Alive, AtWork
<1> QED
  BY <1>1, <1>2, <1>3

\* The loop lets its Job go, and knows what became of it.
LEMMA LetGo ==
  ASSUME RunTyped, JobsTyped, JobInHand, FatesTrue, NEW p \in Pages, OthersAsBefore(p),
         JobsOnward, UNCHANGED <<open, aborted>>, current'[p] = 0, loop'[p] \notin Working,
         NEW f \in Fates \ {"awaited"}, Resolve(p, f),
         loop[p] \in Working =>
           /\ f = "ended" => ~AtWork(jobs'[current[p]])
           /\ f = "left" => p \in aborted \ open
           /\ f = "cancelled" => jobs'[current[p]].state # "active"
  PROVE  JobsTyped' /\ JobInHand' /\ FatesTrue'
<1>1. CASE loop[p] \notin Working
  <2>1. current[p] = 0 /\ fate' = fate
    BY <1>1 DEF JobInHand, Resolve
  <2>2. loop'[p] \notin {"collecting", "adopting"}
    BY DEF Working
  <2> QED
    BY <1>1, <2>1, <2>2, MoveJobs
<1>2. CASE loop[p] \in Working
  <2> DEFINE j == current[p]
  <2>1. j \in DOMAIN jobs /\ jobs[j].page = p /\ j # 0
    BY <1>2 DEF JobInHand, JobsTyped
  <2>2. fate' = [fate EXCEPT ![j] = f]
    BY <2>1 DEF Resolve
  <2>3. /\ fate' \in Seq(Fates) /\ Len(fate') = Len(fate) /\ fate'[j] = f
        /\ \A i \in DOMAIN jobs \ {j} : fate'[i] = fate[i]
    <3>1. fate \in [1 .. Len(jobs) -> Fates] /\ Len(jobs) \in Nat /\ DOMAIN jobs = 1 .. Len(jobs)
      BY DEF JobsTyped
    <3>2. fate' \in [1 .. Len(jobs) -> Fates]
      BY <2>1, <2>2, <3>1
    <3> QED
      BY <2>1, <2>2, <3>1, <3>2 DEF JobsTyped
  <2>4. JobsTyped'
    BY <2>3 DEF JobsTyped, JobsOnward
  <2>5. JobInHand'
    <3> SUFFICES ASSUME NEW q \in Pages
                 PROVE  IF loop'[q] \in Working
                        THEN /\ current'[q] \in DOMAIN jobs
                             /\ jobs'[current'[q]].page = q
                             /\ loop'[q] \in {"collecting", "adopting"} => ~AtWork(jobs'[current'[q]])
                        ELSE current'[q] = 0
      BY DEF JobInHand, JobsOnward, Alive, AtWork
    <3>1. CASE q = p
      BY <3>1
    <3>2. CASE q # p
      <4>1. current'[q] = current[q] /\ loop'[q] = loop[q]
        BY <3>2 DEF OthersAsBefore
      <4>2. current[q] \in DOMAIN jobs =>
          jobs'[current[q]].page = jobs[current[q]].page /\ (AtWork(jobs'[current[q]]) => AtWork(jobs[current[q]]))
        BY DEF JobsOnward, Alive, AtWork
      <4> QED
        BY <4>1, <4>2 DEF JobInHand, Alive, AtWork
    <3> QED
      BY <3>1, <3>2
  <2>6. ASSUME NEW i \in DOMAIN jobs PROVE FateTrue(i)'
    <3>1. FateTrue(i) /\ jobs[i].page \in Pages /\ jobs'[i].page = jobs[i].page
          /\ (AtWork(jobs'[i]) => AtWork(jobs[i])) /\ (jobs'[i].state = "active" => jobs[i].state = "active")
      BY DEF FatesTrue, JobsTyped, JobsOnward
    <3>2. CASE i = j
      BY <1>2, <2>1, <2>3, <3>1, <3>2 DEF FateTrue, Alive, AtWork
    <3>3. CASE i # j
      <4>1. fate'[i] = fate[i]
        BY <2>3, <3>3
      <4>2. fate[i] = "awaited" => jobs[i].page # p
        BY <3>1, <3>3 DEF FateTrue
      <4>3. \A q \in Pages \ {p} : current'[q] = current[q] /\ loop'[q] = loop[q]
        BY DEF OthersAsBefore
      <4> QED
        BY <3>1, <4>1, <4>2, <4>3 DEF FateTrue, Alive, AtWork
    <3> QED
      BY <3>2, <3>3
  <2> QED
    BY <2>4, <2>5, <2>6 DEF FatesTrue, JobsOnward
<1> QED
  BY <1>1, <1>2

LEMMA PostJobs ==
  ASSUME RunTyped, JobsTyped, JobInHand, FatesTrue, NEW p \in Pages, OthersAsBefore(p), Post(p)
  PROVE  JobsTyped' /\ JobInHand' /\ FatesTrue'
<1> DEFINE n == Len(jobs) + 1
           job == [unit |-> Unit(p), state |-> "active", page |-> p]
<1>1. /\ loop[p] = "posting" /\ loop'[p] = "posted" /\ current'[p] = n
      /\ jobs' = Append(jobs, job) /\ fate' = Append(fate, "awaited")
      /\ UNCHANGED <<aborted, open>>
  BY DEF Post, Enter, RunTyped
<1>2. /\ jobs' \in Seq(Range(jobs')) /\ Len(jobs') = n /\ DOMAIN jobs' = 1 .. n
      /\ \A i \in 1 .. Len(jobs) : jobs'[i] = jobs[i]
      /\ jobs'[n] = job
  BY <1>1, AppendKeeps DEF JobsTyped
<1>3. /\ fate' \in Seq(Fates) /\ Len(fate') = n /\ fate'[n] = "awaited"
      /\ \A i \in 1 .. Len(jobs) : fate'[i] = fate[i]
  <2>1. "awaited" \in Fates /\ fate \in Seq(Fates) /\ Len(fate) = Len(jobs)
    BY DEF JobsTyped, Fates
  <2> QED
    BY <1>1, <2>1
<1>4. job.state = "active" /\ job.page = p
      /\ job = [unit |-> job.unit, state |-> job.state, page |-> job.page]
  OBVIOUS
<1>5. Len(jobs) \in Nat /\ DOMAIN jobs = 1 .. Len(jobs) /\ 1 .. n = (1 .. Len(jobs)) \cup {n}
  BY DEF JobsTyped
<1> HIDE DEF job, n
<1>6. JobsTyped'
  <2>1. \A i \in 1 .. n : jobs'[i] = job \/ \E k \in DOMAIN jobs : jobs'[i] = jobs[k]
    BY <1>2, <1>5
  <2>2. n \in Nat
    BY <1>5 DEF n
  <2> QED
    BY <1>2, <1>3, <1>4, <2>1, <2>2 DEF JobsTyped, JobStates
<1>7. JobInHand'
  <2> SUFFICES ASSUME NEW q \in Pages
               PROVE  IF loop'[q] \in Working
                      THEN /\ current'[q] \in DOMAIN jobs'
                           /\ jobs'[current'[q]].page = q
                           /\ loop'[q] \in {"collecting", "adopting"} => ~AtWork(jobs'[current'[q]])
                      ELSE current'[q] = 0
    BY DEF JobInHand, Alive, AtWork
  <2>1. CASE q = p
    BY <1>1, <1>2, <1>4, <1>5, <2>1 DEF n, Working
  <2>2. CASE q # p
    <3>1. loop'[q] = loop[q] /\ current'[q] = current[q]
      BY <2>2 DEF OthersAsBefore
    <3> QED
      BY <1>2, <1>5, <3>1 DEF JobInHand, Alive, AtWork
  <2> QED
    BY <2>1, <2>2
<1>8. ASSUME NEW i \in DOMAIN jobs' PROVE FateTrue(i)'
  <2>1. CASE i = n
    BY <1>1, <1>2, <1>3, <1>4, <2>1 DEF FateTrue, Working
  <2>2. CASE i # n
    <3>1. i \in DOMAIN jobs /\ jobs'[i] = jobs[i] /\ fate'[i] = fate[i] /\ FateTrue(i)
          /\ jobs[i].page \in Pages
      BY <1>2, <1>3, <1>5, <1>8, <2>2 DEF FatesTrue, JobsTyped
    <3>2. fate[i] = "awaited" => jobs[i].page # p
      BY <1>1, <3>1 DEF FateTrue, Working
    <3>3. \A q \in Pages \ {p} : loop'[q] = loop[q] /\ current'[q] = current[q]
      BY DEF OthersAsBefore
    <3> QED
      BY <1>1, <3>1, <3>2, <3>3 DEF FateTrue, Alive
  <2> QED
    BY <2>1, <2>2
<1> QED
  BY <1>6, <1>7, <1>8 DEF FatesTrue

LEMMA LoopJobs ==
  ASSUME RunAllInv, NEW p \in Pages, LoopAct(p)
  PROVE  JobsTyped' /\ JobInHand' /\ FatesTrue'
<1>1. /\ RunTyped /\ JobsTyped /\ AbortsMeant /\ JobInHand /\ FatesTrue
      /\ OthersAsBefore(p) /\ UNCHANGED <<open, aborted>> /\ loop[p] # "off"
  BY LoopTyped, LoopAborts DEF RunAllInv, JobsTyped
<1> DEFINE Goal == JobsTyped' /\ JobInHand' /\ FatesTrue'
<1> SUFFICES Goal
  OBVIOUS
<1> HIDE DEF Goal
<1>2. ASSUME NEW f \in {"ended", "lost", "given up", "left", "not cancelled"},
             Leave(p, f), UNCHANGED jobs,
             loop[p] \in Working /\ f = "ended" => ~AtWork(jobs[current[p]]),
             f = "left" => p \in aborted \ open
      PROVE  Goal
  <2>1. /\ current'[p] = 0 /\ loop'[p] \notin Working /\ Resolve(p, f)
    BY <1>1, <1>2 DEF Leave, Enter, Forget, RunTyped, Working
  <2>2. JobsOnward /\ f \in Fates \ {"awaited"}
    BY <1>1, <1>2, NoJobChanges DEF Fates
  <2> QED
    BY <1>1, <1>2, <2>1, <2>2, LetGo DEF Goal
<1>3. ASSUME NEW l \in Loops, Enter(p, l), l # "adopting", l = "collecting" => ~AtWork(jobs[current[p]]),
             UNCHANGED <<jobs, fate>>, current'[p] = current[p],
             loop[p] \in Working <=> l \in Working
      PROVE  Goal
  <2>1. loop'[p] = l /\ JobsOnward
    BY <1>1, <1>3, NoJobChanges DEF Enter, RunTyped
  <2> QED
    BY <1>1, <1>3, <2>1, MoveJobs DEF Goal, Alive, AtWork
<1>4. ASSUME UNCHANGED <<jobs, fate, loop>>, current'[p] = current[p] PROVE Goal
  <2>1. JobsOnward
    BY <1>1, <1>4, NoJobChanges
  <2>2. loop'[p] \in {"collecting", "adopting"} => ~Alive(current[p])
    BY <1>1, <1>4 DEF JobInHand, Working
  <2> QED
    BY <1>1, <1>4, <2>1, <2>2, MoveJobs DEF Goal, Alive, AtWork
<1>5. ASSUME NEW r, StepEnds(p, r), UNCHANGED jobs, loop[p] \notin Working PROVE Goal
  <2>1. Enter(p, "choosing") /\ current'[p] = 0 /\ UNCHANGED fate /\ current[p] = 0
    BY <1>1, <1>5 DEF StepEnds, RunTyped, JobInHand
  <2> QED
    BY <1>3, <1>5, <2>1 DEF Loops, Working
<1>6. ASSUME NEW f \in {"left", "ended"}, GiveUpJob(p, f), UNCHANGED jobs, loop[p] \in {"polling", "collecting"},
             f = "left" => p \in aborted, f = "ended" => ~AtWork(jobs[current[p]])
      PROVE  Goal
  <2>1. CASE p \in aborted /\ p \in cancelOnAbort
    <3>1. Enter(p, "cancelling") /\ UNCHANGED <<current, fate>>
      BY <1>6, <2>1 DEF GiveUpJob
    <3> QED
      BY <1>3, <1>6, <3>1 DEF Loops, Working
  <2>2. CASE ~(p \in aborted /\ p \in cancelOnAbort)
    <3>1. Leave(p, f)
      BY <1>6, <2>2 DEF GiveUpJob
    <3>2. f = "left" => p \in aborted \ open
      BY <1>1, <1>6, <2>2 DEF AbortsMeant
    <3> QED
      BY <1>2, <1>6, <3>1, <3>2
  <2> QED
    BY <2>1, <2>2
<1> USE DEF Working, Loops
<1>11. CASE LoadScene(p)
  <2>1. CASE Leave(p, "ended")
    BY <1>2, <1>11, <2>1 DEF LoadScene
  <2>2. CASE ~Leave(p, "ended")
    <3>1. Enter(p, "choosing") /\ UNCHANGED <<jobs, current, fate>> /\ loop[p] = "starting"
      BY <1>11, <2>2 DEF LoadScene
    <3> QED
      BY <1>3, <3>1
  <2> QED
    BY <2>1, <2>2
<1>12. CASE NextStep(p)
  <2>1. CASE Leave(p, "ended")
    BY <1>2, <1>12, <2>1 DEF NextStep
  <2>2. CASE ~Leave(p, "ended")
    <3>1. (Enter(p, "off") \/ Enter(p, "checking")) /\ UNCHANGED <<jobs, fate>>
          /\ loop[p] = "choosing" /\ current' \in {current, [current EXCEPT ![p] = 0]}
      BY <1>12, <2>2 DEF NextStep, Forget
    <3>2. current'[p] = current[p]
      BY <1>1, <3>1 DEF RunTyped, JobInHand
    <3> QED
      BY <1>3, <3>1, <3>2
  <2> QED
    BY <2>1, <2>2
<1>13. CASE CheckStep(p)
  <2>1. CASE Leave(p, "ended") \/ StepEnds(p, "skipped")
    BY <1>2, <1>5, <1>13, <2>1 DEF CheckStep
  <2>2. CASE ~(Leave(p, "ended") \/ StepEnds(p, "skipped"))
    <3>1. Enter(p, "picking") /\ UNCHANGED <<jobs, current, fate>> /\ loop[p] = "checking"
      BY <1>13, <2>2 DEF CheckStep
    <3> QED
      BY <1>3, <3>1
  <2> QED
    BY <2>1, <2>2
<1>14. CASE PickUnit(p)
  <2>0. loop[p] = "picking" /\ UNCHANGED jobs
    BY <1>14 DEF PickUnit
  <2>1. CASE Leave(p, "ended") \/ \E r : StepEnds(p, r)
    BY <1>2, <1>5, <2>0, <2>1
  <2>2. CASE ~(Leave(p, "ended") \/ \E r : StepEnds(p, r))
    <3>1. UNCHANGED <<current, fate>> /\ (UNCHANGED loop \/ Enter(p, "posting"))
      BY <1>14, <2>2 DEF PickUnit
    <3> QED
      BY <1>3, <1>4, <2>0, <3>1
  <2> QED
    BY <2>1, <2>2
<1>15. CASE Post(p)
  BY <1>1, <1>15, PostJobs DEF Goal
<1>16. CASE PostRefused(p) \/ ReplyLost(p)
  BY <1>2, <1>16 DEF PostRefused, ReplyLost
<1>17. CASE Reply(p)
  BY <1>3, <1>17 DEF Reply, serverVars
<1>18. CASE Poll(p)
  <2>0. loop[p] = "polling" /\ UNCHANGED jobs
    BY <1>18 DEF Poll
  <2>1. CASE p \in aborted
    BY <1>6, <1>18, <2>0, <2>1 DEF Poll
  <2>2. CASE p \notin aborted /\ StateOf(p) = "failed" /\ Leave(p, "ended")
    <3>1. ~AtWork(jobs[current[p]])
      BY <2>2 DEF StateOf, AtWork
    <3> QED
      BY <1>2, <2>0, <2>2, <3>1
  <2>3. CASE p \notin aborted /\ StateOf(p) = "succeeded" /\ Enter(p, "collecting")
             /\ UNCHANGED <<current, fate>>
    <3>1. ~AtWork(jobs[current[p]])
      BY <2>3 DEF StateOf, AtWork
    <3> QED
      BY <1>3, <2>0, <2>3, <3>1
  <2>4. CASE p \notin aborted /\ UNCHANGED <<loop, current, fate>>
    BY <1>4, <2>0, <2>4
  <2> QED
    BY <1>18, <2>1, <2>2, <2>3, <2>4 DEF Poll
<1>19. CASE PollFails(p)
  <2>1. CASE Leave(p, "given up")
    BY <1>2, <1>19, <2>1 DEF PollFails
  <2>2. CASE ~Leave(p, "given up")
    BY <1>4, <1>19, <2>2 DEF PollFails
  <2> QED
    BY <2>1, <2>2
<1>20. CASE Collect(p)
  <2>0. loop[p] = "collecting" /\ UNCHANGED jobs /\ ~AtWork(jobs[current[p]])
    BY <1>1, <1>20 DEF Collect, JobInHand, Alive, AtWork
  <2>1. CASE GiveUpJob(p, "ended")
    BY <1>6, <2>0, <2>1
  <2>2. CASE ~GiveUpJob(p, "ended")
    <3>1. loop' = [loop EXCEPT ![p] = "adopting"] /\ UNCHANGED <<current, fate>>
      BY <1>20, <2>2 DEF Collect, Enter
    <3>2. loop'[p] = "adopting" /\ JobsOnward
      BY <1>1, <2>0, <3>1, NoJobChanges DEF RunTyped
    <3> QED
      BY <1>1, <2>0, <3>1, <3>2, MoveJobs DEF Goal, Alive, AtWork
  <2> QED
    BY <2>1, <2>2
<1>21. CASE Adopt(p)
  <2>0. loop[p] = "adopting" /\ UNCHANGED jobs /\ ~AtWork(jobs[current[p]])
    BY <1>1, <1>21 DEF Adopt, JobInHand, Alive, AtWork
  <2>1. CASE Leave(p, "ended")
    BY <1>2, <2>0, <2>1
  <2>2. CASE ~Leave(p, "ended")
    <3>1. /\ loop' = [loop EXCEPT ![p] = "picking"] /\ current' = [current EXCEPT ![p] = 0]
          /\ Resolve(p, "ended")
      BY <1>21, <2>2 DEF Adopt, Enter
    <3>2. loop'[p] = "picking" /\ current'[p] = 0 /\ JobsOnward
      BY <1>1, <2>0, <3>1, NoJobChanges DEF RunTyped
    <3>3. "ended" \in Fates \ {"awaited"}
      BY DEF Fates
    <3> QED
      BY <1>1, <2>0, <3>1, <3>2, <3>3, LetGo DEF Goal
  <2> QED
    BY <2>1, <2>2
<1>22. CASE CancelJob(p)
  <2>0. loop[p] = "cancelling" /\ current[p] \in DOMAIN jobs
    BY <1>1, <1>22 DEF CancelJob, JobInHand
  <2>1. CASE UNCHANGED jobs /\ Leave(p, "not cancelled")
    BY <1>2, <2>1
  <2>2. CASE /\ Leave(p, "cancelled")
             /\ jobs' = IF StateOf(p) = "active"
                        THEN [jobs EXCEPT ![current[p]].state = "cancelling"] ELSE jobs
    <3>1. JobsOnward
      <4>1. CASE StateOf(p) = "active"
        <5>1. "cancelling" \in JobStates \ {"active"} /\ jobs[current[p]].state = "active"
              /\ AtWork(jobs[current[p]])
          BY <4>1 DEF JobStates, StateOf, AtWork
        <5>2. jobs' = [jobs EXCEPT ![current[p]].state = "cancelling"]
          BY <2>2, <4>1
        <5> QED
          BY <1>1, <2>0, <5>1, <5>2, OneJobChanges
      <4>2. CASE StateOf(p) # "active"
        BY <1>1, <2>2, <4>2, NoJobChanges
      <4> QED
        BY <4>1, <4>2
    <3>2. jobs'[current[p]].state # "active"
      <4>1. CASE StateOf(p) # "active"
        BY <2>2, <4>1 DEF StateOf
      <4>2. CASE StateOf(p) = "active"
        <5> DEFINE j == current[p]
        <5>1. jobs[j] = [unit |-> jobs[j].unit, state |-> jobs[j].state, page |-> jobs[j].page]
              /\ j \in DOMAIN jobs
          BY <1>1, <2>0 DEF JobsTyped
        <5>2. jobs' = [jobs EXCEPT ![j] = [jobs[j] EXCEPT !.state = "cancelling"]]
          BY <2>2, <4>2
        <5> HIDE DEF j
        <5>3. jobs'[j] = [jobs[j] EXCEPT !.state = "cancelling"]
          BY <1>1, <5>1, <5>2 DEF JobsTyped
        <5>4. [jobs[j] EXCEPT !.state = "cancelling"].state = "cancelling"
          BY <5>1
        <5> QED
          BY <5>3, <5>4 DEF j
      <4> QED
        BY <4>1, <4>2
    <3>3. /\ current'[p] = 0 /\ loop'[p] \notin Working /\ Resolve(p, "cancelled")
      BY <1>1, <2>2 DEF Leave, Enter, Forget, RunTyped
    <3>4. "cancelled" \in Fates \ {"awaited"}
      BY DEF Fates
    <3> QED
      BY <1>1, <3>1, <3>2, <3>3, <3>4, LetGo DEF Goal
  <2> QED
    BY <1>22, <2>1, <2>2 DEF CancelJob
<1> QED
  BY <1>11, <1>12, <1>13, <1>14, <1>15, <1>16, <1>17, <1>18, <1>19, <1>20, <1>21, <1>22
     DEF LoopAct

LEMMA UserJobs ==
  ASSUME RunAllInv, NEW p \in Pages, UserAct(p)
  PROVE  JobsTyped' /\ JobInHand' /\ FatesTrue'
<1>1. /\ RunTyped /\ JobsTyped /\ AbortsMeant /\ JobInHand /\ FatesTrue /\ OthersAsBefore(p)
  BY UserTyped DEF RunAllInv
<1>2. /\ UNCHANGED <<jobs, fate>> /\ current'[p] = current[p]
      /\ UNCHANGED loop \/ (loop[p] = "off" /\ loop' = [loop EXCEPT ![p] = "starting"])
      /\ p \in open \/ (p \notin aborted /\ UNCHANGED aborted)
      /\ \A q \in Pages \ {p} : q \in aborted \ open => q \in aborted' \ open'
  <2>0. \A q \in Pages \ {p} : q \in aborted \ open => q \in aborted' \ open'
    BY <1>1 DEF OthersAsBefore
  <2>1. CASE Start(p)
    <3>1. loop[p] = "off" /\ current' = [current EXCEPT ![p] = 0]
      BY <2>1 DEF Start, NotRunning
    <3>2. current'[p] = current[p]
      BY <1>1, <3>1 DEF RunTyped, JobInHand, Working
    <3> QED
      BY <2>0, <2>1, <3>1, <3>2 DEF Start, Enter, serverVars
  <2>2. CASE OpenPage(p) \/ Stop(p) \/ ClosePage(p)
    <3>1. /\ UNCHANGED <<jobs, fate, loop, current>>
          /\ p \in open \/ (p \notin aborted /\ UNCHANGED aborted)
      BY <2>2 DEF OpenPage, Stop, ClosePage, pageVars, serverVars
    <3> QED
      BY <2>0, <3>1
  <2> QED
    BY <2>1, <2>2 DEF UserAct
<1>3. \A q \in Pages : /\ current'[q] = current[q]
                       /\ loop[q] \in Working <=> loop'[q] \in Working
                       /\ loop'[q] \in Working => loop'[q] = loop[q]
  <2>1. /\ loop[p] \in Working <=> loop'[p] \in Working
        /\ loop'[p] \in Working => loop'[p] = loop[p]
    BY <1>1, <1>2 DEF RunTyped, Working
  <2> QED
    BY <1>1, <1>2, <2>1 DEF OthersAsBefore
<1>4. JobsTyped'
  BY <1>1, <1>2 DEF JobsTyped
<1>5. JobInHand'
  <2> SUFFICES ASSUME NEW q \in Pages
               PROVE  IF loop'[q] \in Working
                      THEN /\ current[q] \in DOMAIN jobs
                           /\ jobs[current[q]].page = q
                           /\ loop'[q] \in {"collecting", "adopting"} => ~AtWork(jobs[current[q]])
                      ELSE current[q] = 0
    BY <1>2, <1>3 DEF JobInHand, Alive, AtWork
  <2> QED
    BY <1>1, <1>3 DEF JobInHand, Alive, AtWork
<1>6. ASSUME NEW i \in DOMAIN jobs PROVE FateTrue(i)'
  <2>1. FateTrue(i) /\ jobs[i].page \in Pages
    BY <1>1 DEF FatesTrue, JobsTyped
  <2>2. fate[i] = "left" => jobs[i].page \in aborted' \ open'
    BY <1>2, <2>1 DEF FateTrue
  <2> QED
    BY <1>2, <1>3, <2>1, <2>2 DEF FateTrue, Alive
<1> QED
  BY <1>2, <1>4, <1>5, <1>6 DEF FatesTrue

LEMMA EndJobs ==
  ASSUME RunAllInv, NEW i \in DOMAIN jobs, JobEnds(i)
  PROVE  RunAllInv'
<1>1. /\ RunTyped /\ JobsTyped /\ AbortsMeant /\ JobInHand /\ FatesTrue /\ StepsDrawn
      /\ UNCHANGED <<pageVars, fate, open>> /\ AtWork(jobs[i])
  BY DEF RunAllInv, JobEnds, Alive, AtWork
<1>2. JobsOnward
  <2>1. PICK s \in {"succeeded", "failed"} : jobs' = [jobs EXCEPT ![i].state = s]
    BY DEF JobEnds
  <2>2. s \in JobStates \ {"active"} /\ s # "cancelling"
    BY <2>1 DEF JobStates
  <2> QED
    BY <1>1, <2>1, <2>2, OneJobChanges
<1>3. JobsTyped' /\ JobInHand' /\ FatesTrue'
  <2>1. CASE Pages = {}
    BY <1>1, <2>1 DEF JobsTyped
  <2>2. ASSUME NEW p \in Pages PROVE JobsTyped' /\ JobInHand' /\ FatesTrue'
    <3>1. loop'[p] \in {"collecting", "adopting"} => ~AtWork(jobs[current[p]])
      BY <1>1 DEF pageVars, JobInHand, Working, Alive, AtWork
    <3>2. OthersAsBefore(p)
      BY <1>1 DEF OthersAsBefore, pageVars
    <3> QED
      BY <1>1, <1>2, <3>1, <3>2, MoveJobs DEF pageVars
  <2> QED
    BY <2>1, <2>2
<1>4. RunTyped' /\ AbortsMeant'
  BY <1>1 DEF RunTyped, AbortsMeant, pageVars
<1>5. StepsDrawn'
  BY <1>1 DEF StepsDrawn, DrawnRight, NoneRunning, OneFailed, AllThrough, OnTheWay, Step, pageVars
<1> QED
  BY <1>3, <1>4, <1>5 DEF RunAllInv

\* What is drawn stays right on the pages that take no part.
LEMMA DrawnOne ==
  ASSUME StepsDrawn, NEW p \in Pages, OthersAsBefore(p),
         p \in open' \/ p \notin aborted' => DrawnRight(p)'
  PROVE  StepsDrawn'
<1> SUFFICES ASSUME NEW q \in Pages \ {p}, q \in open' \/ q \notin aborted' PROVE DrawnRight(q)'
  BY DEF StepsDrawn
<1>1. /\ loop'[q] = loop[q] /\ phase'[q] = phase[q] /\ shown'[q] = shown[q] /\ todo'[q] = todo[q]
      /\ DrawnRight(q)
  BY DEF OthersAsBefore, StepsDrawn
<1> QED
  BY <1>1 DEF DrawnRight, NoneRunning, OneFailed, AllThrough, OnTheWay, Step

\* The loop is at one of the steps that are left, while there are any.
LEMMA FirstOfSteps ==
  ASSUME NEW rest \in SUBSET StepIds, rest # {}
  PROVE  FirstOf(Steps, rest) \in rest
<1> DEFINE First(i) == Steps[i] \in rest /\ \A j \in 1 .. (i - 1) : Steps[j] \notin rest
<1>1. /\ DOMAIN Steps = 1 .. 6
      /\ Steps[1] = "character" /\ Steps[2] = "scene_image" /\ Steps[3] = "voice"
      /\ Steps[4] = "bgm" /\ Steps[5] = "video" /\ Steps[6] = "compose"
  BY DEF Steps
<1>2. PICK k \in 1 .. 6 : Steps[k] \in rest
  <2>1. PICK s \in StepIds : s \in rest
    OBVIOUS
  <2>2. \E k \in 1 .. 6 : Steps[k] = s
    BY <1>1 DEF StepIds
  <2> QED
    BY <2>1, <2>2
<1>3. \E i \in 1 .. 6 : First(i)
  <2>1. CASE Steps[1] \in rest
    BY <2>1
  <2>2. CASE Steps[1] \notin rest /\ Steps[2] \in rest
    BY <2>2
  <2>3. CASE Steps[1] \notin rest /\ Steps[2] \notin rest /\ Steps[3] \in rest
    BY <2>3
  <2>4. CASE Steps[1] \notin rest /\ Steps[2] \notin rest /\ Steps[3] \notin rest /\ Steps[4] \in rest
    BY <2>4
  <2>5. CASE /\ Steps[1] \notin rest /\ Steps[2] \notin rest /\ Steps[3] \notin rest
             /\ Steps[4] \notin rest /\ Steps[5] \in rest
    BY <2>5
  <2>6. CASE /\ Steps[1] \notin rest /\ Steps[2] \notin rest /\ Steps[3] \notin rest
             /\ Steps[4] \notin rest /\ Steps[5] \notin rest
    BY <1>2, <2>6
  <2> QED
    BY <2>1, <2>2, <2>3, <2>4, <2>5, <2>6
<1>4. FirstOf(Steps, rest) = Steps[CHOOSE i \in DOMAIN Steps : First(i)]
  BY DEF FirstOf
<1> HIDE DEF First
<1>5. First(CHOOSE i \in DOMAIN Steps : First(i))
  BY <1>1, <1>3
<1> QED
  BY <1>4, <1>5 DEF First

LEMMA LeaveDrawn ==
  ASSUME RunTyped, NEW p \in open, DrawnRight(p), loop[p] # "off", NEW f, Leave(p, f)
  PROVE  DrawnRight(p)'
<1>1. /\ p \in Pages /\ loop'[p] = "off" /\ phase'[p] \in {"aborted", "failed"}
      /\ shown'[p] = Interrupted(p)
  BY DEF RunTyped, Leave, Enter, Draw
<1>2. \A s \in StepIds :
        /\ shown[p][s] = "running" => shown'[p][s] \in {"pending", "failed"}
        /\ shown[p][s] # "running" => shown'[p][s] = shown[p][s]
  BY <1>1 DEF Interrupted
<1>3. NoneRunning(p)'
  BY <1>2 DEF NoneRunning
<1>4. OneFailed(p)'
  <2>1. CASE loop[p] = "starting"
    BY <1>2, <2>1 DEF DrawnRight, NoneRunning, OneFailed
  <2>2. CASE loop[p] # "starting"
    <3>1. OnTheWay(p)
      BY <2>2 DEF DrawnRight
    <3>2. \A s \in StepIds : shown'[p][s] = "failed" => shown[p][s] = "running" /\ s = Step(p)
      BY <1>2, <3>1 DEF OnTheWay
    <3>3. "voice" \in StepIds
      BY DEF StepIds
    <3>4. CASE Step(p) \in StepIds
      BY <3>2, <3>4 DEF OneFailed
    <3>5. CASE Step(p) \notin StepIds
      BY <3>2, <3>3, <3>5 DEF OneFailed
    <3> QED
      BY <3>4, <3>5
  <2> QED
    BY <2>1, <2>2
<1> QED
  BY <1>1, <1>3, <1>4 DEF DrawnRight

LEMMA EndDrawn ==
  ASSUME RunTyped, NEW p \in open, OnTheWay(p), NEW r \in {"done", "skipped"}, StepEnds(p, r)
  PROVE  DrawnRight(p)'
<1>1. /\ p \in Pages /\ loop'[p] = "choosing" /\ todo'[p] = todo[p] \ {Step(p)}
      /\ shown'[p] = [shown[p] EXCEPT ![Step(p)] = r]
  BY DEF RunTyped, StepEnds, Enter, Draw
<1>2. \A s \in StepIds : shown'[p][s] = IF s = Step(p) THEN r ELSE shown[p][s]
  BY <1>1 DEF RunTyped
<1>3. \A s \in StepIds :
        /\ shown'[p][s] \notin {"failed", "running"}
        /\ shown'[p][s] \in {"done", "skipped"} \/ s \in todo'[p]
  BY <1>1, <1>2 DEF OnTheWay
<1> QED
  BY <1>1, <1>3 DEF DrawnRight, OnTheWay

\* A step of the loop that draws nothing and stays within the current step.
LEMMA SameDrawn ==
  ASSUME RunTyped, NEW p \in open, OnTheWay(p), UNCHANGED <<phase, shown, todo>>,
         loop[p] # "choosing", loop'[p] \notin {"off", "starting", "choosing"}
  PROVE  DrawnRight(p)'
BY DEF DrawnRight, OnTheWay, Step

LEMMA LoopDrawn ==
  ASSUME RunAllInv, NEW p \in Pages, LoopAct(p)
  PROVE  StepsDrawn'
<1>1. /\ RunTyped /\ AbortsMeant /\ StepsDrawn /\ JobsTyped
      /\ OthersAsBefore(p) /\ UNCHANGED <<open, aborted>> /\ loop[p] # "off"
  BY LoopTyped, LoopAborts DEF RunAllInv, JobsTyped
<1> SUFFICES ASSUME p \in open PROVE DrawnRight(p)'
  BY <1>1, DrawnOne DEF AbortsMeant
<1>2. DrawnRight(p) /\ (loop[p] # "starting" => OnTheWay(p))
  BY <1>1 DEF StepsDrawn, DrawnRight
<1>3. ASSUME NEW f, Leave(p, f) PROVE DrawnRight(p)'
  BY <1>1, <1>2, <1>3, LeaveDrawn
<1>4. ASSUME NEW r \in {"done", "skipped"}, StepEnds(p, r), loop[p] # "starting" PROVE DrawnRight(p)'
  BY <1>1, <1>2, <1>4, EndDrawn
<1>5. ASSUME NEW l \in Loops, loop' = [loop EXCEPT ![p] = l], UNCHANGED <<phase, shown, todo>>,
             loop[p] \notin {"starting", "choosing"}, l \notin {"off", "starting", "choosing"}
      PROVE  DrawnRight(p)'
  <2>1. loop'[p] = l
    BY <1>1, <1>5 DEF RunTyped
  <2> QED
    BY <1>1, <1>2, <1>5, <2>1, SameDrawn
<1>6. ASSUME UNCHANGED <<loop, phase, shown, todo>>, loop[p] \notin {"starting", "choosing"}
      PROVE  DrawnRight(p)'
  BY <1>1, <1>2, <1>6, SameDrawn
<1>7. ASSUME NEW f, GiveUpJob(p, f), loop[p] \notin {"starting", "choosing"} PROVE DrawnRight(p)'
  <2>1. CASE Leave(p, f)
    BY <1>3, <2>1
  <2>2. CASE ~Leave(p, f)
    BY <1>5, <1>7, <2>2 DEF GiveUpJob, Enter, Loops
  <2> QED
    BY <2>1, <2>2
<1>11. CASE LoadScene(p)
  <2>1. CASE Leave(p, "ended")
    BY <1>3, <2>1
  <2>2. CASE ~Leave(p, "ended")
    <3>1. /\ loop' = [loop EXCEPT ![p] = "choosing"]
          /\ todo' = [todo EXCEPT ![p] = {s \in StepIds : Wanted(s)}]
          /\ shown' = [shown EXCEPT ![p] =
                         [s \in StepIds |-> IF Wanted(s) THEN "pending" ELSE "skipped"]]
      BY <1>11, <2>2 DEF LoadScene, Enter, Draw
    <3>2. /\ loop'[p] = "choosing" /\ todo'[p] = {s \in StepIds : Wanted(s)}
          /\ \A s \in StepIds : shown'[p][s] = IF Wanted(s) THEN "pending" ELSE "skipped"
      BY <1>1, <3>1 DEF RunTyped
    <3>3. \A s \in StepIds :
            /\ shown'[p][s] \notin {"failed", "running"}
            /\ shown'[p][s] \in {"done", "skipped"} \/ s \in todo'[p]
      BY <3>2
    <3> QED
      BY <3>2, <3>3 DEF DrawnRight, OnTheWay
  <2> QED
    BY <2>1, <2>2
<1>12. CASE NextStep(p)
  <2>0. loop[p] = "choosing" /\ OnTheWay(p)
    BY <1>2, <1>12 DEF NextStep
  <2>1. CASE Leave(p, "ended")
    BY <1>3, <2>1
  <2>2. CASE todo[p] = {}
    <3>1. loop'[p] = "off" /\ shown' = [shown EXCEPT ![p] = shown[p]]
      BY <1>1, <1>12, <2>2 DEF NextStep, Enter, Draw, RunTyped
    <3>2. shown' = shown
      BY <1>1, <3>1 DEF RunTyped
    <3>3. \A s \in StepIds : shown'[p][s] \in {"done", "skipped"}
      BY <2>0, <2>2, <3>2 DEF OnTheWay
    <3>4. "voice" \in StepIds
      BY DEF StepIds
    <3> QED
      BY <3>1, <3>3, <3>4 DEF DrawnRight, NoneRunning, OneFailed, AllThrough
  <2>3. CASE todo[p] # {} /\ ~Leave(p, "ended")
    <3>1. /\ loop' = [loop EXCEPT ![p] = "checking"] /\ todo' = todo
          /\ shown' = [shown EXCEPT ![p] = [shown[p] EXCEPT ![Step(p)] = "running"]]
      BY <1>12, <2>3 DEF NextStep, Enter, Draw
    <3>2. /\ loop'[p] = "checking" /\ Step(p)' = Step(p)
          /\ \A s \in StepIds : shown'[p][s] = IF s = Step(p) THEN "running" ELSE shown[p][s]
      BY <1>1, <3>1 DEF RunTyped, Step
    <3>3. ASSUME NEW s \in StepIds
          PROVE  /\ shown'[p][s] # "failed"
                 /\ shown'[p][s] = "running" => s = Step(p)
                 /\ shown'[p][s] \in {"done", "skipped"} \/ s \in todo[p]
      <4>1. Step(p) \in todo[p]
        BY <1>1, <2>3, FirstOfSteps DEF RunTyped, Step
      <4> QED
        BY <2>0, <3>2, <4>1 DEF OnTheWay
    <3> QED
      BY <3>1, <3>2, <3>3 DEF DrawnRight, OnTheWay
  <2> QED
    BY <2>1, <2>2, <2>3
<1> USE DEF Loops
<1>13. CASE CheckStep(p)
  <2>1. CASE Leave(p, "ended") \/ StepEnds(p, "skipped")
    BY <1>3, <1>4, <1>13, <2>1 DEF CheckStep
  <2>2. CASE ~(Leave(p, "ended") \/ StepEnds(p, "skipped"))
    BY <1>5, <1>13, <2>2 DEF CheckStep, Enter
  <2> QED
    BY <2>1, <2>2
<1>14. CASE PickUnit(p)
  <2>1. CASE Leave(p, "ended") \/ StepEnds(p, "done") \/ StepEnds(p, "skipped")
    BY <1>3, <1>4, <1>14, <2>1 DEF PickUnit
  <2>2. CASE ~(Leave(p, "ended") \/ StepEnds(p, "done") \/ StepEnds(p, "skipped"))
    <3>1. /\ UNCHANGED <<phase, shown, todo>> /\ loop[p] = "picking"
          /\ UNCHANGED loop \/ loop' = [loop EXCEPT ![p] = "posting"]
      BY <1>14, <2>2 DEF PickUnit, Enter
    <3> QED
      BY <1>5, <1>6, <3>1
  <2> QED
    BY <2>1, <2>2
<1>15. CASE Post(p) \/ Reply(p)
  BY <1>5, <1>15 DEF Post, Reply, Enter
<1>16. CASE PostRefused(p) \/ ReplyLost(p)
  BY <1>3, <1>16 DEF PostRefused, ReplyLost
<1>17. CASE Poll(p)
  <2>0. loop[p] = "polling"
    BY <1>17 DEF Poll
  <2>1. CASE \E f : Leave(p, f) \/ GiveUpJob(p, f)
    BY <1>3, <1>7, <2>0, <2>1
  <2>2. CASE ~ \E f : Leave(p, f) \/ GiveUpJob(p, f)
    <3>1. /\ UNCHANGED <<phase, shown, todo>>
          /\ UNCHANGED loop \/ loop' = [loop EXCEPT ![p] = "collecting"]
      BY <1>17, <2>2 DEF Poll, Enter
    <3> QED
      BY <1>5, <1>6, <2>0, <3>1
  <2> QED
    BY <2>1, <2>2
<1>18. CASE PollFails(p)
  <2>1. CASE Leave(p, "given up")
    BY <1>3, <2>1
  <2>2. CASE ~Leave(p, "given up")
    BY <1>6, <1>18, <2>2 DEF PollFails
  <2> QED
    BY <2>1, <2>2
<1>19. CASE Collect(p)
  <2>1. CASE GiveUpJob(p, "ended")
    BY <1>7, <1>19, <2>1 DEF Collect
  <2>2. CASE ~GiveUpJob(p, "ended")
    BY <1>5, <1>19, <2>2 DEF Collect, Enter
  <2> QED
    BY <2>1, <2>2
<1>20. CASE Adopt(p)
  <2>1. CASE Leave(p, "ended")
    BY <1>3, <2>1
  <2>2. CASE ~Leave(p, "ended")
    BY <1>5, <1>20, <2>2 DEF Adopt, Enter
  <2> QED
    BY <2>1, <2>2
<1>21. CASE CancelJob(p)
  BY <1>3, <1>21 DEF CancelJob
<1> QED
  BY <1>11, <1>12, <1>13, <1>14, <1>15, <1>16, <1>17, <1>18, <1>19, <1>20, <1>21 DEF LoopAct

LEMMA UserDrawn ==
  ASSUME RunAllInv, NEW p \in Pages, UserAct(p)
  PROVE  StepsDrawn'
<1>1. /\ RunTyped /\ AbortsMeant /\ StepsDrawn /\ OthersAsBefore(p)
  BY UserTyped DEF RunAllInv
<1>2. UNCHANGED <<phase, shown, todo>>
  BY DEF UserAct, OpenPage, Start, Stop, ClosePage, pageVars
<1> SUFFICES ASSUME p \in open' \/ p \notin aborted' PROVE DrawnRight(p)'
  BY <1>1, DrawnOne
<1>3. CASE Start(p)
  <2>1. loop[p] = "off" /\ loop'[p] = "starting" /\ DrawnRight(p)
    BY <1>1, <1>3 DEF Start, NotRunning, Enter, RunTyped, StepsDrawn
  <2> QED
    BY <1>2, <2>1 DEF DrawnRight, NoneRunning, OneFailed
<1>4. CASE OpenPage(p) \/ Stop(p) \/ ClosePage(p)
  <2>1. UNCHANGED loop /\ DrawnRight(p)
    BY <1>1, <1>4 DEF OpenPage, Stop, ClosePage, pageVars, StepsDrawn
  <2> QED
    BY <1>2, <2>1 DEF DrawnRight, NoneRunning, OneFailed, AllThrough, OnTheWay, Step
<1> QED
  BY <1>3, <1>4 DEF UserAct

LEMMA RunNextInv == RunAllInv /\ [RunAllNext]_runAllVars => RunAllInv'
<1> SUFFICES ASSUME RunAllInv, [RunAllNext]_runAllVars PROVE RunAllInv'
  OBVIOUS
<1>1. ASSUME NEW p \in Pages, LoopAct(p) PROVE RunAllInv'
  <2>1. RunTyped' /\ AbortsMeant'
    BY <1>1, LoopTyped, LoopAborts DEF RunAllInv, JobsTyped
  <2> QED
    BY <1>1, <2>1, LoopJobs, LoopDrawn DEF RunAllInv
<1>2. ASSUME NEW p \in Pages, UserAct(p) PROVE RunAllInv'
  <2>1. RunTyped' /\ AbortsMeant'
    BY <1>2, UserTyped DEF RunAllInv
  <2> QED
    BY <1>2, <2>1, UserJobs, UserDrawn DEF RunAllInv
<1>3. ASSUME NEW i \in DOMAIN jobs, JobEnds(i) PROVE RunAllInv'
  BY <1>3, EndJobs
<1>4. CASE OtherTab \/ UNCHANGED runAllVars
  <2>1. UNCHANGED <<pageVars, jobs, fate, open>>
    BY <1>4 DEF OtherTab, runAllVars, serverVars
  <2>2. RunTyped' /\ AbortsMeant'
    BY <2>1 DEF RunAllInv, RunTyped, AbortsMeant, pageVars
  <2>3. JobsTyped' /\ JobInHand' /\ FatesTrue'
    BY <2>1 DEF RunAllInv, JobsTyped, JobInHand, FatesTrue, FateTrue, Alive, pageVars
  <2>4. StepsDrawn'
    BY <2>1 DEF RunAllInv, StepsDrawn, DrawnRight, NoneRunning, OneFailed, AllThrough, OnTheWay,
                Step, pageVars
  <2> QED
    BY <2>2, <2>3, <2>4 DEF RunAllInv
<1> QED
  BY <1>1, <1>2, <1>3, <1>4 DEF RunAllNext, LoopAct, UserAct

LEMMA RunInvSafe == RunAllInv => RunAllSafe
<1> SUFFICES ASSUME RunAllInv PROVE RunAllSafe
  OBVIOUS
<1>1. NoneForgotten
  <2> SUFFICES ASSUME NEW i \in DOMAIN jobs, Alive(i), fate[i] = "awaited"
               PROVE  /\ current[jobs[i].page] = i
                      /\ loop[jobs[i].page] \in {"posted", "polling", "cancelling"}
    BY DEF NoneForgotten
  <2>1. current[jobs[i].page] = i /\ loop[jobs[i].page] \in Working /\ jobs[i].page \in Pages
    BY DEF RunAllInv, FatesTrue, FateTrue, JobsTyped
  <2>2. loop[jobs[i].page] \notin {"collecting", "adopting"}
    BY <2>1 DEF RunAllInv, JobInHand
  <2> QED
    BY <2>1, <2>2 DEF Working
<1>2. StopLeavesNothing
  <2> SUFFICES ASSUME NEW i \in DOMAIN jobs, jobs[i].page \in open, loop[jobs[i].page] = "off",
                      jobs[i].state = "active"
               PROVE  fate[i] \in {"lost", "given up", "not cancelled"}
    BY DEF StopLeavesNothing
  <2>1. fate[i] \in Fates
    BY DEF RunAllInv, JobsTyped
  <2>2. fate[i] \notin {"awaited", "ended", "left", "cancelled"}
    BY DEF RunAllInv, FatesTrue, FateTrue, Alive, Working
  <2> QED
    BY <2>1, <2>2 DEF Fates
<1>3. RunShown
  <2> SUFFICES ASSUME NEW p \in open, loop[p] = "off"
               PROVE  /\ \A s \in StepIds : shown[p][s] # "running"
                      /\ phase[p] = "completed" =>
                           Range([s \in StepIds |-> shown[p][s]]) \subseteq {"done", "skipped"}
                      /\ Cardinality({s \in StepIds : shown[p][s] = "failed"}) <= 1
    BY DEF RunShown
  <2>1. NoneRunning(p) /\ OneFailed(p) /\ (phase[p] = "completed" => AllThrough(p))
    BY DEF RunAllInv, StepsDrawn, DrawnRight, RunTyped
  <2>2. PICK x \in StepIds : {s \in StepIds : shown[p][s] = "failed"} \subseteq {x}
    BY <2>1 DEF OneFailed
  <2>3. Cardinality({s \in StepIds : shown[p][s] = "failed"}) <= 1
    <3> DEFINE F == {s \in StepIds : shown[p][s] = "failed"}
    <3>1. IsFiniteSet({x}) /\ Cardinality({x}) = 1
      BY FS_Singleton
    <3>2. Cardinality(F) <= Cardinality({x})
      BY <2>2, <3>1, FS_Subset
    <3> QED
      BY <3>1, <3>2
  <2>4. phase[p] = "completed" =>
          Range([s \in StepIds |-> shown[p][s]]) \subseteq {"done", "skipped"}
    BY <2>1 DEF AllThrough, Range
  <2> QED
    BY <2>1, <2>3, <2>4 DEF NoneRunning
<1> QED
  BY <1>1, <1>2, <1>3 DEF RunAllSafe

\* Each page's loop, what it shows and the Jobs it has submitted fit together, whatever
\* answers are lost or late.
THEOREM RunAllInvariance == RunAllSpec => []RunAllInv
<1>1. RunAllInit => RunAllInv
  BY RunInitInv
<1>2. RunAllInv /\ [RunAllNext]_runAllVars => RunAllInv'
  BY RunNextInv
<1> QED
  BY <1>1, <1>2, PTL DEF RunAllSpec

\* No Job of a run is forgotten, the user's stop leaves none at work that the page does
\* not tell of, and a run that ended shows what came of it.
THEOREM RunAllIsSafe == RunAllSpec => []RunAllSafe
<1>1. RunAllInv => RunAllSafe
  BY RunInvSafe
<1> QED
  BY <1>1, RunAllInvariance, PTL

-----------------------------------------------------------------------------
(* Events and the pages that follow them.                                  *)

\* Queues hold events; the tab's reads find versions there have been.
DeliveryTyped ==
  /\ version \in Nat
  /\ DOMAIN slots \subseteq Tabs
  /\ slots = [t \in DOMAIN slots |-> slots[t]]
  /\ \A t \in DOMAIN slots : slots[t] \in Seq(Nat)
  /\ socket \in [Tabs -> {"closed", "open"}]
  /\ firstSeen \in [Tabs -> Nat]
  /\ board \in [Tabs -> Nat]
  /\ reading \in [Tabs -> {"no", "asked", "found"}]
  /\ found \in [Tabs -> Nat]
  /\ connected \subseteq Tabs /\ unread \subseteq Tabs

QueuesBounded == \A t \in DOMAIN slots : Len(slots[t]) <= QueueSize

RoomHeld == IsFiniteSet(DOMAIN slots) /\ Cardinality(DOMAIN slots) <= MaxSubscribers

\* What a connected tab lacks is still to come: an event in its queue, a read that
\* has not been made, or one that has found the present version.
UpToDate(t, seen) == seen[t] = version \/ version = firstSeen[t]

NewsOnItsWay ==
  \A t \in DOMAIN slots : socket[t] = "open" /\ slots[t] = <<>> =>
    \/ reading[t] = "asked"
    \/ reading[t] = "found" /\ UpToDate(t, found)
    \/ reading[t] = "no" /\ (t \in unread \/ UpToDate(t, board))

DeliveryInv ==
  DeliveryTyped /\ QueuesBounded /\ RoomHeld /\ ConnectedIsSubscribed /\ NewsOnItsWay

\* An event is always left in a queue that one is added to, and the queue is not
\* longer than before, if it was full.
LEMMA QueuedFacts ==
  ASSUME NEW q \in Seq(Nat), NEW e \in Nat, Len(q) <= QueueSize
  PROVE  Queued(q, e) \in Seq(Nat) /\ Queued(q, e) # <<>> /\ Len(Queued(q, e)) <= QueueSize
<1>1. CASE Len(q) = QueueSize
  <2>1. q # <<>>
    BY <1>1, QueueAssumption
  <2>2. Tail(q) \in Seq(Nat) /\ Len(Tail(q)) = Len(q) - 1
    BY <2>1
  <2>3. Queued(q, e) = Append(Tail(q), e)
    BY <1>1 DEF Queued
  <2> QED
    BY <1>1, <2>2, <2>3, QueueAssumption
<1>2. CASE Len(q) # QueueSize
  BY <1>2, QueueAssumption DEF Queued
<1> QED
  BY <1>1, <1>2

LEMMA DeliveryInitInv == DeliveryInit => DeliveryInv
<1> SUFFICES ASSUME DeliveryInit PROVE DeliveryInv
  OBVIOUS
<1>1. DOMAIN slots = {}
  BY DEF DeliveryInit
<1>2. RoomHeld
  BY <1>1, FS_EmptySet, SubscribersAssumption DEF RoomHeld
<1>3. DeliveryTyped
  BY <1>1 DEF DeliveryInit, DeliveryTyped
<1> QED
  BY <1>1, <1>2, <1>3 DEF DeliveryInit, DeliveryInv, QueuesBounded, ConnectedIsSubscribed, NewsOnItsWay

LEMMA DeliveryNextInv == DeliveryInv /\ [DeliveryNext]_deliveryVars => DeliveryInv'
<1> SUFFICES ASSUME DeliveryInv, [DeliveryNext]_deliveryVars PROVE DeliveryInv'
  OBVIOUS
<1> USE DEF DeliveryInv, DeliveryTyped, QueuesBounded, RoomHeld, ConnectedIsSubscribed,
            NewsOnItsWay, UpToDate
<1>1. CASE Change
  <2>1. DOMAIN slots' = DOMAIN slots
    BY <1>1 DEF Change
  <2>2. \A t \in DOMAIN slots : /\ slots'[t] \in Seq(Nat) /\ slots'[t] # <<>>
                                /\ Len(slots'[t]) <= QueueSize
    <3> SUFFICES ASSUME NEW t \in DOMAIN slots
                 PROVE  /\ slots'[t] \in Seq(Nat) /\ slots'[t] # <<>>
                        /\ Len(slots'[t]) <= QueueSize
      OBVIOUS
    <3>1. slots'[t] = Queued(slots[t], version + 1)
      BY <1>1 DEF Change
    <3>2. slots[t] \in Seq(Nat) /\ version + 1 \in Nat /\ Len(slots[t]) <= QueueSize
      OBVIOUS
    <3> HIDE DEF DeliveryInv
    <3> QED
      BY <3>1, <3>2, QueuedFacts
  <2> QED
    BY <1>1, <2>1, <2>2 DEF Change
<1>2. ASSUME NEW t \in Tabs, Connect(t) PROVE DeliveryInv'
  <2>1. DOMAIN slots' = DOMAIN slots \cup {t}
    BY <1>2 DEF Connect
  <2>2. RoomHeld'
    <3>1. /\ IsFiniteSet(DOMAIN slots \cup {t})
          /\ Cardinality(DOMAIN slots \cup {t}) = Cardinality(DOMAIN slots) + 1
      BY <1>2, FS_AddElement DEF Connect
    <3>2. Cardinality(DOMAIN slots) \in Nat
      BY FS_CardinalityType
    <3> QED
      BY <1>2, <2>1, <3>1, <3>2, SubscribersAssumption DEF Connect
  <2>3. slots'[t] = <<>> /\ \A u \in DOMAIN slots : u # t /\ slots'[u] = slots[u]
    BY <1>2 DEF Connect
  <2>4. QueuesBounded'
    BY <2>1, <2>3, QueueAssumption
  <2>5. DeliveryTyped'
    BY <1>2, <2>1, <2>3 DEF Connect, Refetch
  <2> HIDE DEF RoomHeld
  <2>6. ConnectedIsSubscribed'
    BY <1>2, <2>1 DEF Connect
  <2>7. NewsOnItsWay'
    BY <1>2, <2>1, <2>3 DEF Connect, Refetch
  <2> QED
    BY <2>2, <2>4, <2>5, <2>6, <2>7
<1>3. ASSUME NEW t \in Tabs, Deliver(t) PROVE DeliveryInv'
  <2>1. DOMAIN slots' = DOMAIN slots
    BY <1>3 DEF Deliver
  <2>2. /\ slots'[t] \in Seq(Nat) /\ Len(slots'[t]) <= QueueSize
        /\ \A u \in DOMAIN slots \ {t} : slots'[u] = slots[u]
    BY <1>3, QueueAssumption DEF Deliver
  <2> QED
    BY <1>3, <2>1, <2>2 DEF Deliver, Refetch
<1>4. ASSUME NEW t \in Tabs, Unsubscribe(t) \/ SendTimesOut(t) PROVE DeliveryInv'
  <2>1. DOMAIN slots' = DOMAIN slots \ {t} /\ \A u \in DOMAIN slots \ {t} : slots'[u] = slots[u]
    BY <1>4 DEF Unsubscribe, SendTimesOut
  <2>2. RoomHeld'
    <3>1. /\ IsFiniteSet(DOMAIN slots \ {t})
          /\ Cardinality(DOMAIN slots \ {t}) <= Cardinality(DOMAIN slots)
      BY FS_Subset
    <3>2. Cardinality(DOMAIN slots) \in Nat /\ Cardinality(DOMAIN slots \ {t}) \in Nat
      BY <3>1, FS_CardinalityType
    <3> QED
      BY <2>1, <3>1, <3>2, SubscribersAssumption
  <2>3. DeliveryTyped' /\ QueuesBounded'
    BY <1>4, <2>1 DEF Unsubscribe, SendTimesOut
  <2> HIDE DEF RoomHeld
  <2> QED
    BY <1>4, <2>1, <2>2, <2>3 DEF Unsubscribe, SendTimesOut
<1>5. ASSUME NEW t \in Tabs, Break(t) \/ Read(t) \/ Show(t) \/ ReadFails(t) PROVE DeliveryInv'
  <2>1. UNCHANGED slots /\ (socket'[t] = "open" => socket[t] = "open")
        /\ \A u \in Tabs \ {t} : socket'[u] = socket[u]
    BY <1>5 DEF Break, Read, Show, ReadFails
  <2>2. DeliveryTyped'
    <3>1. CASE Break(t)
      BY <3>1 DEF Break
    <3>2. CASE Read(t)
      BY <3>2 DEF Read
    <3>3. CASE Show(t)
      BY <3>3 DEF Show
    <3>4. CASE ReadFails(t)
      BY <3>4 DEF ReadFails
    <3> QED
      BY <1>5, <3>1, <3>2, <3>3, <3>4
  <2>3. QueuesBounded' /\ ConnectedIsSubscribed' /\ RoomHeld'
    BY <2>1
  <2>4. NewsOnItsWay'
    BY <1>5, <2>1 DEF Break, Read, Show, ReadFails
  <2> QED
    BY <2>2, <2>3, <2>4
<1>6. CASE UNCHANGED deliveryVars
  BY <1>6 DEF deliveryVars
<1> QED
  BY <1>1, <1>2, <1>3, <1>4, <1>5, <1>6 DEF DeliveryNext

LEMMA DeliveryInvSafe == DeliveryInv => DeliverySafe
BY DEF DeliveryInv, DeliverySafe, BoardCurrent, Settled, NewsOnItsWay, UpToDate, RoomHeld

\* For each tab, what it shows, what is on its way to it and what the server has fit.
THEOREM DeliveryInvariance == DeliverySpec => []DeliveryInv
<1>1. DeliveryInit => DeliveryInv
  BY DeliveryInitInv
<1>2. DeliveryInv /\ [DeliveryNext]_deliveryVars => DeliveryInv'
  BY DeliveryNextInv
<1> QED
  BY <1>1, <1>2, PTL DEF DeliverySpec

\* A connected tab with nothing more to read shows the Jobs as they are, and none is
\* connected without being subscribed, however many events were dropped.
THEOREM DeliveryIsSafe == DeliverySpec => []DeliverySafe
<1>1. DeliveryInv => DeliverySafe
  BY DeliveryInvSafe
<1> QED
  BY <1>1, DeliveryInvariance, PTL

-----------------------------------------------------------------------------
\* Neither editing nor linking undoes what users did in between.
THEOREM StoryEditsAreMild == StorySpec /\ ImportSpec => EditsAreMild
BY VoicesStay, LinkRunsAreMild DEF EditsAreMild
=============================================================================
