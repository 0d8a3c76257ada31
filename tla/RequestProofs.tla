--------------------------- MODULE RequestProofs ----------------------------
(***************************************************************************)
(* Machine-checked proofs about requests for Jobs (Submission), for any    *)
(* requests, rows of stories, references, layers of defaults and Recipes,  *)
(* and about completions of prompts (PromptAssist), for any prompts,       *)
(* answers of the model and dictionary.                                    *)
(***************************************************************************)
EXTENDS Submission, PromptAssist, FiniteSetTheorems, SequenceTheorems, WellFoundedInduction, TLAPS

-----------------------------------------------------------------------------
(* Layers of inputs.                                                       *)

LEMMA LargestIndex ==
  ASSUME NEW N \in Nat, NEW S, S \subseteq 1 .. N, S # {}
  PROVE  Max(S) \in S /\ \A i \in S : i <= Max(S)
<1> DEFINE T == {N - i : i \in S}
<1>1. T \subseteq Nat /\ T # {}
  <2>1. \A i \in S : i \in Nat /\ i <= N
    OBVIOUS
  <2>2. \A i \in S : N - i \in Nat
    BY <2>1
  <2> QED BY <2>2
<1>2. PICK x \in T : \A y \in T : ~(<<y, x>> \in OpToRel(<, Nat))
  BY <1>1, NatLessThanWellFounded, WFMin
<1>3. \A y \in T : ~(y < x)
  BY <1>1, <1>2 DEF OpToRel
<1>4. PICK m \in S : x = N - m
  BY <1>2
<1>5. \A i \in S : i <= m
  <2> TAKE i \in S
  <2>1. N - i \in T /\ ~(N - i < x)
    BY <1>3
  <2> QED BY <1>4, <2>1
<1>6. \E y \in S : \A i \in S : y >= i
  BY <1>4, <1>5
<1>7. Max(S) = CHOOSE y \in S : \A i \in S : y >= i
  BY DEF Max
<1> QED BY <1>6, <1>7

\* Joined sequences, place by place.
LEMMA JoinedPlaces ==
  ASSUME NEW V, NEW a \in Seq(V), NEW b \in Seq(V), NEW c, c = a \o b
  PROVE  /\ c \in Seq(V) /\ Len(c) = Len(a) + Len(b)
         /\ DOMAIN c = 1 .. Len(c)
         /\ \A i \in 1 .. Len(a) : c[i] = a[i]
         /\ \A i \in Len(a) + 1 .. Len(c) : c[i] = b[i - Len(a)]
BY ConcatProperties

\* The layers, in their order: the request's own is the last, and it and looks are
\* there only when nothing is asked to be inherited.
LayersFit(all) ==
  /\ DOMAIN all = 1 .. Len(all) /\ Len(all) \in Nat
  /\ \A i \in DOMAIN all :
       /\ all[i][1] \in {"project", "scene", "shot", "look", "request"}
       /\ all[i][1] = "look" => ~ask.inherited
       /\ all[i][1] = "request" => ~ask.inherited /\ i = Len(all)
  /\ ~ask.inherited => Len(all) > 0 /\ all[Len(all)] = <<"request", ask.inputs>>

LastOf(all, n) == Max({i \in DOMAIN all : n \in all[i][2]})

LEMMA IsSeq ==
  ASSUME NEW f, NEW k \in Nat, NEW V, f = [i \in 1 .. k |-> f[i]], Range(f) \subseteq V
  PROVE  f \in Seq(V) /\ Len(f) = k
BY DEF Range

LEMMA LayeredParts ==
  ASSUME ask \in Requests
  PROVE  \E all :
           /\ LayersFit(all)
           /\ Layered = {[name |-> n, from |-> all[LastOf(all, n)][1]] : n \in UNION {all[i][2] : i \in DOMAIN all}}
<1> DEFINE below == [i \in DOMAIN Below |-> <<<<"project", "scene", "shot">>[i], Below[i].inputs>>]
           prompts == [i \in DOMAIN Prompts_ |-> <<<<"scene", "shot">>[i], Prompts_[i].inputs>>]
           looks == [i \in DOMAIN Looks |-> <<"look", Defaults[Looks[i]].inputs>>]
           given == IF ask.inherited THEN <<>> ELSE <<<<"request", ask.inputs>>>>
           V == Range(below) \cup Range(prompts) \cup Range(looks) \cup Range(given)
           all == below \o prompts \o looks \o given
           ab == below \o prompts
           abc == ab \o looks
<1>1. /\ DOMAIN below = 1 .. 3
      /\ \A i \in 1 .. 3 : below[i][1] \in {"project", "scene", "shot"}
  <2>1. DOMAIN Below = 1 .. 3
    BY DEF Below
  <2> QED BY <2>1
<1>2. /\ \E k \in {0, 2} : DOMAIN prompts = 1 .. k
      /\ \A i \in DOMAIN prompts : prompts[i][1] \in {"scene", "shot"}
  <2>1. DOMAIN Prompts_ = {} \/ DOMAIN Prompts_ = 1 .. 2
    BY DEF Prompts_
  <2> QED BY <2>1
<1>3. /\ \E k \in Nat : DOMAIN looks = 1 .. k
      /\ \A i \in DOMAIN looks : looks[i][1] = "look"
      /\ ask.inherited => DOMAIN looks = {}
  <2>1. Len(ask.looks) \in Nat /\ DOMAIN ask.looks = 1 .. Len(ask.looks)
    BY SubmissionAssumption
  <2>2. DOMAIN Looks = IF ask.inherited THEN {} ELSE 1 .. Len(ask.looks)
    BY <2>1 DEF Looks
  <2>3. 1 .. 0 = {} /\ 0 \in Nat
    OBVIOUS
  <2> QED BY <2>1, <2>2, <2>3
<1>4. /\ ask.inherited => given = <<>>
      /\ ~ask.inherited => given = <<<<"request", ask.inputs>>>>
  OBVIOUS
<1>5. Range(below) \subseteq V /\ Range(prompts) \subseteq V /\ Range(looks) \subseteq V /\ Range(given) \subseteq V
  OBVIOUS
<1>6. /\ \A k \in Nat : DOMAIN below = 1 .. k => below = [i \in 1 .. k |-> below[i]]
      /\ \A k \in Nat : DOMAIN prompts = 1 .. k => prompts = [i \in 1 .. k |-> prompts[i]]
      /\ \A k \in Nat : DOMAIN looks = 1 .. k => looks = [i \in 1 .. k |-> looks[i]]
  OBVIOUS
<1> HIDE DEF below, prompts, looks, V
<1>7. below \in Seq(V) /\ Len(below) = 3 /\ DOMAIN below = 1 .. Len(below)
  BY <1>1, <1>5, <1>6, IsSeq
<1>8. prompts \in Seq(V) /\ Len(prompts) \in Nat /\ DOMAIN prompts = 1 .. Len(prompts)
  <2>1. PICK k \in Nat : DOMAIN prompts = 1 .. k
    BY <1>2
  <2> QED BY <2>1, <1>5, <1>6, IsSeq
<1>9. looks \in Seq(V) /\ Len(looks) \in Nat /\ DOMAIN looks = 1 .. Len(looks)
  <2>1. PICK k \in Nat : DOMAIN looks = 1 .. k
    BY <1>3
  <2> QED BY <2>1, <1>5, <1>6, IsSeq
<1>10. given \in Seq(V) /\ Len(given) = IF ask.inherited THEN 0 ELSE 1
  <2>1. CASE ask.inherited
    BY <1>4, <2>1
  <2>2. CASE ~ask.inherited
    <3> DEFINE x == <<"request", ask.inputs>>
    <3>1. given = <<x>>
      BY <1>4, <2>2
    <3> HIDE DEF x
    <3>2. x \in V
      BY <3>1, <1>5 DEF Range
    <3> QED BY <3>1, <3>2, <2>2
  <2> QED BY <2>1, <2>2
<1>11. ab = below \o prompts /\ abc = ab \o looks /\ all = abc \o given
  OBVIOUS
<1> HIDE DEF given, all, abc, ab
<1>12. /\ ab \in Seq(V) /\ Len(ab) = Len(below) + Len(prompts)
       /\ \A i \in 1 .. Len(below) : ab[i] = below[i]
       /\ \A i \in Len(below) + 1 .. Len(ab) : ab[i] = prompts[i - Len(below)]
  <2>1. below \in Seq(V) /\ prompts \in Seq(V) /\ ab = below \o prompts
    BY <1>7, <1>8, <1>11
  <2> QED BY <2>1, JoinedPlaces
<1>13. /\ abc \in Seq(V) /\ Len(abc) = Len(ab) + Len(looks)
       /\ \A i \in 1 .. Len(ab) : abc[i] = ab[i]
       /\ \A i \in Len(ab) + 1 .. Len(abc) : abc[i] = looks[i - Len(ab)]
  BY <1>9, <1>12, <1>11, JoinedPlaces
<1>14. /\ all \in Seq(V) /\ Len(all) = Len(abc) + Len(given) /\ DOMAIN all = 1 .. Len(all)
       /\ \A i \in 1 .. Len(abc) : all[i] = abc[i]
       /\ \A i \in Len(abc) + 1 .. Len(all) : all[i] = given[i - Len(abc)]
  <2>1. abc \in Seq(V) /\ given \in Seq(V) /\ all = abc \o given
    BY <1>10, <1>13, <1>11
  <2> QED BY <2>1, JoinedPlaces
<1>15. \A i \in 1 .. Len(ab) : ab[i][1] \in {"project", "scene", "shot"}
  <2> TAKE i \in 1 .. Len(ab)
  <2>1. CASE i <= Len(below)
    BY <1>1, <1>7, <1>12, <2>1
  <2>2. CASE i > Len(below)
    <3>1. i - Len(below) \in DOMAIN prompts
      BY <1>7, <1>8, <1>12, <2>2
    <3>2. ab[i] = prompts[i - Len(below)]
      BY <1>7, <1>8, <1>12, <2>2
    <3> QED BY <1>2, <3>1, <3>2
  <2> QED BY <1>7, <2>1, <2>2
<1>16. /\ Len(abc) \in Nat /\ Len(ab) \in Nat
       /\ \A i \in 1 .. Len(abc) :
            /\ abc[i][1] \in {"project", "scene", "shot", "look"}
            /\ abc[i][1] = "look" => ~ask.inherited
  <2>1. Len(abc) \in Nat /\ Len(ab) \in Nat
    BY <1>7, <1>8, <1>9, <1>12, <1>13
  <2>2. ASSUME NEW i \in 1 .. Len(abc)
        PROVE  abc[i][1] \in {"project", "scene", "shot", "look"} /\ (abc[i][1] = "look" => ~ask.inherited)
    <3>1. CASE i <= Len(ab)
      <4>1. abc[i] = ab[i] /\ ab[i][1] \in {"project", "scene", "shot"}
        BY <1>13, <1>15, <2>1, <3>1
      <4> QED BY <4>1
    <3>2. CASE i > Len(ab)
      <4>1. i - Len(ab) \in DOMAIN looks
        BY <1>9, <1>13, <2>1, <3>2
      <4>2. abc[i] = looks[i - Len(ab)]
        BY <1>9, <1>13, <2>1, <3>2
      <4> QED BY <1>3, <4>1, <4>2
    <3> QED BY <2>1, <3>1, <3>2
  <2> QED BY <2>1, <2>2
<1>17. ~ask.inherited => Len(all) > 0 /\ all[Len(all)] = <<"request", ask.inputs>>
  <2> SUFFICES ASSUME ~ask.inherited PROVE Len(all) > 0 /\ all[Len(all)] = <<"request", ask.inputs>>
    OBVIOUS
  <2>1. Len(given) = 1 /\ given[1] = <<"request", ask.inputs>>
    BY <1>4
  <2>2. Len(all) = Len(abc) + 1 /\ Len(all) - Len(abc) = 1 /\ Len(all) \in Len(abc) + 1 .. Len(all)
    BY <1>14, <1>16, <2>1
  <2> QED BY <1>14, <1>16, <2>1, <2>2
<1>18. ASSUME NEW i \in DOMAIN all
       PROVE  /\ all[i][1] \in {"project", "scene", "shot", "look", "request"}
              /\ all[i][1] = "look" => ~ask.inherited
              /\ all[i][1] = "request" => ~ask.inherited /\ i = Len(all)
  <2>1. CASE i <= Len(abc)
    <3>1. all[i] = abc[i] /\ i \in 1 .. Len(abc)
      BY <1>14, <1>16, <2>1
    <3> QED BY <1>16, <3>1
  <2>2. CASE i > Len(abc)
    <3>1. ~ask.inherited /\ i = Len(all)
      BY <1>10, <1>14, <1>16, <2>2
    <3>2. all[i][1] = "request"
      BY <1>17, <3>1
    <3> QED BY <3>1, <3>2
  <2> QED BY <1>14, <1>16, <2>1, <2>2
<1>19. LayersFit(all)
  <2>1. DOMAIN all = 1 .. Len(all) /\ Len(all) \in Nat
    BY <1>14
  <2> QED BY <2>1, <1>17, <1>18 DEF LayersFit
<1>20. Layered = {[name |-> n, from |-> all[LastOf(all, n)][1]] : n \in UNION {all[i][2] : i \in DOMAIN all}}
  BY DEF Layered, LastOf, all, abc, ab, below, prompts, looks, given
<1> QED BY <1>19, <1>20

\* An input comes from one layer; the request's own come from it alone.
LEMMA LayersAreTaken ==
  ASSUME ask \in Requests
  PROVE  /\ \A i, j \in Layered : i.name = j.name => i = j
         /\ \A i \in Layered : i.from \in {"request", "look"} => ~ask.inherited
         /\ ~ask.inherited => {i.name : i \in {x \in Layered : x.from = "request"}} = ask.inputs
<1>1. PICK all : /\ LayersFit(all)
                 /\ Layered = {[name |-> n, from |-> all[LastOf(all, n)][1]] : n \in UNION {all[i][2] : i \in DOMAIN all}}
  BY LayeredParts
<1>2. ASSUME NEW n \in UNION {all[i][2] : i \in DOMAIN all}
      PROVE  /\ LastOf(all, n) \in DOMAIN all /\ n \in all[LastOf(all, n)][2]
             /\ \A i \in DOMAIN all : n \in all[i][2] => i <= LastOf(all, n)
  <2> DEFINE S == {i \in DOMAIN all : n \in all[i][2]}
  <2>1. S \subseteq 1 .. Len(all) /\ S # {} /\ Len(all) \in Nat
    BY <1>1 DEF LayersFit
  <2>2. Max(S) \in S /\ \A i \in S : i <= Max(S)
    BY <2>1, LargestIndex
  <2> QED BY <2>2 DEF LastOf
<1>3. \A i \in Layered : i.from \in {"request", "look"} => ~ask.inherited
  BY <1>1, <1>2 DEF LayersFit
<1>4. \A i, j \in Layered : i.name = j.name => i = j
  BY <1>1
<1>5. ASSUME ~ask.inherited PROVE {i.name : i \in {x \in Layered : x.from = "request"}} = ask.inputs
  <2>1. Len(all) \in DOMAIN all /\ all[Len(all)] = <<"request", ask.inputs>> /\ \A i \in DOMAIN all : i <= Len(all)
    BY <1>1, <1>5 DEF LayersFit
  <2>2. ASSUME NEW x \in Layered, x.from = "request" PROVE x.name \in ask.inputs
    <3>1. PICK n \in UNION {all[i][2] : i \in DOMAIN all} : x = [name |-> n, from |-> all[LastOf(all, n)][1]]
      BY <1>1
    <3>2. LastOf(all, n) = Len(all) /\ n \in all[LastOf(all, n)][2] /\ x.name = n
      BY <1>1, <1>2, <2>2, <3>1 DEF LayersFit
    <3> QED BY <2>1, <3>2
  <2>3. ASSUME NEW n \in ask.inputs PROVE \E x \in Layered : x.from = "request" /\ x.name = n
    <3>1. n \in UNION {all[i][2] : i \in DOMAIN all} /\ n \in all[Len(all)][2]
      BY <2>1
    <3>2. LastOf(all, n) = Len(all)
      <4>1. LastOf(all, n) \in Nat /\ Len(all) \in Nat /\ LastOf(all, n) <= Len(all) /\ Len(all) <= LastOf(all, n)
        BY <1>1, <1>2, <2>1, <3>1 DEF LayersFit
      <4> QED BY <4>1
    <3>3. [name |-> n, from |-> all[LastOf(all, n)][1]] \in Layered
      BY <1>1, <3>1
    <3>4. all[LastOf(all, n)][1] = "request"
      BY <2>1, <3>2
    <3> QED BY <3>3, <3>4
  <2> QED BY <2>2, <2>3
<1> QED BY <1>3, <1>4, <1>5

-----------------------------------------------------------------------------
(* The inductive invariant: what is known at each step of a request.       *)

ReadFields == {"synced", "voice", "scene", "shot", "cached", "stage", "recipe", "inputs", "voices", "own", "refs", "picked"}
WorldFields == {"edition", "up", "synced", "project", "rows", "voice", "body", "files"}

\* Steps by how far a request has come.
Committing == {"commit", "reload", "answered", "unreadable", "stopped"}
Kept == {"write"} \cup Committing
BeforeLinks == {"project", "links", "origin", "refused"}
BeforeShot == BeforeLinks \cup {"scene", "shot"}
Planned == {"canons", "models", "show"} \cup Kept
Voiced == {"plan"} \cup Planned
Chosen == {"voice"} \cup Voiced

\* New requests and derived ones go different ways.
StepFits ==
  /\ step \in BeforeShot \cup {"selected", "compare", "defaults"} \cup Chosen
  /\ ask.op \in Derived => step \notin {"project", "links", "defaults", "voice", "plan", "canons", "models", "show"}
  /\ ask.op \notin Derived => step \notin {"origin", "selected", "compare"}
  /\ step = "compare" => ask.op = "replay"
  /\ step = "show" => ask.op = "preview"
  /\ ask.op = "preview" => step \notin {"write", "commit", "reload", "unreadable", "stopped"}

SubmissionTyped ==
  /\ ask \in Requests /\ DOMAIN read = ReadFields /\ DOMAIN world = WorldFields
  /\ world.rows \subseteq DOMAIN OwnerOf /\ world.edition \in {1, 2} /\ world.synced \in {0, 1, 2} /\ read.synced \in {0, 1, 2}
  /\ disk \subseteq {"snapshot", "reference"}

\* The snapshot is there from just before the commit on, and the Job from then on.
SnapshotFits ==
  /\ "snapshot" \in disk => step \in Committing
  /\ step \in {"commit", "reload"} => "snapshot" \in disk
  /\ made # {} => step \in Committing \ {"commit"} /\ "snapshot" \in disk
  /\ step \in {"reload", "unreadable"} => made # {}
  /\ step = "answered" /\ made = {} => "snapshot" \notin disk
  /\ ask.op = "preview" => disk = {} /\ made = {}

\* Once the links were validated they agree among themselves, whatever is deleted.
LinksOfAskAgree ==
  /\ ask.costume # Absent => ask.character = OwnerOf[ask.costume]
  /\ ask.line # Absent => Stage = OwnerOf[ask.line]
  /\ Cardinality(Owners) <= 1

LinksFit ==
  step \notin BeforeLinks =>
    IF ask.op \in Derived THEN read.stage = ask.stage ELSE LinksOfAskAgree /\ read.stage = Stage

\* What was read of the references, from editions that exist.
ReadFits ==
  /\ step \notin BeforeLinks \cup {"scene"} /\ ask.scene # Absent => read.scene \in {1, 2}
  /\ step \notin BeforeShot /\ ask.shot # Absent => read.shot \in {1, 2}
  /\ step \notin BeforeShot /\ ask.shot # Absent /\ "shot" \notin read.cached => ShotsIn[read.shot][ask.shot] = ask.scene
  /\ \A x, y \in read.picked : x.what = y.what => x = y
  /\ \A x \in read.picked : x.what \notin {ask.scene, ask.shot} \ {Absent}

\* A replay was compared before it goes on.
CompareFits == ask.op = "replay" /\ step \in Kept => WasRecorded \subseteq Compared

Speaks == ask.kind = "voice" /\ ask.op \notin Derived

VoicesFit ==
  /\ Speaks /\ step \in Voiced =>
       /\ read.own = OwnVoiceFor
       /\ read.voices = [s \in DOMAIN Voices |->
                           IF s \in OwnVoiceFor THEN [Voices[s] EXCEPT !.reference = TRUE] ELSE Voices[s]]
       /\ read.own # {} /\ ask.op # "preview" => "reference" \in disk
  /\ Speaks /\ step \in Planned => SpeechFits

InputsFit ==
  /\ ask.op \notin Derived /\ step \in Chosen => read.recipe = RecipeChosen /\ read.inputs = Layered
  /\ ask.op \notin Derived /\ step \in {"show"} \cup Kept => {i.name : i \in read.inputs} \subseteq Recipes[read.recipe].inputs

\* The Job is what was read; its links are rows that are there.
JobFits ==
  \A m \in made :
    /\ DOMAIN m = {"links", "refs", "voices", "inputs", "body"}
    /\ m.refs = Recorded /\ m.voices = read.voices /\ m.inputs = read.inputs
    /\ m.body = IF ask.op \in Derived THEN "recorded" ELSE "new"
    /\ DOMAIN m.links = Links /\ \A link \in Links : m.links[link] \in world.rows \cup {Absent}
    /\ (ask.op \in Derived => Belong(ask)) => Belong(m.links)

SubmissionInv ==
  /\ SubmissionTyped /\ StepFits /\ SnapshotFits /\ LinksFit /\ ReadFits
  /\ CompareFits /\ VoicesFit /\ InputsFit /\ JobFits

-----------------------------------------------------------------------------
(* What follows from the request alone, and from what was read.            *)

LEMMA AtMostOne ==
  ASSUME NEW S, IsFiniteSet(S), Cardinality(S) <= 1
  PROVE  \A x, y \in S : x = y
<1> SUFFICES ASSUME NEW x \in S, NEW y \in S, x # y PROVE FALSE
  OBVIOUS
<1>1. Cardinality(S) \in Nat
  BY FS_CardinalityType
<1>2. Cardinality(S) # 0
  BY FS_EmptySet
<1>3. Cardinality(S) # 1
  BY FS_Singleton
<1> QED BY <1>1, <1>2, <1>3

LEMMA OwnersAreFew == IsFiniteSet(Owners)
<1> DEFINE one == {ask.project}
           two == one \cup {OwnerOf[ask.character]}
           all == two \cup {OwnerOf[Stage]}
<1>1. IsFiniteSet(all)
  <2>1. IsFiniteSet(one)
    BY FS_Singleton
  <2>2. IsFiniteSet(two)
    BY <2>1, FS_AddElement
  <2> QED BY <2>2, FS_AddElement
<1>2. Owners \subseteq all
  BY DEF Owners
<1> QED BY <1>1, <1>2, FS_Subset

\* The links a Job is committed with belong together when those of the request did.
LEMMA LinksOfJobBelong ==
  ASSUME SubmissionInv, step = "commit", NEW l, l = [link \in Links |-> Linked(link)],
         \A link \in Links : Linked(link) \in world.rows \cup {Absent}, ask.op \in Derived => Belong(ask)
  PROVE  Belong(l)
<1>1. /\ l.character = ask.character /\ l.costume = ask.costume /\ l.line = ask.line /\ l.stage = read.stage
      /\ \A link \in Links : l[link] \in DOMAIN OwnerOf \cup {Absent}
  BY DEF Linked, Links, SubmissionInv, SubmissionTyped
<1>2. CASE ask.op \in Derived
  <2>1. l.stage = ask.stage
    BY <1>1, <1>2 DEF SubmissionInv, LinksFit, BeforeLinks
  <2> QED BY <1>1, <1>2, <2>1 DEF Belong
<1>3. CASE ask.op \notin Derived
  <2>1. LinksOfAskAgree /\ l.stage = Stage
    BY <1>1, <1>3 DEF SubmissionInv, LinksFit, BeforeLinks
  <2>2. \A x, y \in Owners : x = y
    BY <2>1, AtMostOne, OwnersAreFew DEF LinksOfAskAgree
  <2>3. ask.project # Absent => ask.project \in Owners
    BY DEF Owners
  <2>4. \A link \in {"character", "stage"} : l[link] # Absent => OwnerOf[l[link]] \in Owners
    <3>1. SUFFICES ASSUME NEW link \in {"character", "stage"}, l[link] # Absent PROVE OwnerOf[l[link]] \in Owners
      OBVIOUS
    <3>2. l[link] \in DOMAIN OwnerOf
      BY <1>1, <3>1 DEF Links
    <3>3. OwnerOf[l[link]] # Absent
      BY <3>2, SubmissionAssumption
    <3>4. l[link] \in {ask.character, Stage} \ {Absent}
      BY <1>1, <2>1, <3>1
    <3> QED BY <3>3, <3>4 DEF Owners
  <2>5. l.character # Absent => OwnerOf[l.character] \in Owners
    BY <2>4
  <2>6. l.stage # Absent => OwnerOf[l.stage] \in Owners
    BY <2>4
  <2>7. (l.costume # Absent => l.character = OwnerOf[l.costume]) /\ (l.line # Absent => l.stage = OwnerOf[l.line])
    BY <1>1, <2>1 DEF LinksOfAskAgree
  <2> QED BY <2>2, <2>3, <2>4, <2>5, <2>6, <2>7 DEF Belong
<1> QED BY <1>2, <1>3

\* Rows go with the rows they belong to, so that what is left belongs together.
LEMMA LinksStayTogether ==
  ASSUME NEW l, NEW n, NEW row \in DOMAIN OwnerOf, Belong(l),
         \A link \in Links : l[link] \in DOMAIN OwnerOf \cup {Absent},
         \A link \in Links : n[link] = IF l[link] \in RowsGone(row) THEN Absent ELSE l[link]
  PROVE  Belong(n)
<1>1. ASSUME NEW x \in DOMAIN OwnerOf, OwnerOf[x] \in DOMAIN OwnerOf, OwnerOf[x] \in RowsGone(row)
      PROVE  x \in RowsGone(row)
  <2>1. OwnerOf[OwnerOf[x]] \notin DOMAIN OwnerOf
    BY <1>1, SubmissionAssumption
  <2> QED BY <1>1, <2>1 DEF RowsGone
<1>2. \A x \in DOMAIN OwnerOf : OwnerOf[x] # Absent
  BY SubmissionAssumption
<1>3. Absent \notin DOMAIN OwnerOf /\ Absent \notin RowsGone(row)
  BY SubmissionAssumption DEF RowsGone
<1>4. \A link \in Links : n[link] # Absent => n[link] = l[link] /\ l[link] \in DOMAIN OwnerOf \ RowsGone(row)
  OBVIOUS
<1>5. /\ l.costume \in DOMAIN OwnerOf \cup {Absent} /\ l.character \in DOMAIN OwnerOf \cup {Absent}
      /\ l.line \in DOMAIN OwnerOf \cup {Absent} /\ l.stage \in DOMAIN OwnerOf \cup {Absent}
      /\ n.costume = IF l.costume \in RowsGone(row) THEN Absent ELSE l.costume
      /\ n.character = IF l.character \in RowsGone(row) THEN Absent ELSE l.character
      /\ n.line = IF l.line \in RowsGone(row) THEN Absent ELSE l.line
      /\ n.stage = IF l.stage \in RowsGone(row) THEN Absent ELSE l.stage
  BY DEF Links
<1>6. n.costume # Absent => n.character = OwnerOf[n.costume]
  <2>1. SUFFICES ASSUME n.costume # Absent PROVE n.character = OwnerOf[n.costume]
    OBVIOUS
  <2>2. n.costume = l.costume /\ l.costume \in DOMAIN OwnerOf \ RowsGone(row) /\ l.character = OwnerOf[l.costume]
    BY <1>5, <2>1 DEF Belong
  <2>3. l.character \in DOMAIN OwnerOf \ RowsGone(row)
    BY <1>1, <1>2, <1>5, <2>2
  <2> QED BY <1>5, <2>2, <2>3
<1>7. n.line # Absent => n.stage = OwnerOf[n.line]
  <2>1. SUFFICES ASSUME n.line # Absent PROVE n.stage = OwnerOf[n.line]
    OBVIOUS
  <2>2. n.line = l.line /\ l.line \in DOMAIN OwnerOf \ RowsGone(row) /\ l.stage = OwnerOf[l.line]
    BY <1>5, <2>1 DEF Belong
  <2>3. l.stage \in DOMAIN OwnerOf \ RowsGone(row)
    BY <1>1, <1>2, <1>5, <2>2
  <2> QED BY <1>5, <2>2, <2>3
<1>8. n.character # Absent /\ n.stage # Absent => OwnerOf[n.character] = OwnerOf[n.stage]
  BY <1>5 DEF Belong
<1>9. ask.project # Absent => \A link \in {"character", "stage"} : n[link] # Absent => OwnerOf[n[link]] = ask.project
  BY <1>4 DEF Belong, Links
<1> QED BY <1>6, <1>7, <1>8, <1>9 DEF Belong

\* Nothing is named twice.
Single(refs) == \A x, y \in refs : x.what = y.what => x = y

LEMMA FirstOnlySingle ==
  ASSUME NEW A, NEW B, Single(A), Single(B)
  PROVE  Single(FirstOnly(A, B))
BY DEF Single, FirstOnly

LEMMA ResolvedSingle ==
  ASSUME SubmissionInv, step \notin BeforeShot
  PROVE  /\ Single(Resolved)
         /\ \A r \in Resolved : r.rev \in {read.scene, read.shot}
         /\ \A r \in Resolved : r.what \in {ask.scene, ask.shot} \ {Absent} =>
              r.rev = IF r.what = ask.scene THEN read.scene ELSE read.shot
<1> DEFINE own == {ask.scene, ask.shot} \ {Absent}
           a == Declared(ask.scene, read.scene)
           b == Declared(ask.shot, read.shot)
           c == {Ref(w, IF w = ask.scene THEN read.scene ELSE read.shot) : w \in own}
<1>1. Resolved = FirstOnly(a, b) \cup c
  BY DEF Resolved
<1>2. /\ ask.scene # Absent => read.scene \in Editions
      /\ ask.shot # Absent => read.shot \in Editions
  BY SubmissionAssumption DEF SubmissionInv, ReadFits, BeforeShot
<1>3. /\ \A e \in Editions : \A x \in own : CanonsOf[e][x] \cap own = {}
      /\ ask.scene = ask.shot => ask.scene = Absent
  BY SubmissionAssumption DEF SubmissionInv, SubmissionTyped
<1>4. \A x \in a : x.rev = read.scene /\ x.what \notin own
  BY <1>2, <1>3 DEF Declared, Ref
<1>5. \A x \in b : x.rev = read.shot /\ x.what \notin own
  BY <1>2, <1>3 DEF Declared, Ref
<1>6. Single(a)
  BY DEF Single, Declared, Ref
<1>7. Single(b)
  BY DEF Single, Declared, Ref
<1>8. Single(FirstOnly(a, b))
  BY <1>6, <1>7, FirstOnlySingle
<1>9. FirstOnly(a, b) \subseteq a \cup b
  BY DEF FirstOnly
<1>10. \A x \in c : x.what \in own /\ x.rev = IF x.what = ask.scene THEN read.scene ELSE read.shot
  BY DEF Ref
<1>11. Single(c)
  BY DEF Single, Ref
<1> HIDE DEF a, b, c, own
<1>12. Single(Resolved)
  BY <1>1, <1>4, <1>5, <1>8, <1>9, <1>10, <1>11 DEF Single
<1>13. \A r \in Resolved : r.rev \in {read.scene, read.shot}
  BY <1>1, <1>4, <1>5, <1>9, <1>10
<1>14. \A r \in Resolved : r.what \in own => r.rev = IF r.what = ask.scene THEN read.scene ELSE read.shot
  BY <1>1, <1>4, <1>5, <1>9, <1>10
<1> QED BY <1>12, <1>13, <1>14 DEF own

-----------------------------------------------------------------------------
(* What a step leaves alone.                                               *)

\* Of the request itself.
LEMMA OfTheRequest ==
  ASSUME ask' = ask
  PROVE  /\ Stage' = Stage /\ LinksOfAskAgree' = LinksOfAskAgree /\ WasRecorded' = WasRecorded
         /\ RecipeChosen' = RecipeChosen /\ Layered' = Layered /\ Speaks' = Speaks
BY DEF Stage, LinksOfAskAgree, Owners, WasRecorded, RecipeChosen, Layered, Below, Prompts_, Looks, Layer, Speaks

\* Of the references that were read.
LEMMA OfReferences ==
  ASSUME ask' = ask, read'.scene = read.scene, read'.shot = read.shot
  PROVE  /\ Resolved' = Resolved /\ Script' = Script /\ Voices' = Voices /\ OwnVoiceFor' = OwnVoiceFor
         /\ read'.picked = read.picked => Current' = Current /\ Compared' = Compared
<1>1. Resolved' = Resolved
  BY DEF Resolved
<1>2. Script' = Script
  BY DEF Script
<1>3. Voices' = Voices
  BY <1>2 DEF Voices
<1>4. OwnVoiceFor' = OwnVoiceFor
  BY <1>3 DEF OwnVoiceFor, Wanting
<1> QED BY <1>1, <1>2, <1>3, <1>4 DEF Current, Compared

LEMMA KeepLinks ==
  ASSUME SubmissionInv, ask' = ask, step' \in BeforeLinks \/ (step \notin BeforeLinks /\ read'.stage = read.stage)
  PROVE  LinksFit'
BY OfTheRequest DEF SubmissionInv, LinksFit

LEMMA KeepReads ==
  ASSUME SubmissionInv, ask' = ask, read'.scene = read.scene, read'.shot = read.shot, read'.cached = read.cached,
         read'.picked = read.picked,
         step' \in BeforeLinks \cup {"scene"} \/ (step \notin BeforeLinks \cup {"scene"} /\ step' = "shot")
           \/ step \notin BeforeShot
  PROVE  ReadFits'
BY DEF SubmissionInv, ReadFits, BeforeShot

LEMMA KeepCompare ==
  ASSUME SubmissionInv, ask' = ask,
         \/ ask.op # "replay" \/ step' \notin Kept
         \/ step \in Kept /\ read'.scene = read.scene /\ read'.shot = read.shot /\ read'.picked = read.picked
  PROVE  CompareFits'
BY OfTheRequest, OfReferences DEF SubmissionInv, CompareFits

LEMMA KeepVoices ==
  ASSUME SubmissionInv, ask' = ask,
         \/ ~Speaks \/ step' \notin Voiced
         \/ /\ step \in Voiced /\ (step' \in Planned => step \in Planned)
            /\ read'.scene = read.scene /\ read'.shot = read.shot /\ read'.own = read.own /\ read'.voices = read.voices
            /\ "reference" \in disk => "reference" \in disk'
  PROVE  VoicesFit'
<1>1. CASE ~Speaks \/ step' \notin Voiced
  BY <1>1, OfTheRequest DEF VoicesFit, Voiced
<1>2. CASE /\ step \in Voiced /\ (step' \in Planned => step \in Planned)
           /\ read'.scene = read.scene /\ read'.shot = read.shot /\ read'.own = read.own /\ read'.voices = read.voices
           /\ "reference" \in disk => "reference" \in disk'
  <2>1. Speaks' = Speaks /\ OwnVoiceFor' = OwnVoiceFor /\ Voices' = Voices /\ Script' = Script
    BY <1>2, OfTheRequest, OfReferences
  <2>2. SpeechFits' = SpeechFits
    BY <1>2, <2>1 DEF SpeechFits, BindingFits
  <2> QED BY <1>2, <2>1, <2>2 DEF SubmissionInv, VoicesFit
<1> QED BY <1>1, <1>2

LEMMA KeepInputs ==
  ASSUME SubmissionInv, ask' = ask,
         \/ ask.op \in Derived \/ step' \notin Chosen
         \/ /\ step \in Chosen /\ (step' \in {"show"} \cup Kept => step \in {"show"} \cup Kept)
            /\ read'.recipe = read.recipe /\ read'.inputs = read.inputs
  PROVE  InputsFit'
<1>1. CASE ask.op \in Derived \/ step' \notin Chosen
  BY <1>1 DEF InputsFit, Chosen, Voiced, Planned
<1>2. CASE /\ step \in Chosen /\ (step' \in {"show"} \cup Kept => step \in {"show"} \cup Kept)
           /\ read'.recipe = read.recipe /\ read'.inputs = read.inputs
  BY <1>2, OfTheRequest DEF SubmissionInv, InputsFit
<1> QED BY <1>1, <1>2

LEMMA KeepJob ==
  ASSUME SubmissionInv, ask' = ask, made' = made, world'.rows = world.rows,
         read'.scene = read.scene, read'.shot = read.shot, read'.picked = read.picked, read'.voices = read.voices,
         read'.inputs = read.inputs
  PROVE  JobFits'
<1>1. Recorded' = Recorded
  BY OfTheRequest, OfReferences DEF Recorded
<1>2. \A l : Belong(l)' = Belong(l)
  BY DEF Belong
<1>3. Belong(ask)' = Belong(ask)
  BY DEF Belong
<1> QED BY <1>1, <1>2, <1>3 DEF SubmissionInv, JobFits

LEMMA NoJob ==
  ASSUME made' = {}
  PROVE  JobFits'
BY DEF JobFits

\* Before a Job is made a request may end; the snapshot goes with the answer.
LEMMA RefusingKeeps ==
  ASSUME SubmissionInv, made = {}, Refuse
  PROVE  SubmissionInv'
<1>1. ask' = ask /\ made' = made /\ world' = world /\ step' = "refused" /\ read' = read /\ disk' = disk \ {"snapshot"}
  BY DEF Refuse, Goes, Discarded
<1>2. SubmissionTyped' /\ StepFits' /\ SnapshotFits'
  BY <1>1 DEF SubmissionInv, SubmissionTyped, StepFits, SnapshotFits, BeforeShot, BeforeLinks, Committing
<1>3. LinksFit' /\ CompareFits' /\ VoicesFit' /\ InputsFit'
  BY <1>1, KeepLinks, KeepCompare, KeepVoices, KeepInputs
     DEF BeforeLinks, Kept, Committing, Voiced, Planned, Chosen
<1>4. ReadFits' /\ JobFits'
  BY <1>1, KeepReads, NoJob DEF BeforeLinks
<1> QED BY <1>2, <1>3, <1>4 DEF SubmissionInv

\* A step that only reads, before a snapshot is written.
LEMMA ReadingKeeps ==
  ASSUME SubmissionInv, made = {}, step \notin Committing, NEW next, NEW r, Reads(next, r),
         DOMAIN r = ReadFields, r.synced \in {0, 1, 2}, next \notin {"commit", "reload", "unreadable", "stopped"},
         next = "answered" => ask.op = "preview", StepFits', LinksFit', ReadFits', CompareFits', VoicesFit', InputsFit'
  PROVE  SubmissionInv'
<1>1. ask' = ask /\ made' = made /\ world' = world /\ step' = next /\ read' = r /\ disk' = disk
  BY DEF Reads, Goes
<1>2. SubmissionTyped' /\ SnapshotFits'
  BY <1>1 DEF SubmissionInv, SubmissionTyped, SnapshotFits, Committing
<1>3. JobFits'
  BY <1>1, NoJob
<1> QED BY <1>2, <1>3 DEF SubmissionInv

\* No Job is there before the commit.
LEMMA NoJobYet ==
  ASSUME SubmissionInv, step \notin Committing \ {"commit"}
  PROVE  made = {}
BY DEF SubmissionInv, SnapshotFits

LEMMA CheckProjectKeeps == SubmissionInv /\ CheckProject => SubmissionInv'
<1> SUFFICES ASSUME SubmissionInv, CheckProject PROVE SubmissionInv'
  OBVIOUS
<1> DEFINE r == [read EXCEPT !.synced = world.synced]
<1>1. made = {} /\ step = "project"
  BY NoJobYet DEF CheckProject, Committing
<1>2. CASE Reads("links", r)
  <2>1. /\ DOMAIN r = ReadFields /\ r.synced = world.synced /\ r.scene = read.scene /\ r.shot = read.shot
        /\ r.cached = read.cached /\ r.picked = read.picked
    BY DEF SubmissionInv, SubmissionTyped, ReadFields
  <2>2. ask' = ask /\ step' = "links" /\ read' = r
    BY <1>2 DEF Reads, Goes
  <2> HIDE DEF r
  <2>3. StepFits'
    BY <1>1, <2>2 DEF SubmissionInv, StepFits, BeforeShot, BeforeLinks
  <2>4. LinksFit' /\ ReadFits' /\ CompareFits' /\ VoicesFit' /\ InputsFit'
    BY <1>1, <2>1, <2>2, KeepLinks, KeepReads, KeepCompare, KeepVoices, KeepInputs
       DEF BeforeLinks, BeforeShot, Kept, Committing, Voiced, Planned, Chosen
  <2> QED BY <1>1, <1>2, <2>1, <2>2, <2>3, <2>4, ReadingKeeps DEF Committing, SubmissionInv, SubmissionTyped
<1>3. CASE Refuse
  BY <1>1, <1>3, RefusingKeeps
<1> QED BY <1>2, <1>3 DEF CheckProject

LEMMA CheckLinksKeeps == SubmissionInv /\ CheckLinks => SubmissionInv'
<1> SUFFICES ASSUME SubmissionInv, CheckLinks PROVE SubmissionInv'
  OBVIOUS
<1> DEFINE r == [read EXCEPT !.stage = Stage, !.voice = world.voice]
<1>1. made = {} /\ step = "links"
  BY NoJobYet DEF CheckLinks, Committing
<1>2. CASE LinksAgree /\ Reads("scene", r)
  <2>1. /\ DOMAIN r = ReadFields /\ r.synced = read.synced /\ r.scene = read.scene /\ r.shot = read.shot
        /\ r.cached = read.cached /\ r.picked = read.picked /\ r.stage = Stage
    BY DEF SubmissionInv, SubmissionTyped, ReadFields
  <2>2. ask' = ask /\ step' = "scene" /\ read' = r
    BY <1>2 DEF Reads, Goes
  <2> HIDE DEF r
  <2>3. StepFits'
    BY <1>1, <2>2 DEF SubmissionInv, StepFits, BeforeShot, BeforeLinks
  <2>4. ask.op \notin Derived
    BY <1>1 DEF SubmissionInv, StepFits
  <2>5. LinksOfAskAgree
    BY <1>2 DEF LinksAgree, LinksOfAskAgree
  <2>6. LinksFit'
    BY <2>1, <2>2, <2>4, <2>5, OfTheRequest DEF LinksFit
  <2>7. ReadFits' /\ CompareFits' /\ VoicesFit' /\ InputsFit'
    BY <1>1, <2>1, <2>2, KeepReads, KeepCompare, KeepVoices, KeepInputs
       DEF BeforeLinks, BeforeShot, Kept, Committing, Voiced, Planned, Chosen
  <2> QED BY <1>1, <1>2, <2>1, <2>2, <2>3, <2>6, <2>7, ReadingKeeps DEF Committing, SubmissionInv, SubmissionTyped
<1>3. CASE Refuse
  BY <1>1, <1>3, RefusingKeeps
<1> QED BY <1>2, <1>3 DEF CheckLinks

LEMMA ReadSceneKeeps == SubmissionInv /\ ReadScene => SubmissionInv'
<1> SUFFICES ASSUME SubmissionInv, ReadScene PROVE SubmissionInv'
  OBVIOUS
<1> DEFINE r == [read EXCEPT !.scene = SceneNow, !.cached = Noted("scene")]
<1>1. made = {} /\ step = "scene"
  BY NoJobYet DEF ReadScene, Committing
<1>2. \/ ask.scene = Absent /\ Reads("shot", read)
      \/ ask.scene # Absent /\ SceneNow # 0 /\ Reads("shot", r)
      \/ Refuse
  BY DEF ReadScene
<1>3. ASSUME NEW q \in {read, r}, Reads("shot", q), ask.scene # Absent => q.scene \in {1, 2} PROVE SubmissionInv'
  <2>1. /\ DOMAIN q = ReadFields /\ q.synced = read.synced /\ q.picked = read.picked /\ q.stage = read.stage
    BY DEF SubmissionInv, SubmissionTyped, ReadFields
  <2>2. ask' = ask /\ step' = "shot" /\ read' = q
    BY <1>3 DEF Reads, Goes
  <2>3. StepFits'
    BY <1>1, <2>2 DEF SubmissionInv, StepFits, BeforeShot, BeforeLinks
  <2>4. ReadFits'
    BY <1>3, <2>1, <2>2 DEF SubmissionInv, ReadFits, BeforeShot
  <2>5. LinksFit' /\ CompareFits' /\ VoicesFit' /\ InputsFit'
    BY <1>1, <2>1, <2>2, KeepLinks, KeepCompare, KeepVoices, KeepInputs
       DEF BeforeLinks, BeforeShot, Kept, Committing, Voiced, Planned, Chosen
  <2> QED BY <1>1, <1>3, <2>1, <2>2, <2>3, <2>4, <2>5, ReadingKeeps DEF Committing, SubmissionInv, SubmissionTyped
<1>4. CASE ask.scene # Absent /\ SceneNow # 0 /\ Reads("shot", r)
  <2>1. r.scene = SceneNow
    BY DEF SubmissionInv, SubmissionTyped, ReadFields
  <2>2. SceneNow \in {1, 2}
    BY <1>4 DEF SceneNow, SubmissionInv, SubmissionTyped
  <2> HIDE DEF r
  <2> QED BY <1>3, <1>4, <2>1, <2>2
<1>5. CASE ask.scene = Absent /\ Reads("shot", read)
  BY <1>3, <1>5
<1>6. CASE Refuse
  BY <1>1, <1>6, RefusingKeeps
<1> QED BY <1>2, <1>4, <1>5, <1>6

LEMMA ReadShotKeeps == SubmissionInv /\ ReadShot => SubmissionInv'
<1> SUFFICES ASSUME SubmissionInv, ReadShot PROVE SubmissionInv'
  OBVIOUS
<1> DEFINE r == [read EXCEPT !.shot = SceneNow, !.cached = Noted("shot")]
<1>1. made = {} /\ step = "shot"
  BY NoJobYet DEF ReadShot, Committing
<1>2. \/ ask.shot = Absent /\ Reads(Continue, read)
      \/ ask.shot # Absent /\ ShotFound(SceneNow) /\ Reads(Continue, r)
      \/ Refuse
  BY DEF ReadShot
<1>3. ASSUME NEW q \in {read, r}, Reads(Continue, q),
             ask.shot # Absent => q.shot \in {1, 2} /\ ("shot" \notin q.cached => ShotsIn[q.shot][ask.shot] = ask.scene)
      PROVE  SubmissionInv'
  <2>1. /\ DOMAIN q = ReadFields /\ q.synced = read.synced /\ q.picked = read.picked /\ q.stage = read.stage
        /\ q.scene = read.scene
    BY DEF SubmissionInv, SubmissionTyped, ReadFields
  <2>2. ask' = ask /\ step' = Continue /\ read' = q
    BY <1>3 DEF Reads, Goes
  <2>3. /\ ask.op \in Derived => Continue = "selected"
        /\ ask.op \notin Derived => Continue = "defaults"
    BY DEF Continue
  <2>4. StepFits'
    BY <1>1, <2>2, <2>3 DEF SubmissionInv, StepFits, BeforeShot, BeforeLinks
  <2>5. ReadFits'
    BY <1>1, <1>3, <2>1, <2>2 DEF SubmissionInv, ReadFits, BeforeShot, BeforeLinks
  <2>6. LinksFit' /\ CompareFits' /\ VoicesFit' /\ InputsFit'
    BY <1>1, <2>1, <2>2, <2>3, KeepLinks, KeepCompare, KeepVoices, KeepInputs
       DEF BeforeLinks, BeforeShot, Kept, Committing, Voiced, Planned, Chosen
  <2> QED BY <1>1, <1>3, <2>1, <2>2, <2>3, <2>4, <2>5, <2>6, ReadingKeeps DEF Committing, SubmissionInv, SubmissionTyped
<1>4. CASE ask.shot # Absent /\ ShotFound(SceneNow) /\ Reads(Continue, r)
  <2>1. r.shot = SceneNow /\ r.cached = Noted("shot")
    BY DEF SubmissionInv, SubmissionTyped, ReadFields
  <2>2. SceneNow \in {0, 1, 2}
    BY DEF SceneNow, SubmissionInv, SubmissionTyped
  <2>3. SceneNow \in Editions /\ (FromCache \/ ShotsIn[SceneNow][ask.shot] = ask.scene)
    BY <1>4 DEF ShotFound
  <2>4. SceneNow # 0
    BY <2>3, SubmissionAssumption
  <2>5. FromCache => "shot" \in Noted("shot")
    BY DEF Noted
  <2> HIDE DEF r
  <2> QED BY <1>3, <1>4, <2>1, <2>2, <2>3, <2>4, <2>5
<1>5. CASE ask.shot = Absent /\ Reads(Continue, read)
  BY <1>3, <1>5
<1>6. CASE Refuse
  BY <1>1, <1>6, RefusingKeeps
<1> QED BY <1>2, <1>4, <1>5, <1>6

LEMMA ChooseDefaultsKeeps == SubmissionInv /\ ChooseDefaults => SubmissionInv'
<1> SUFFICES ASSUME SubmissionInv, ChooseDefaults PROVE SubmissionInv'
  OBVIOUS
<1> DEFINE r == [read EXCEPT !.recipe = RecipeChosen, !.inputs = Layered]
<1>1. made = {} /\ step = "defaults"
  BY NoJobYet DEF ChooseDefaults, Committing
<1>2. CASE Reads("voice", r)
  <2>1. /\ DOMAIN r = ReadFields /\ r.synced = read.synced /\ r.scene = read.scene /\ r.shot = read.shot
        /\ r.cached = read.cached /\ r.picked = read.picked /\ r.stage = read.stage
        /\ r.recipe = RecipeChosen /\ r.inputs = Layered
    BY DEF SubmissionInv, SubmissionTyped, ReadFields
  <2>2. ask' = ask /\ step' = "voice" /\ read' = r
    BY <1>2 DEF Reads, Goes
  <2> HIDE DEF r
  <2>3. StepFits' /\ ask.op \notin Derived
    BY <1>1, <2>2 DEF SubmissionInv, StepFits, BeforeShot, BeforeLinks, Chosen
  <2>4. LinksFit' /\ ReadFits' /\ CompareFits' /\ VoicesFit'
    BY <1>1, <2>1, <2>2, KeepLinks, KeepReads, KeepCompare, KeepVoices
       DEF BeforeLinks, BeforeShot, Kept, Committing, Voiced, Planned
  <2>5. InputsFit'
    BY <2>1, <2>2, OfTheRequest DEF InputsFit, Kept, Committing
  <2> QED BY <1>1, <1>2, <2>1, <2>2, <2>3, <2>4, <2>5, ReadingKeeps DEF Committing, SubmissionInv, SubmissionTyped
<1>3. CASE Refuse
  BY <1>1, <1>3, RefusingKeeps
<1> QED BY <1>2, <1>3 DEF ChooseDefaults

\* The only step before the snapshot that may write a file.
LEMMA ResolveVoiceKeeps == SubmissionInv /\ ResolveVoice => SubmissionInv'
<1> SUFFICES ASSUME SubmissionInv, ResolveVoice PROVE SubmissionInv'
  OBVIOUS
<1> DEFINE bound == [s \in DOMAIN Voices |->
                       IF s \in OwnVoiceFor THEN [Voices[s] EXCEPT !.reference = TRUE] ELSE Voices[s]]
           r == [read EXCEPT !.own = OwnVoiceFor, !.voices = bound]
<1>1. made = {} /\ step = "voice" /\ ask.op \notin Derived
  BY NoJobYet DEF ResolveVoice, Committing, SubmissionInv, StepFits
<1>2. CASE ask.kind # "voice" /\ Reads("models", read)
  <2>1. ask' = ask /\ step' = "models" /\ read' = read /\ ~Speaks
    BY <1>2 DEF Reads, Goes, Speaks
  <2>2. StepFits'
    BY <1>1, <2>1 DEF SubmissionInv, StepFits, BeforeShot, BeforeLinks, Chosen, Voiced, Planned
  <2>3. LinksFit' /\ ReadFits' /\ CompareFits' /\ VoicesFit' /\ InputsFit'
    BY <1>1, <2>1, KeepLinks, KeepReads, KeepCompare, KeepVoices, KeepInputs
       DEF BeforeLinks, BeforeShot, Kept, Committing, Voiced, Planned, Chosen
  <2> QED BY <1>1, <1>2, <2>1, <2>2, <2>3, ReadingKeeps DEF Committing, SubmissionInv, SubmissionTyped
<1>3. CASE Refuse
  BY <1>1, <1>3, RefusingKeeps
<1>4. CASE /\ ask.kind = "voice" /\ Goes("plan") /\ read' = r
           /\ disk' = IF OwnVoiceFor # {} /\ ask.op # "preview" THEN disk \cup {"reference"} ELSE disk
  <2>1. /\ DOMAIN r = ReadFields /\ r.synced = read.synced /\ r.scene = read.scene /\ r.shot = read.shot
        /\ r.cached = read.cached /\ r.picked = read.picked /\ r.stage = read.stage
        /\ r.recipe = read.recipe /\ r.inputs = read.inputs /\ r.own = OwnVoiceFor /\ r.voices = bound
    BY DEF SubmissionInv, SubmissionTyped, ReadFields
  <2>2. ask' = ask /\ step' = "plan" /\ read' = r /\ world' = world /\ made' = made
    BY <1>4 DEF Goes
  <2>3. bound' = bound /\ OwnVoiceFor' = OwnVoiceFor
    BY <2>1, <2>2, OfReferences
  <2> HIDE DEF r, bound
  <2>4. SubmissionTyped' /\ StepFits' /\ SnapshotFits'
    BY <1>1, <1>4, <2>1, <2>2
       DEF SubmissionInv, SubmissionTyped, StepFits, SnapshotFits, BeforeShot, BeforeLinks, Chosen, Voiced, Committing
  <2>5. LinksFit' /\ ReadFits' /\ CompareFits' /\ InputsFit' /\ JobFits'
    BY <1>1, <2>1, <2>2, KeepLinks, KeepReads, KeepCompare, KeepInputs, NoJob
       DEF BeforeLinks, BeforeShot, Kept, Committing, Voiced, Planned, Chosen
  <2>6. VoicesFit'
    <3>1. read'.own = OwnVoiceFor' /\ read'.voices = bound'
      BY <2>1, <2>2, <2>3
    <3>2. read'.own # {} /\ ask'.op # "preview" => "reference" \in disk'
      BY <1>4, <2>1, <2>2
    <3>3. step' \notin Planned
      BY <2>2 DEF Planned, Kept, Committing
    <3> QED BY <3>1, <3>2, <3>3 DEF VoicesFit, bound
  <2> QED BY <2>4, <2>5, <2>6 DEF SubmissionInv
<1> QED BY <1>2, <1>3, <1>4 DEF ResolveVoice

LEMMA PlanSpeechKeeps == SubmissionInv /\ PlanSpeech => SubmissionInv'
<1> SUFFICES ASSUME SubmissionInv, PlanSpeech PROVE SubmissionInv'
  OBVIOUS
<1>1. made = {} /\ step = "plan" /\ ask.op \notin Derived
  BY NoJobYet DEF PlanSpeech, Committing, SubmissionInv, StepFits
<1>2. CASE SpeechFits /\ Reads("canons", read)
  <2>1. ask' = ask /\ step' = "canons" /\ read' = read /\ disk' = disk
    BY <1>2 DEF Reads, Goes
  <2>2. StepFits'
    BY <1>1, <2>1 DEF SubmissionInv, StepFits, BeforeShot, BeforeLinks, Chosen, Voiced, Planned
  <2>3. LinksFit' /\ ReadFits' /\ CompareFits' /\ InputsFit'
    BY <1>1, <2>1, KeepLinks, KeepReads, KeepCompare, KeepInputs
       DEF BeforeLinks, BeforeShot, Kept, Committing, Voiced, Planned, Chosen
  <2>4. VoicesFit'
    <3>1. Speaks' = Speaks /\ OwnVoiceFor' = OwnVoiceFor /\ Voices' = Voices /\ Script' = Script
      BY <2>1, OfTheRequest, OfReferences
    <3>2. SpeechFits'
      BY <1>2, <2>1, <3>1 DEF SpeechFits, BindingFits
    <3>3. step \in Voiced
      BY <1>1 DEF Voiced
    <3> QED BY <2>1, <3>1, <3>2, <3>3 DEF SubmissionInv, VoicesFit
  <2> QED BY <1>1, <1>2, <2>1, <2>2, <2>3, <2>4, ReadingKeeps DEF Committing, SubmissionInv, SubmissionTyped
<1>3. CASE Refuse
  BY <1>1, <1>3, RefusingKeeps
<1> QED BY <1>2, <1>3 DEF PlanSpeech

LEMMA ReadCanonsKeeps == SubmissionInv /\ ReadCanons => SubmissionInv'
<1> SUFFICES ASSUME SubmissionInv, ReadCanons PROVE SubmissionInv'
  OBVIOUS
<1> DEFINE canons == {s \in DOMAIN read.voices : read.voices[s].canon}
           found == {Ref("voice canon", world.edition) : s \in canons}
           r == [read EXCEPT !.picked = found]
<1>1. made = {} /\ step = "canons" /\ ask.op \notin Derived
  BY NoJobYet DEF ReadCanons, Committing, SubmissionInv, StepFits
<1>2. CASE Reads("models", r)
  <2>1. /\ DOMAIN r = ReadFields /\ r.synced = read.synced /\ r.scene = read.scene /\ r.shot = read.shot
        /\ r.cached = read.cached /\ r.picked = found /\ r.stage = read.stage
        /\ r.recipe = read.recipe /\ r.inputs = read.inputs /\ r.own = read.own /\ r.voices = read.voices
    BY DEF SubmissionInv, SubmissionTyped, ReadFields
  <2>2. ask' = ask /\ step' = "models" /\ read' = r /\ disk' = disk
    BY <1>2 DEF Reads, Goes
  <2>3. \A x, y \in found : x = y /\ x.what = "voice canon"
    <3>1. \A x \in found : x = Ref("voice canon", world.edition)
      OBVIOUS
    <3>2. Ref("voice canon", world.edition).what = "voice canon"
      BY DEF Ref
    <3> HIDE DEF found
    <3> QED BY <3>1, <3>2
  <2>4. "voice canon" \notin {ask.scene, ask.shot} \ {Absent}
    BY SubmissionAssumption DEF SubmissionInv, SubmissionTyped
  <2> HIDE DEF r, found
  <2>5. StepFits'
    BY <1>1, <2>2 DEF SubmissionInv, StepFits, BeforeShot, BeforeLinks, Chosen, Voiced, Planned
  <2>6. ReadFits'
    <3>1. read'.picked = found /\ read'.scene = read.scene /\ read'.shot = read.shot /\ read'.cached = read.cached
      BY <2>1, <2>2
    <3>2. step \notin BeforeShot /\ step \notin BeforeLinks \cup {"scene"}
      BY <1>1 DEF BeforeShot, BeforeLinks
    <3> QED BY <2>2, <2>3, <2>4, <3>1, <3>2 DEF SubmissionInv, ReadFits
  <2>7. LinksFit' /\ CompareFits' /\ VoicesFit' /\ InputsFit'
    BY <1>1, <2>1, <2>2, KeepLinks, KeepCompare, KeepVoices, KeepInputs
       DEF BeforeLinks, BeforeShot, Kept, Committing, Voiced, Planned, Chosen
  <2> QED BY <1>1, <1>2, <2>1, <2>2, <2>5, <2>6, <2>7, ReadingKeeps DEF Committing, SubmissionInv, SubmissionTyped
<1>3. CASE Refuse
  BY <1>1, <1>3, RefusingKeeps
<1> QED BY <1>2, <1>3 DEF ReadCanons

LEMMA CheckModelsKeeps == SubmissionInv /\ CheckModels => SubmissionInv'
<1> SUFFICES ASSUME SubmissionInv, CheckModels PROVE SubmissionInv'
  OBVIOUS
<1> DEFINE next == IF ask.op = "preview" THEN "show" ELSE "write"
           named == {i.name : i \in read.inputs}
<1>1. made = {} /\ step = "models" /\ ask.op \notin Derived
  BY NoJobYet DEF CheckModels, Committing, SubmissionInv, StepFits
<1>2. CASE named \subseteq Recipes[read.recipe].inputs /\ Reads(next, read)
  <2>1. ask' = ask /\ step' = next /\ read' = read /\ disk' = disk
    BY <1>2 DEF Reads, Goes
  <2>2. next \in {"show", "write"} /\ (next = "show" <=> ask.op = "preview")
    OBVIOUS
  <2> HIDE DEF next
  <2>3. StepFits'
    BY <1>1, <2>1, <2>2 DEF SubmissionInv, StepFits, BeforeShot, BeforeLinks, Chosen, Voiced, Planned, Kept
  <2>4. ask.op # "replay"
    BY <1>1 DEF Derived
  <2>5. LinksFit' /\ ReadFits' /\ CompareFits' /\ VoicesFit'
    BY <1>1, <2>1, <2>2, <2>4, KeepLinks, KeepReads, KeepCompare, KeepVoices
       DEF BeforeLinks, BeforeShot, Kept, Committing, Voiced, Planned, Chosen
  <2>6. InputsFit'
    <3>1. read.recipe = RecipeChosen /\ read.inputs = Layered
      BY <1>1 DEF SubmissionInv, InputsFit, Chosen, Voiced, Planned
    <3> QED BY <1>2, <2>1, <3>1, OfTheRequest DEF InputsFit
  <2>7. next # "answered" /\ next \notin {"commit", "reload", "unreadable", "stopped"}
    BY <2>2
  <2>8. Reads(next, read)
    BY <1>2
  <2> QED BY <1>1, <2>1, <2>3, <2>5, <2>6, <2>7, <2>8, ReadingKeeps DEF Committing, SubmissionInv, SubmissionTyped
<1>3. CASE Refuse
  BY <1>1, <1>3, RefusingKeeps
<1> QED BY <1>2, <1>3 DEF CheckModels

LEMMA AnswerPreviewKeeps == SubmissionInv /\ AnswerPreview => SubmissionInv'
<1> SUFFICES ASSUME SubmissionInv, AnswerPreview PROVE SubmissionInv'
  OBVIOUS
<1>1. made = {} /\ step = "show" /\ ask.op = "preview"
  BY NoJobYet DEF AnswerPreview, Committing, SubmissionInv, StepFits
<1>2. CASE Reads("answered", read)
  <2>1. ask' = ask /\ step' = "answered" /\ read' = read /\ disk' = disk
    BY <1>2 DEF Reads, Goes
  <2>2. StepFits'
    BY <1>1, <2>1
       DEF SubmissionInv, StepFits, BeforeShot, BeforeLinks, Chosen, Voiced, Planned, Kept, Committing, Derived
  <2>3. LinksFit' /\ ReadFits' /\ CompareFits' /\ VoicesFit' /\ InputsFit'
    BY <1>1, <2>1, KeepLinks, KeepReads, KeepCompare, KeepVoices, KeepInputs
       DEF BeforeLinks, BeforeShot, Kept, Committing, Voiced, Planned, Chosen
  <2> QED BY <1>1, <1>2, <2>1, <2>2, <2>3, ReadingKeeps DEF Committing, SubmissionInv, SubmissionTyped
<1>3. CASE Refuse
  BY <1>1, <1>3, RefusingKeeps
<1> QED BY <1>2, <1>3 DEF AnswerPreview

LEMMA ReadOriginKeeps == SubmissionInv /\ ReadOrigin => SubmissionInv'
<1> SUFFICES ASSUME SubmissionInv, ReadOrigin PROVE SubmissionInv'
  OBVIOUS
<1> DEFINE r == [read EXCEPT !.synced = world.synced, !.stage = ask.stage]
<1>1. made = {} /\ step = "origin" /\ ask.op \in Derived
  BY NoJobYet DEF ReadOrigin, Committing, SubmissionInv, StepFits
<1>2. CASE Reads("scene", r)
  <2>1. /\ DOMAIN r = ReadFields /\ r.synced = world.synced /\ r.scene = read.scene /\ r.shot = read.shot
        /\ r.cached = read.cached /\ r.picked = read.picked /\ r.stage = ask.stage
    BY DEF SubmissionInv, SubmissionTyped, ReadFields
  <2>2. ask' = ask /\ step' = "scene" /\ read' = r
    BY <1>2 DEF Reads, Goes
  <2> HIDE DEF r
  <2>3. StepFits'
    BY <1>1, <2>2 DEF SubmissionInv, StepFits, BeforeShot, BeforeLinks
  <2>4. LinksFit'
    BY <1>1, <2>1, <2>2 DEF LinksFit
  <2>5. ReadFits' /\ CompareFits' /\ VoicesFit' /\ InputsFit'
    BY <1>1, <2>1, <2>2, KeepReads, KeepCompare, KeepVoices, KeepInputs
       DEF BeforeLinks, BeforeShot, Kept, Committing, Voiced, Planned, Chosen
  <2> QED BY <1>1, <1>2, <2>1, <2>2, <2>3, <2>4, <2>5, ReadingKeeps DEF Committing, SubmissionInv, SubmissionTyped
<1>3. CASE Refuse
  BY <1>1, <1>3, RefusingKeeps
<1> QED BY <1>2, <1>3 DEF ReadOrigin

LEMMA ReadSelectedKeeps == SubmissionInv /\ ReadSelected => SubmissionInv'
<1> SUFFICES ASSUME SubmissionInv, ReadSelected PROVE SubmissionInv'
  OBVIOUS
<1> DEFINE chosen == IF ask.project \in External THEN ask.recorded.picked ELSE {}
           found == IF SceneNow = RecordedIn THEN chosen ELSE {}
           kept == {Ref(c, RecordedIn) : c \in found}
           r == [read EXCEPT !.picked = kept]
           next == IF ask.op = "replay" THEN "compare" ELSE "write"
<1>1. made = {} /\ step = "selected" /\ ask.op \in Derived
  BY NoJobYet DEF ReadSelected, Committing, SubmissionInv, StepFits
<1>2. CASE Reads(next, r)
  <2>1. /\ DOMAIN r = ReadFields /\ r.synced = read.synced /\ r.scene = read.scene /\ r.shot = read.shot
        /\ r.cached = read.cached /\ r.picked = kept /\ r.stage = read.stage
    BY DEF SubmissionInv, SubmissionTyped, ReadFields
  <2>2. ask' = ask /\ step' = next /\ read' = r
    BY <1>2 DEF Reads, Goes
  <2>3. next \in {"compare", "write"} /\ (next = "compare" <=> ask.op = "replay")
    OBVIOUS
  <2>4. /\ \A x \in kept : x.what \in ask.recorded.picked
        /\ \A x, y \in kept : x.what = y.what => x = y
    BY DEF Ref
  <2>5. ({ask.scene, ask.shot} \ {Absent}) \cap ask.recorded.picked = {}
    BY SubmissionAssumption DEF SubmissionInv, SubmissionTyped
  <2>6. Reads(next, r)
    BY <1>2
  <2> HIDE DEF r, kept, next
  <2>7. StepFits'
    BY <1>1, <2>2, <2>3 DEF SubmissionInv, StepFits, BeforeShot, BeforeLinks, Chosen, Voiced, Planned, Kept, Derived
  <2>8. ReadFits'
    <3>1. read'.picked = kept /\ read'.scene = read.scene /\ read'.shot = read.shot /\ read'.cached = read.cached
      BY <2>1, <2>2
    <3>2. step \notin BeforeShot /\ step \notin BeforeLinks \cup {"scene"}
      BY <1>1 DEF BeforeShot, BeforeLinks
    <3> QED BY <2>2, <2>4, <2>5, <3>1, <3>2 DEF SubmissionInv, ReadFits
  <2>9. CompareFits'
    BY <2>2, <2>3, KeepCompare DEF Kept, Committing
  <2>10. LinksFit' /\ VoicesFit' /\ InputsFit'
    BY <1>1, <2>1, <2>2, KeepLinks, KeepVoices, KeepInputs DEF BeforeLinks, Speaks
  <2>11. next # "answered" /\ next \notin {"commit", "reload", "unreadable", "stopped"}
    BY <2>3
  <2> QED BY <1>1, <2>1, <2>2, <2>6, <2>7, <2>8, <2>9, <2>10, <2>11, ReadingKeeps
          DEF Committing, SubmissionInv, SubmissionTyped
<1>3. CASE Refuse
  BY <1>1, <1>3, RefusingKeeps
<1> QED BY <1>2, <1>3 DEF ReadSelected

LEMMA CompareKeeps == SubmissionInv /\ Compare => SubmissionInv'
<1> SUFFICES ASSUME SubmissionInv, Compare PROVE SubmissionInv'
  OBVIOUS
<1>1. made = {} /\ step = "compare" /\ ask.op = "replay" /\ ask.op \in Derived
  BY NoJobYet DEF Compare, Committing, SubmissionInv, StepFits, Derived
<1>2. CASE Reproducible /\ Reads("write", read)
  <2>1. ask' = ask /\ step' = "write" /\ read' = read
    BY <1>2 DEF Reads, Goes
  <2>2. StepFits'
    BY <1>1, <2>1 DEF SubmissionInv, StepFits, BeforeShot, BeforeLinks, Chosen, Voiced, Planned, Kept
  <2>3. CompareFits'
    BY <1>2, <2>1, OfTheRequest, OfReferences DEF CompareFits, Reproducible
  <2>4. LinksFit' /\ ReadFits' /\ VoicesFit' /\ InputsFit'
    BY <1>1, <2>1, KeepLinks, KeepReads, KeepVoices, KeepInputs DEF BeforeLinks, BeforeShot, Speaks
  <2> QED BY <1>1, <1>2, <2>1, <2>2, <2>3, <2>4, ReadingKeeps DEF Committing, SubmissionInv, SubmissionTyped
<1>3. CASE Refuse
  BY <1>1, <1>3, RefusingKeeps
<1> QED BY <1>2, <1>3 DEF Compare

LEMMA WriteSnapshotKeeps == SubmissionInv /\ WriteSnapshot => SubmissionInv'
<1> SUFFICES ASSUME SubmissionInv, WriteSnapshot PROVE SubmissionInv'
  OBVIOUS
<1>1. made = {} /\ step = "write" /\ ask.op # "preview"
  BY NoJobYet DEF WriteSnapshot, Committing, SubmissionInv, StepFits
<1>2. CASE Goes("commit") /\ disk' = disk \cup {"snapshot"} /\ UNCHANGED read
  <2>1. /\ ask' = ask /\ step' = "commit" /\ read' = read /\ world' = world /\ made' = {}
        /\ disk' = disk \cup {"snapshot"}
    BY <1>1, <1>2 DEF Goes
  <2>2. SubmissionTyped' /\ StepFits' /\ SnapshotFits'
    BY <1>1, <2>1
       DEF SubmissionInv, SubmissionTyped, StepFits, SnapshotFits, BeforeShot, BeforeLinks, Chosen, Voiced, Planned, Kept,
           Committing
  <2>3. LinksFit' /\ ReadFits' /\ CompareFits' /\ VoicesFit' /\ InputsFit'
    BY <1>1, <2>1, KeepLinks, KeepReads, KeepCompare, KeepVoices, KeepInputs
       DEF BeforeLinks, BeforeShot, Kept, Committing, Voiced, Planned, Chosen
  <2> QED BY <2>1, <2>2, <2>3, NoJob DEF SubmissionInv
<1>3. CASE Refuse
  BY <1>1, <1>3, RefusingKeeps
<1> QED BY <1>2, <1>3 DEF WriteSnapshot

\* A Job is made of what was read, with the rows that are there.
LEMMA CommitKeeps == SubmissionInv /\ Commit => SubmissionInv'
<1> SUFFICES ASSUME SubmissionInv, Commit PROVE SubmissionInv'
  OBVIOUS
<1> DEFINE l == [link \in Links |-> Linked(link)]
           m == [links |-> l, refs |-> Recorded, voices |-> read.voices, inputs |-> read.inputs,
                 body |-> IF ask.op \in Derived THEN "recorded" ELSE "new"]
<1>1. /\ step = "commit" /\ step' = "reload" /\ made' = {m}
      /\ ask' = ask /\ read' = read /\ disk' = disk /\ world' = world
      /\ \A link \in Links : Linked(link) \in world.rows \cup {Absent}
  BY DEF Commit
<1>2. "snapshot" \in disk /\ ask.op # "preview"
  BY <1>1 DEF SubmissionInv, SnapshotFits, StepFits
<1>3. ask.op \in Derived => step \notin Voiced \cap {"plan", "canons", "models", "show"}
  BY <1>1
<1>4. SubmissionTyped' /\ StepFits' /\ SnapshotFits'
  BY <1>1, <1>2
     DEF SubmissionInv, SubmissionTyped, StepFits, SnapshotFits, BeforeShot, BeforeLinks, Chosen, Voiced, Planned, Kept,
         Committing
<1>5. LinksFit' /\ ReadFits' /\ CompareFits' /\ VoicesFit' /\ InputsFit'
  BY <1>1, KeepLinks, KeepReads, KeepCompare, KeepVoices, KeepInputs
     DEF BeforeLinks, BeforeShot, Kept, Committing, Voiced, Planned, Chosen
<1>6. JobFits'
  <2>1. Recorded' = Recorded
    BY <1>1, OfTheRequest, OfReferences DEF Recorded
  <2>2. /\ DOMAIN m = {"links", "refs", "voices", "inputs", "body"} /\ m.links = l
        /\ m.refs = Recorded /\ m.voices = read.voices /\ m.inputs = read.inputs
        /\ m.body = IF ask.op \in Derived THEN "recorded" ELSE "new"
    OBVIOUS
  <2>3. DOMAIN l = Links /\ \A link \in Links : l[link] \in world.rows \cup {Absent}
    BY <1>1
  <2>4. (ask.op \in Derived => Belong(ask)) => Belong(l)
    BY <1>1, LinksOfJobBelong
  <2>5. (\A v : Belong(v)' = Belong(v)) /\ Belong(ask)' = Belong(ask)
    BY <1>1 DEF Belong
  <2> HIDE DEF l, m
  <2>6. SUFFICES ASSUME NEW n \in made'
        PROVE  /\ DOMAIN n = {"links", "refs", "voices", "inputs", "body"}
               /\ n.refs = Recorded' /\ n.voices = read'.voices /\ n.inputs = read'.inputs
               /\ n.body = IF ask'.op \in Derived THEN "recorded" ELSE "new"
               /\ DOMAIN n.links = Links /\ \A link \in Links : n.links[link] \in world'.rows \cup {Absent}
               /\ (ask'.op \in Derived => Belong(ask)') => Belong(n.links)'
    BY DEF JobFits
  <2>7. n = m
    BY <1>1, <2>6
  <2>8. (ask'.op \in Derived => Belong(ask)') => Belong(n.links)'
    BY <1>1, <2>2, <2>4, <2>5, <2>7
  <2> QED BY <1>1, <2>1, <2>2, <2>3, <2>7, <2>8
<1> QED BY <1>4, <1>5, <1>6 DEF SubmissionInv

LEMMA CommitFailsKeeps == SubmissionInv /\ CommitFails => SubmissionInv'
BY NoJobYet, RefusingKeeps DEF CommitFails

\* The end of a request, and of the process, after the Job or its snapshot.
LEMMA EndingKeeps ==
  ASSUME SubmissionInv, step \in {"commit", "reload"}, step' \in {"answered", "unreadable", "stopped"},
         step = "commit" => step' = "stopped", UNCHANGED <<ask, read, made, disk, world>>
  PROVE  SubmissionInv'
<1>1. SubmissionTyped' /\ StepFits' /\ SnapshotFits'
  BY DEF SubmissionInv, SubmissionTyped, StepFits, SnapshotFits, BeforeShot, BeforeLinks, Chosen, Voiced, Planned, Kept,
         Committing
<1>2. LinksFit' /\ ReadFits' /\ CompareFits' /\ VoicesFit' /\ InputsFit'
  BY KeepLinks, KeepReads, KeepCompare, KeepVoices, KeepInputs
     DEF BeforeLinks, BeforeShot, Kept, Committing, Voiced, Planned, Chosen
<1> QED BY <1>1, <1>2, KeepJob DEF SubmissionInv

LEMMA ReloadKeeps == SubmissionInv /\ Reload => SubmissionInv'
BY EndingKeeps DEF Reload, Goes

LEMMA StopKeeps == SubmissionInv /\ Stop_ => SubmissionInv'
BY EndingKeeps DEF Stop_, Goes

-----------------------------------------------------------------------------
(* What others do.                                                         *)

\* A request goes on with what it has read.
LEMMA OthersKeep ==
  ASSUME SubmissionInv, UNCHANGED <<ask, step, read, disk>>, SubmissionTyped',
         made = {} <=> made' = {}, JobFits'
  PROVE  SubmissionInv'
<1>1. StepFits' /\ SnapshotFits'
  BY DEF SubmissionInv, StepFits, SnapshotFits
<1>2. LinksFit'
  BY OfTheRequest DEF SubmissionInv, LinksFit
<1>3. ReadFits' /\ InputsFit' /\ CompareFits'
  BY OfTheRequest, OfReferences DEF SubmissionInv, ReadFits, InputsFit, CompareFits
<1>4. VoicesFit'
  <2>1. Speaks' = Speaks /\ OwnVoiceFor' = OwnVoiceFor /\ Voices' = Voices /\ Script' = Script
    BY OfTheRequest, OfReferences
  <2>2. SpeechFits' = SpeechFits
    BY <2>1 DEF SpeechFits, BindingFits
  <2> QED BY <2>1, <2>2 DEF SubmissionInv, VoicesFit
<1> QED BY <1>1, <1>2, <1>3, <1>4 DEF SubmissionInv

LEMMA ChangesKeep ==
  ASSUME SubmissionInv, NEW w, Changes(w), DOMAIN w = WorldFields, w.rows = world.rows, w.edition \in {1, 2},
         w.synced \in {0, 1, 2}
  PROVE  SubmissionInv'
<1>1. world' = w /\ ask' = ask /\ step' = step /\ read' = read /\ made' = made /\ disk' = disk
  BY DEF Changes
<1>2. SubmissionTyped'
  BY <1>1 DEF SubmissionInv, SubmissionTyped
<1>3. JobFits'
  BY <1>1, KeepJob
<1> QED BY <1>1, <1>2, <1>3, OthersKeep

LEMMA SourceMovesKeeps == SubmissionInv /\ SourceMoves => SubmissionInv'
<1> SUFFICES ASSUME SubmissionInv, SourceMoves PROVE SubmissionInv'
  OBVIOUS
<1>1. DOMAIN world = WorldFields /\ world.edition \in {1, 2} /\ world.synced \in {0, 1, 2}
  BY DEF SubmissionInv, SubmissionTyped
<1>2. CASE Changes([world EXCEPT !.edition = 2])
  <2> DEFINE w == [world EXCEPT !.edition = 2]
  <2>1. DOMAIN w = WorldFields /\ w.rows = world.rows /\ w.edition \in {1, 2} /\ w.synced \in {0, 1, 2}
    BY <1>1 DEF WorldFields
  <2> QED BY <1>2, <2>1, ChangesKeep
<1>3. CASE Changes([world EXCEPT !.up = ~@])
  <2> DEFINE w == [world EXCEPT !.up = ~@]
  <2>1. DOMAIN w = WorldFields /\ w.rows = world.rows /\ w.edition \in {1, 2} /\ w.synced \in {0, 1, 2}
    BY <1>1 DEF WorldFields
  <2> QED BY <1>3, <2>1, ChangesKeep
<1>4. CASE Changes([world EXCEPT !.synced = world.edition])
  <2> DEFINE w == [world EXCEPT !.synced = world.edition]
  <2>1. DOMAIN w = WorldFields /\ w.rows = world.rows /\ w.edition \in {1, 2} /\ w.synced \in {0, 1, 2}
    BY <1>1 DEF WorldFields
  <2> QED BY <1>4, <2>1, ChangesKeep
<1> QED BY <1>2, <1>3, <1>4 DEF SourceMoves

LEMMA ChangeVoiceKeeps == SubmissionInv /\ ChangeVoice => SubmissionInv'
<1> SUFFICES ASSUME SubmissionInv, ChangeVoice PROVE SubmissionInv'
  OBVIOUS
<1>1. PICK v : Changes([world EXCEPT !.voice = v])
  BY DEF ChangeVoice
<1> DEFINE w == [world EXCEPT !.voice = v]
<1>2. DOMAIN w = WorldFields /\ w.rows = world.rows /\ w.edition \in {1, 2} /\ w.synced \in {0, 1, 2}
  BY DEF SubmissionInv, SubmissionTyped, WorldFields
<1> QED BY <1>1, <1>2, ChangesKeep

LEMMA ChangeFilesKeeps == SubmissionInv /\ ChangeFiles => SubmissionInv'
<1> SUFFICES ASSUME SubmissionInv, ChangeFiles PROVE SubmissionInv'
  OBVIOUS
<1>1. CASE Changes([world EXCEPT !.body = "other"])
  <2> DEFINE w == [world EXCEPT !.body = "other"]
  <2>1. DOMAIN w = WorldFields /\ w.rows = world.rows /\ w.edition \in {1, 2} /\ w.synced \in {0, 1, 2}
    BY DEF SubmissionInv, SubmissionTyped, WorldFields
  <2> QED BY <1>1, <2>1, ChangesKeep
<1>2. ASSUME NEW f, Changes([world EXCEPT !.files = f]) PROVE SubmissionInv'
  <2> DEFINE w == [world EXCEPT !.files = f]
  <2>1. DOMAIN w = WorldFields /\ w.rows = world.rows /\ w.edition \in {1, 2} /\ w.synced \in {0, 1, 2}
    BY DEF SubmissionInv, SubmissionTyped, WorldFields
  <2> QED BY <1>2, <2>1, ChangesKeep
<1> QED BY <1>1, <1>2 DEF ChangeFiles

\* Links to rows that go become null.
LEMMA DeleteRowKeeps == SubmissionInv /\ DeleteRow => SubmissionInv'
<1> SUFFICES ASSUME SubmissionInv, DeleteRow PROVE SubmissionInv'
  OBVIOUS
<1> DEFINE left(m, row) == [link \in Links |-> IF m.links[link] \in RowsGone(row) THEN Absent ELSE m.links[link]]
<1>1. PICK row \in world.rows :
        /\ world' = [world EXCEPT !.rows = @ \ RowsGone(row)]
        /\ made' = {[m EXCEPT !.links = left(m, row)] : m \in made}
        /\ UNCHANGED <<ask, step, read, disk>>
  BY DEF DeleteRow
<1>2. /\ DOMAIN world' = WorldFields /\ world'.rows = world.rows \ RowsGone(row) /\ world'.edition = world.edition
      /\ world'.synced = world.synced /\ row \in DOMAIN OwnerOf
  BY <1>1 DEF SubmissionInv, SubmissionTyped, WorldFields
<1>3. SubmissionTyped'
  BY <1>1, <1>2 DEF SubmissionInv, SubmissionTyped
<1>4. made = {} <=> made' = {}
  BY <1>1
<1>5. JobFits'
  <2>1. SUFFICES ASSUME NEW n \in made'
        PROVE  /\ DOMAIN n = {"links", "refs", "voices", "inputs", "body"}
               /\ n.refs = Recorded' /\ n.voices = read'.voices /\ n.inputs = read'.inputs
               /\ n.body = IF ask'.op \in Derived THEN "recorded" ELSE "new"
               /\ DOMAIN n.links = Links /\ \A link \in Links : n.links[link] \in world'.rows \cup {Absent}
               /\ (ask'.op \in Derived => Belong(ask)') => Belong(n.links)'
    BY DEF JobFits
  <2>2. PICK m \in made : n = [m EXCEPT !.links = left(m, row)]
    BY <1>1
  <2>3. /\ DOMAIN m = {"links", "refs", "voices", "inputs", "body"}
        /\ m.refs = Recorded /\ m.voices = read.voices /\ m.inputs = read.inputs
        /\ m.body = IF ask.op \in Derived THEN "recorded" ELSE "new"
        /\ \A link \in Links : m.links[link] \in world.rows \cup {Absent}
        /\ (ask.op \in Derived => Belong(ask)) => Belong(m.links)
    BY DEF SubmissionInv, JobFits
  <2>4. DOMAIN n = DOMAIN m /\ n.links = left(m, row) /\ n.refs = m.refs /\ n.voices = m.voices /\ n.inputs = m.inputs
        /\ n.body = m.body
    BY <2>2, <2>3
  <2>5. DOMAIN n.links = Links
        /\ \A link \in Links : n.links[link] = IF m.links[link] \in RowsGone(row) THEN Absent ELSE m.links[link]
    BY <2>4
  <2>6. \A link \in Links : n.links[link] \in world'.rows \cup {Absent}
    BY <1>2, <2>3, <2>5
  <2>7. Recorded' = Recorded
    BY <1>1, OfTheRequest, OfReferences DEF Recorded
  <2>8. (\A v : Belong(v)' = Belong(v)) /\ Belong(ask)' = Belong(ask)
    BY <1>1 DEF Belong
  <2>9. ASSUME Belong(m.links) PROVE Belong(n.links)
    <3>1. \A link \in Links : m.links[link] \in DOMAIN OwnerOf \cup {Absent}
      BY <2>3 DEF SubmissionInv, SubmissionTyped
    <3> QED BY <1>2, <2>5, <2>9, <3>1, LinksStayTogether
  <2>10. (ask'.op \in Derived => Belong(ask)') => Belong(n.links)'
    BY <1>1, <2>3, <2>8, <2>9
  <2> QED BY <1>1, <2>3, <2>4, <2>5, <2>6, <2>7, <2>10
<1> QED BY <1>1, <1>3, <1>4, <1>5, OthersKeep

-----------------------------------------------------------------------------
(* The theorems.                                                           *)

LEMMA SubmissionInvInit == SubmissionInit => SubmissionInv
<1> SUFFICES ASSUME SubmissionInit PROVE SubmissionInv
  OBVIOUS
<1>1. /\ ask \in Requests /\ made = {} /\ disk = {} /\ read = Nothing_
      /\ step = IF ask.op \in Derived THEN "origin" ELSE "project"
  BY DEF SubmissionInit
<1>2. DOMAIN world = WorldFields /\ world.rows = DOMAIN OwnerOf /\ world.edition = 1 /\ world.synced \in {0, 1}
  BY DEF SubmissionInit, WorldFields
<1>3. DOMAIN read = ReadFields /\ read.synced = 0 /\ read.picked = {}
  BY <1>1 DEF Nothing_, ReadFields
<1>4. SubmissionTyped /\ StepFits /\ SnapshotFits
  BY <1>1, <1>2, <1>3 DEF SubmissionTyped, StepFits, SnapshotFits, BeforeShot, BeforeLinks, Committing
<1>5. LinksFit /\ ReadFits /\ JobFits
  BY <1>1, <1>3 DEF LinksFit, ReadFits, JobFits, BeforeShot, BeforeLinks
<1>6. step \notin Chosen
  BY <1>1 DEF Chosen, Voiced, Planned, Kept, Committing
<1>7. CompareFits /\ VoicesFit /\ InputsFit
  BY <1>6 DEF CompareFits, VoicesFit, InputsFit, Chosen, Voiced, Planned
<1> QED BY <1>4, <1>5, <1>7 DEF SubmissionInv

\* Whatever others do between its steps, a request is always where its invariant says:
\* what it has read is of editions that exist, its links agree, its snapshot is there
\* from the commit on and its Job is made of what it read.
THEOREM SubmissionInvariance == SubmissionSpec => []SubmissionInv
<1>1. SubmissionInv /\ [SubmissionNext]_submissionVars => SubmissionInv'
  <2> SUFFICES ASSUME SubmissionInv, [SubmissionNext]_submissionVars PROVE SubmissionInv'
    OBVIOUS
  <2>1. CASE Handle
    BY <2>1, CheckProjectKeeps, CheckLinksKeeps, ReadSceneKeeps, ReadShotKeeps, ChooseDefaultsKeeps, ResolveVoiceKeeps,
       PlanSpeechKeeps, ReadCanonsKeeps, CheckModelsKeeps, AnswerPreviewKeeps, ReadOriginKeeps, ReadSelectedKeeps,
       CompareKeeps, WriteSnapshotKeeps, CommitKeeps, CommitFailsKeeps, ReloadKeeps, StopKeeps DEF Handle
  <2>2. CASE SourceMoves \/ DeleteRow \/ ChangeVoice \/ ChangeFiles
    BY <2>2, SourceMovesKeeps, DeleteRowKeeps, ChangeVoiceKeeps, ChangeFilesKeeps
  <2>3. CASE UNCHANGED submissionVars
    <3>1. UNCHANGED <<ask, step, read, made, disk, world>>
      BY <2>3 DEF submissionVars
    <3>2. SubmissionTyped' /\ JobFits'
      BY <3>1, KeepJob DEF SubmissionInv, SubmissionTyped
    <3> QED BY <3>1, <3>2, OthersKeep
  <2> QED BY <2>1, <2>2, <2>3 DEF SubmissionNext
<1> QED BY <1>1, SubmissionInvInit, PTL DEF SubmissionSpec

\* What a Job there is says of the step.
LEMMA JobIsMade ==
  ASSUME SubmissionInv, NEW m \in made
  PROVE  /\ step \in Committing /\ step \in Kept /\ step \in Planned /\ step \in Voiced /\ step \in Chosen
         /\ step \notin BeforeShot /\ step \notin BeforeLinks
         /\ m.refs = Recorded /\ m.voices = read.voices /\ m.inputs = read.inputs
BY DEF SubmissionInv, SnapshotFits, JobFits, Committing, Kept, Planned, Voiced, Chosen, BeforeShot, BeforeLinks

LEMMA RecordSingle ==
  ASSUME SubmissionInv
  PROVE  Single(WasRecorded)
<1> DEFINE b == {Ref(c, RecordedIn) : c \in ask.recorded.picked}
<1>1. WasRecorded = ask.recorded.refs \cup b
  BY DEF WasRecorded
<1>2. /\ \A x, y \in ask.recorded.refs : x.what = y.what => x = y
      /\ \A x \in ask.recorded.refs : x.what \notin ask.recorded.picked
  BY SubmissionAssumption DEF SubmissionInv, SubmissionTyped
<1>3. \A x \in b : x.what \in ask.recorded.picked /\ x = Ref(x.what, RecordedIn)
  BY DEF Ref
<1> HIDE DEF b
<1> QED BY <1>1, <1>2, <1>3 DEF Single

LEMMA ReferencesOfJob ==
  ASSUME SubmissionInv
  PROVE  ReferencesAreRead /\ ReplayIsExact
<1>1. \A x, y \in read.picked : x.what = y.what => x = y
  BY DEF SubmissionInv, ReadFits
<1>2. ASSUME NEW m \in made
      PROVE  /\ \A r, s \in m.refs : r.what = s.what => r = s
             /\ ask.op # "replay" => \A r \in m.refs \ read.picked : r.rev \in {read.scene, read.shot}
             /\ ask.shot # Absent /\ "shot" \notin read.cached => ShotsIn[read.shot][ask.shot] = ask.scene
  <2>1. step \notin BeforeShot /\ m.refs = Recorded
    BY <1>2, JobIsMade
  <2>2. Single(Resolved) /\ Single(read.picked) /\ \A r \in Resolved : r.rev \in {read.scene, read.shot}
    BY <1>1, <2>1, ResolvedSingle DEF Single
  <2>3. Single(Current) /\ Current \subseteq Resolved \cup read.picked
    BY <2>2, FirstOnlySingle DEF Current, FirstOnly
  <2>4. Single(m.refs)
    BY <2>1, <2>3, RecordSingle DEF Recorded
  <2>5. ask.op # "replay" => m.refs \subseteq Resolved \cup read.picked
    BY <2>1, <2>3 DEF Recorded
  <2>6. ask.shot # Absent /\ "shot" \notin read.cached => ShotsIn[read.shot][ask.shot] = ask.scene
    BY <2>1 DEF SubmissionInv, ReadFits
  <2> QED BY <2>2, <2>4, <2>5, <2>6 DEF Single
<1>3. ASSUME NEW m \in made, ask.op = "replay"
      PROVE  /\ m.body = "recorded"
             /\ ask.recorded.refs \subseteq m.refs
             /\ \A r \in m.refs : r.what \in {ask.scene, ask.shot} \ {Absent} =>
                  r.rev = IF r.what = ask.scene THEN read.scene ELSE read.shot
  <2>1. step \in Kept /\ step \notin BeforeShot /\ m.refs = WasRecorded
    BY <1>3, JobIsMade DEF Recorded
  <2>2. m.body = "recorded"
    BY <1>3 DEF SubmissionInv, JobFits, Derived
  <2>3. ask.recorded.refs \subseteq m.refs
    BY <2>1 DEF WasRecorded
  <2>4. m.refs \subseteq Compared
    BY <1>3, <2>1 DEF SubmissionInv, CompareFits
  <2>5. Compared \subseteq read.picked \cup Resolved
    BY DEF Compared, FirstOnly
  <2>6. \A x \in read.picked : x.what \notin {ask.scene, ask.shot} \ {Absent}
    BY DEF SubmissionInv, ReadFits
  <2>7. \A r \in Resolved : r.what \in {ask.scene, ask.shot} \ {Absent} =>
          r.rev = IF r.what = ask.scene THEN read.scene ELSE read.shot
    BY <2>1, ResolvedSingle
  <2>8. \A r \in m.refs : r.what \in {ask.scene, ask.shot} \ {Absent} => r \in Resolved
    BY <2>4, <2>5, <2>6
  <2> QED BY <2>2, <2>3, <2>7, <2>8
<1> QED BY <1>2, <1>3 DEF ReferencesAreRead, ReplayIsExact

LEMMA VoicesOfJob ==
  ASSUME SubmissionInv
  PROVE  VoicesAreOwn
<1> SUFFICES ASSUME NEW m \in made, ask.kind = "voice", ask.op = "submit"
    PROVE  /\ ToSet(Script) \subseteq DOMAIN m.voices
           /\ \A s \in DOMAIN m.voices : ~IsBare(m.voices[s])
           /\ Cardinality(read.own) <= 1
           /\ \A s \in DOMAIN m.voices :
                s \notin read.own => m.voices[s].reference = (s \in DOMAIN ask.voices /\ ask.voices[s].reference)
           /\ read.own # {} => "reference" \in disk
  BY DEF VoicesAreOwn
<1> DEFINE bound == [s \in DOMAIN Voices |->
                       IF s \in OwnVoiceFor THEN [Voices[s] EXCEPT !.reference = TRUE] ELSE Voices[s]]
<1>1. Speaks /\ step \in Voiced /\ step \in Planned /\ m.voices = read.voices
  BY JobIsMade DEF Speaks, Derived
<1>2. read.own = OwnVoiceFor /\ read.voices = bound /\ (read.own # {} => "reference" \in disk) /\ SpeechFits
  BY <1>1 DEF SubmissionInv, VoicesFit
<1>3. ToSet(Script) \subseteq DOMAIN m.voices /\ \A s \in DOMAIN m.voices : ~IsBare(m.voices[s])
  BY <1>1, <1>2 DEF SpeechFits, BindingFits
<1>4. Cardinality(read.own) <= 1
  <2>1. OwnVoiceFor = {} \/ Cardinality(OwnVoiceFor) = 1
    BY DEF OwnVoiceFor
  <2>2. Cardinality({}) = 0
    BY FS_EmptySet
  <2> QED BY <1>2, <2>1, <2>2
<1>5. ASSUME NEW s \in DOMAIN m.voices, s \notin read.own
      PROVE  m.voices[s].reference = (s \in DOMAIN ask.voices /\ ask.voices[s].reference)
  <2>1. s \in DOMAIN Voices /\ m.voices[s] = Voices[s]
    BY <1>1, <1>2, <1>5
  <2>2. CASE ask.voices = <<>>
    <3>1. DOMAIN ask.voices = {}
      BY <2>2
    <3>2. Voices = [x \in ToSet(Script) |-> Bare]
      BY <2>2 DEF Voices
    <3>3. m.voices[s] = Bare
      BY <2>1, <3>2
    <3>4. m.voices[s].reference = FALSE
      BY <3>3 DEF Bare
    <3> QED BY <3>1, <3>4
  <2>3. CASE ask.voices # <<>>
    <3>1. Voices = ask.voices
      BY <2>3 DEF Voices
    <3>2. ask.voices[s] \in Binding /\ s \in DOMAIN ask.voices /\ m.voices[s] = ask.voices[s]
      BY <2>1, <3>1, SubmissionAssumption DEF SubmissionInv, SubmissionTyped
    <3>3. ask.voices[s].reference \in BOOLEAN
      BY <3>2 DEF Binding
    <3> QED BY <3>2, <3>3
  <2> QED BY <2>2, <2>3
<1> QED BY <1>2, <1>3, <1>4, <1>5

LEMMA InputsOfJob ==
  ASSUME SubmissionInv
  PROVE  InputsAreTaken
<1>1. ask \in Requests
  BY DEF SubmissionInv, SubmissionTyped
<1>2. ASSUME NEW m \in made, ask.op = "submit"
      PROVE  m.inputs = Layered /\ {i.name : i \in m.inputs} \subseteq Recipes[read.recipe].inputs
  <2>1. step \in Chosen /\ step \in Kept /\ m.inputs = read.inputs /\ ask.op \notin Derived
    BY <1>2, JobIsMade DEF Derived
  <2> QED BY <2>1 DEF SubmissionInv, InputsFit
<1>3. /\ \A i, j \in Layered : i.name = j.name => i = j
      /\ \A i \in Layered : i.from \in {"request", "look"} => ~ask.inherited
      /\ ~ask.inherited => {i.name : i \in {x \in Layered : x.from = "request"}} = ask.inputs
  BY <1>1, LayersAreTaken
<1>4. SUFFICES ASSUME NEW m \in made, ask.op = "submit"
      PROVE  /\ \A i, j \in m.inputs : i.name = j.name => i = j
             /\ {i.name : i \in m.inputs} \subseteq Recipes[read.recipe].inputs
             /\ \A i \in m.inputs : i.from \in {"request", "look"} => ~ask.inherited
             /\ ~ask.inherited => {i.name : i \in {x \in m.inputs : x.from = "request"}} = ask.inputs
  BY DEF InputsAreTaken
<1>5. m.inputs = Layered /\ {i.name : i \in m.inputs} \subseteq Recipes[read.recipe].inputs
  BY <1>2, <1>4
<1> QED BY <1>3, <1>5

\* A request ends with a Job that is whole, or without a trace: its snapshot comes with
\* it, its links belong together, each reference is recorded once as it was read, a
\* replay is of what was recorded, nobody but the one speaker without a voice gets the
\* character's, and every input comes from the layer that has the last word.
THEOREM SubmissionIsSound == SubmissionSpec => []SubmissionSound
<1>1. SubmissionInv => SubmissionSound
  <2> SUFFICES ASSUME SubmissionInv PROVE SubmissionSound
    OBVIOUS
  <2>1. SubmissionTypeOK
    BY DEF SubmissionInv, SubmissionTyped, StepFits, SubmissionTypeOK, BeforeShot, BeforeLinks, Chosen, Voiced, Planned,
           Kept, Committing, Ended
  <2>2. JobHasSnapshot
    BY DEF SubmissionInv, SnapshotFits, JobHasSnapshot, Committing, Ended
  <2>3. LinksBelong
    BY DEF SubmissionInv, JobFits, LinksBelong
  <2>4. ReferencesAreRead /\ ReplayIsExact
    BY ReferencesOfJob
  <2>5. VoicesAreOwn /\ InputsAreTaken
    BY VoicesOfJob, InputsOfJob
  <2> QED BY <2>1, <2>2, <2>3, <2>4, <2>5 DEF SubmissionSound
<1> QED BY <1>1, SubmissionInvariance, PTL

-----------------------------------------------------------------------------
(* Tags and their keys.                                                    *)

LEMMA FieldNames ==
  /\ Locked \subseteq Fields /\ Content \subseteq Fields
  /\ "quality" \in Fields /\ "quality" \notin Content
  /\ DOMAIN NoBody = {"tags", "conf", "text", "moved", "negative", "removed", "textRemoved", "line", "chars"}
  /\ DOMAIN NoBody.tags = Fields
BY DEF Locked, Content, Fields, NoBody

LEMMA KeysTell ==
  ASSUME NEW t, NEW u, DedupeKey(t) = DedupeKey(u)
  PROVE  /\ t.name = u.name
         /\ t.form = "prefixed" <=> u.form = "prefixed"
         /\ ConfidenceKey(t) = ConfidenceKey(u)
BY DEF DedupeKey, ConfidenceKey

LEMMA StemTells ==
  ASSUME NEW t, NEW u, StemKey(t) = StemKey(u), t.form = "prefixed"
  PROVE  u.form = "prefixed"
<1>1. DedupeKey(t)[2] = "prefixed"
  BY DEF DedupeKey
<1>2. StemKey(t)[2] = DedupeKey(t)[2] /\ StemKey(u)[2] = DedupeKey(u)[2]
  BY DEF StemKey, DedupeKey
<1>3. DedupeKey(u)[2] = "prefixed"
  BY <1>1, <1>2
<1> QED BY <1>3 DEF DedupeKey

LEMMA DedupeKeeps ==
  ASSUME NEW tags
  PROVE  /\ Dedupe(tags) \subseteq tags
         /\ \A t \in tags : \E u \in Dedupe(tags) : DedupeKey(u) = DedupeKey(t)
<1>1. Dedupe(tags) \subseteq tags
  BY DEF Dedupe
<1>2. ASSUME NEW t \in tags PROVE \E u \in Dedupe(tags) : DedupeKey(u) = DedupeKey(t)
  <2>1. CASE \E u \in tags : DedupeKey(t) = DedupeKey(u) /\ u.form = "weighted"
    BY <2>1 DEF Dedupe
  <2>2. CASE ~\E u \in tags : DedupeKey(t) = DedupeKey(u) /\ u.form = "weighted"
    BY <1>2, <2>2 DEF Dedupe
  <2> QED BY <2>1, <2>2
<1> QED BY <1>1, <1>2

LEMMA DedupeConfidences ==
  ASSUME NEW tags
  PROVE  ConfidenceKeys(Dedupe(tags)) = ConfidenceKeys(tags)
<1>1. \A t \in tags : \E u \in Dedupe(tags) : ConfidenceKey(u) = ConfidenceKey(t)
  BY DedupeKeeps, KeysTell
<1> QED BY <1>1, DedupeKeeps DEF ConfidenceKeys

LEMMA RatingByKey ==
  ASSUME NEW t, NEW u, ConfidenceKey(t) = ConfidenceKey(u)
  PROVE  t.name = u.name /\ (t.form = "prefixed" <=> u.form = "prefixed") /\ (IsRating(t) <=> IsRating(u))
<1>1. t.name = u.name /\ (t.form = "prefixed") = (u.form = "prefixed")
  BY DEF ConfidenceKey
<1> QED BY <1>1 DEF IsRating

\* How sure a tag is depends on its key alone.
LEMMA CertainByKey ==
  ASSUME NEW b, NEW f, NEW t, NEW u, ConfidenceKey(t) = ConfidenceKey(u)
  PROVE  Certain(b, f, t) <=> Certain(b, f, u)
BY RatingByKey DEF Certain

-----------------------------------------------------------------------------
(* Bodies.                                                                 *)

Shape(b) ==
  /\ DOMAIN b = DOMAIN NoBody /\ DOMAIN b.tags = Fields
  /\ b.negative \subseteq ToSet(Ratings)
  /\ \A e \in b.conf : e[2] \in {"low", "high"}

\* Every block of certain tags.
CertainTags(b) == UNION {AboveThreshold(b)[f] : f \in Fields}

LEMMA CertainTagsAre ==
  ASSUME NEW b
  PROVE  \A t : t \in CertainTags(b) <=> \E f \in Fields : t \in b.tags[f] /\ Certain(b, f, t)
BY DEF CertainTags, AboveThreshold

ListsFit(b) == ConfidenceKeys(CertainTags(b)) = ConfidenceKeys(b.line)

\* No search term is left among the qualities, and a rating is.
Cleaned(b) == \A t \in b.tags["quality"] : t.form # "prefixed"
RatingFit(b) == Cleaned(b) /\ RatingsOf(b) # {} /\ Above(RatingsOf(b)) \subseteq b.negative

LEMMA AboveRatings ==
  ASSUME NEW tags
  PROVE  /\ Above(tags) \subseteq ToSet(Ratings)
         /\ Above({t \in tags : IsRating(t)}) = Above(tags)
<1>1. {u \in {t \in tags : IsRating(t)} : IsRating(u)} = {u \in tags : IsRating(u)}
  OBVIOUS
<1>2. Above(tags) \subseteq ToSet(Ratings)
  BY DEF Above, ToSet
<1> QED BY <1>1, <1>2 DEF Above

LEMMA SafeIsRating ==
  ASSUME NEW t, t = Tag("safe", "plain")
  PROVE  IsRating(t) /\ t.name = "safe" /\ t.form = "plain"
<1>1. t.name = "safe" /\ t.form = "plain"
  BY DEF Tag
<1>2. "safe" \in ToSet(Ratings)
  <2>1. Ratings[1] = "safe" /\ 1 \in DOMAIN Ratings
    BY DEF Ratings
  <2> QED BY <2>1 DEF ToSet
<1> QED BY <1>1, <1>2 DEF IsRating

LEMMA Stripped ==
  ASSUME NEW tags
  PROVE  /\ \A t \in StripPrefix(tags) : t.form # "prefixed"
         /\ \A t \in StripPrefix(tags) : t \in tags \/ (IsRating(t) /\ \E u \in tags : u.name = t.name)
         /\ \A t \in tags : t.form # "prefixed" => t \in StripPrefix(tags)
<1> DEFINE F(t) == IF t.form = "prefixed" THEN Tag(t.name, "plain") ELSE t
           U == {u \in tags : u.form = "prefixed" => u.name \in ToSet(Ratings)}
<1>1. StripPrefix(tags) = {F(t) : t \in U}
  BY DEF StripPrefix
<1>2. ASSUME NEW t \in U
      PROVE  /\ F(t).form # "prefixed"
             /\ F(t) = t \/ (IsRating(F(t)) /\ F(t).name = t.name)
  <2>1. CASE t.form = "prefixed"
    <3>1. F(t).name = t.name /\ F(t).form = "plain"
      BY <2>1 DEF Tag
    <3> QED BY <1>2, <2>1, <3>1 DEF IsRating
  <2>2. CASE t.form # "prefixed"
    BY <2>2
  <2> QED BY <2>1, <2>2
<1>3. \A t \in tags : t.form # "prefixed" => t \in U /\ F(t) = t
  OBVIOUS
<1> HIDE DEF F, U
<1>4. U \subseteq tags
  BY DEF U
<1> QED BY <1>1, <1>2, <1>3, <1>4

\* What a body is once its rating is seen to and its line is put together.
LEMMA AttachedIs ==
  ASSUME NEW b, Shape(b), NEW c, c = Attached(b)
  PROVE  /\ Shape(c) /\ ListsFit(c) /\ RatingFit(c)
         /\ \A f \in Fields \ {"quality"} : c.tags[f] = b.tags[f]
         /\ c.tags["quality"] = WithRating(StripPrefix(b.tags["quality"]))
         /\ c.conf = b.conf /\ c.text = b.text /\ c.moved = b.moved
         /\ c.removed = b.removed /\ c.textRemoved = b.textRemoved /\ c.chars = b.chars
<1> DEFINE quality == WithRating(StripPrefix(b.tags["quality"]))
           r == Rated(b)
           line == Dedupe(UNION {AboveThreshold(r)[f] : f \in Fields})
<1>1. r = [b EXCEPT !.tags["quality"] = quality, !.negative = @ \cup Above(quality)]
  BY DEF Rated
<1>2. c = [r EXCEPT !.line = line]
  BY DEF Attached
<1> HIDE DEF quality, r, line
<1>3. /\ DOMAIN r = DOMAIN NoBody /\ DOMAIN r.tags = Fields
      /\ \A f \in Fields \ {"quality"} : r.tags[f] = b.tags[f]
      /\ r.tags["quality"] = quality /\ r.negative = b.negative \cup Above(quality)
      /\ r.conf = b.conf /\ r.text = b.text /\ r.moved = b.moved
      /\ r.removed = b.removed /\ r.textRemoved = b.textRemoved /\ r.chars = b.chars
  BY <1>1, FieldNames DEF Shape
<1>4. /\ DOMAIN c = DOMAIN NoBody /\ c.tags = r.tags /\ c.negative = r.negative /\ c.line = line
      /\ c.conf = r.conf /\ c.text = r.text /\ c.moved = r.moved
      /\ c.removed = r.removed /\ c.textRemoved = r.textRemoved /\ c.chars = r.chars
  BY <1>2, <1>3, FieldNames
<1>5. Shape(c)
  BY <1>3, <1>4, AboveRatings DEF Shape
<1>6. ListsFit(c)
  <2>1. AboveThreshold(c) = AboveThreshold(r)
    <3>1. \A f \in Fields : \A t : Certain(c, f, t) <=> Certain(r, f, t)
      BY <1>4 DEF Certain
    <3> QED BY <1>4, <3>1 DEF AboveThreshold
  <2>2. c.line = Dedupe(CertainTags(c))
    BY <1>4, <2>1 DEF line, CertainTags
  <2> QED BY <2>2, DedupeConfidences DEF ListsFit
<1>7. RatingFit(c)
  <2>1. \A t \in StripPrefix(b.tags["quality"]) : t.form # "prefixed"
    BY Stripped
  <2>2. Cleaned(c)
    BY <1>3, <1>4, <2>1, SafeIsRating DEF Cleaned, quality, WithRating
  <2>3. \E t \in quality : IsRating(t)
    BY SafeIsRating DEF quality, WithRating
  <2>4. Above(RatingsOf(c)) = Above(quality)
    <3>1. RatingsOf(c) = {t \in quality : IsRating(t)}
      BY <1>3, <1>4 DEF RatingsOf
    <3> QED BY <3>1, AboveRatings
  <2> QED BY <1>3, <1>4, <2>2, <2>3, <2>4 DEF RatingFit, RatingsOf
<1> QED BY <1>3, <1>4, <1>5, <1>6, <1>7 DEF quality

\* The qualities after that: those there were, without search terms, and ratings.
LEMMA AttachedQuality ==
  ASSUME NEW b, Shape(b), NEW c, c = Attached(b)
  PROVE  /\ \A t \in b.tags["quality"] : t.form # "prefixed" => t \in c.tags["quality"]
         /\ \A t \in c.tags["quality"] : t \in b.tags["quality"] \/ IsRating(t)
         /\ Cleaned(b) /\ RatingsOf(b) # {} => c.tags["quality"] = b.tags["quality"]
<1> DEFINE old == b.tags["quality"]
<1>1. c.tags["quality"] = WithRating(StripPrefix(old))
  BY AttachedIs
<1> HIDE DEF old
<1>2. \A t \in old : t.form # "prefixed" => t \in c.tags["quality"]
  BY <1>1, Stripped DEF WithRating
<1>3. \A t \in c.tags["quality"] : t \in old \/ IsRating(t)
  BY <1>1, Stripped, SafeIsRating DEF WithRating
<1>4. ASSUME Cleaned(b), RatingsOf(b) # {}
      PROVE  c.tags["quality"] = old
  <2>1. StripPrefix(old) = old
    BY <1>4 DEF StripPrefix, Cleaned, old
  <2>2. \E t \in old : IsRating(t)
    BY <1>4 DEF RatingsOf, old
  <2> QED BY <1>1, <2>1, <2>2 DEF WithRating
<1> QED BY <1>2, <1>3, <1>4 DEF old

-----------------------------------------------------------------------------
(* A draft that is fitted to the user's prompt.                            *)

\* The prompt has this name, or the user spelled it.
Familiar(n) == n \in {u.name : u \in prompt.tags} \cup {k[1] : k \in prompt.mentioned}

\* A tag of the prompt needs no place of its own.
Excused(b, t) == IsRating(t) \/ Claimed(b, t) \/ Miscalled(b, t)

\* Before names change: the prompt's tags are there as they were, and no confidence is of one.
Firm(b) ==
  /\ \A e \in b.conf : ConfidenceKey(e[1]) \notin ConfidenceKeys(CurrentTags)
  /\ \A t \in CurrentTags :
       \/ Excused(b, t)
       \/ \E f \in Fields : \E u \in b.tags[f] :
            DedupeKey(u) = DedupeKey(t) /\ (f = "quality" => u.form # "prefixed")
Own(b) == \A f \in Locked : \A t \in b.tags[f] : IsRating(t) \/ Familiar(t.name)

GoodRating(r) == r \in CurrentTags \/ Mentioned(r) \/ r.name = "safe"
OneRating(b) ==
  (\A t \in CurrentTags : ~Miscalled(b, t)) =>
    Cleaned(b) /\ \E r : RatingsOf(b) = {r} /\ GoodRating(r)
TextKept(b) == prompt.text # "none" /\ prompt.style # "tags" /\ ~b.textRemoved => HasText(b)

LEMMA CurrentTagsAreThePrompts == CurrentTags \subseteq prompt.tags
BY DedupeKeeps DEF CurrentTags

LEMMA FieldForIs ==
  ASSUME NEW b, NEW chars, NEW t
  PROVE  /\ FieldFor(b, chars, t) \in Fields
         /\ FieldFor(b, chars, t) = "quality" /\ t.form = "prefixed" => Miscalled(b, t)
<1> DEFINE claims == {c \in LockedRemovals(b, chars) : StemKey(c[1]) = StemKey(t)}
           pick == CHOOSE c \in claims : TRUE
<1>1. RestoredField(t) \in Fields /\ (t.form = "prefixed" => RestoredField(t) = "general")
  BY DEF RestoredField, Fields
<1>2. CASE claims = {}
  <2>1. FieldFor(b, chars, t) = RestoredField(t)
    BY <1>2 DEF FieldFor
  <2> QED BY <1>1, <2>1
<1>3. CASE claims # {}
  <2>1. FieldFor(b, chars, t) = LockedRemovalField(pick[1], pick[2], chars)
    BY <1>3 DEF FieldFor
  <2>2. pick \in claims
    BY <1>3
  <2> HIDE DEF pick
  <2>3. pick \in b.removed /\ StemKey(pick[1]) = StemKey(t) /\ LockedRemovalField(pick[1], pick[2], chars) # "none"
    BY <2>2 DEF LockedRemovals
  <2>4. LockedRemovalField(pick[1], pick[2], chars) \in Locked
    BY <2>3 DEF LockedRemovalField, Locked
  <2>5. ASSUME LockedRemovalField(pick[1], pick[2], chars) = "quality", t.form = "prefixed"
        PROVE  pick[2] = "quality"
    <3>1. pick[1].form = "prefixed"
      BY <2>3, <2>5, StemTells
    <3>2. RestoredField(pick[1]) = "general" /\ ~IsRating(pick[1]) /\ ~IsCharacter(pick[1], chars)
      BY <3>1 DEF RestoredField, IsRating, IsCharacter
    <3> QED BY <2>5, <3>2 DEF LockedRemovalField, Locked
  <2> QED BY <2>1, <2>3, <2>4, <2>5, FieldNames DEF Miscalled
<1> QED BY <1>2, <1>3

\* The parts of a fitted draft.
RevisedTags(b, rating, chars, f) ==
  Permitted(b, chars)[f] \cup {t \in Restored(b, chars) : FieldFor(b, chars, t) = f}
    \cup (IF f = "quality" THEN {rating} ELSE {})

LEMMA RevisedIs ==
  ASSUME NEW b, Shape(b), NEW rating, NEW chars, NEW c, c = Revised(b, rating, chars)
  PROVE  /\ Shape(c)
         /\ \A f \in Fields : c.tags[f] = RevisedTags(b, rating, chars, f)
         /\ c.removed = b.removed /\ c.chars = chars /\ c.textRemoved = b.textRemoved /\ c.moved = b.moved
         /\ c.text = IF ~HasText(b) /\ ~b.textRemoved THEN prompt.text ELSE b.text
         /\ \A e \in c.conf : ConfidenceKey(e[1]) \notin ConfidenceKeys(CurrentTags)
<1> DEFINE tags == [f \in Fields |-> RevisedTags(b, rating, chars, f)]
           final == ConfidenceKeys(UNION {tags[f] : f \in Fields})
           text == IF ~HasText(b) /\ ~b.textRemoved THEN prompt.text ELSE b.text
           conf == {e \in b.conf : ConfidenceKey(e[1]) \in final \ ConfidenceKeys(CurrentTags)}
<1>1. c = [b EXCEPT !.tags = tags, !.chars = chars, !.text = text, !.conf = conf]
  BY DEF Revised, RevisedTags
<1>2. DOMAIN tags = Fields /\ \A f \in Fields : tags[f] = RevisedTags(b, rating, chars, f)
  OBVIOUS
<1>3. \A e \in conf : e \in b.conf /\ ConfidenceKey(e[1]) \notin ConfidenceKeys(CurrentTags)
  OBVIOUS
<1>4. text = IF ~HasText(b) /\ ~b.textRemoved THEN prompt.text ELSE b.text
  OBVIOUS
<1> HIDE DEF tags, final, text, conf
<1>5. /\ DOMAIN c = DOMAIN NoBody /\ c.tags = tags /\ c.chars = chars /\ c.text = text /\ c.conf = conf
      /\ c.removed = b.removed /\ c.textRemoved = b.textRemoved /\ c.moved = b.moved /\ c.negative = b.negative
  BY <1>1, FieldNames DEF Shape
<1> QED BY <1>2, <1>3, <1>4, <1>5 DEF Shape

LEMMA PermittedAre ==
  ASSUME NEW b, NEW chars, NEW f \in Fields, NEW t \in Permitted(b, chars)[f]
  PROVE  /\ f \in Locked => Familiar(t.name)
         /\ f = "quality" => t.form # "prefixed" /\ ~IsRating(t)
<1>1. /\ f = "quality" => t \in StripPrefix(b.tags["quality"]) /\ ~IsRating(t)
      /\ f \in Locked => DedupeKey(t) \in Keys(CurrentTags) \/ Mentioned(t)
  BY DEF Permitted
<1>2. DedupeKey(t)[1] = t.name
  BY DEF DedupeKey
<1>3. ASSUME DedupeKey(t) \in Keys(CurrentTags) PROVE Familiar(t.name)
  <2>1. PICK u \in CurrentTags : DedupeKey(t) = DedupeKey(u)
    BY <1>3 DEF Keys
  <2>2. t.name = u.name /\ u \in prompt.tags
    BY <2>1, KeysTell, CurrentTagsAreThePrompts
  <2> QED BY <2>2 DEF Familiar
<1>4. ASSUME Mentioned(t) PROVE Familiar(t.name)
  BY <1>2, <1>4 DEF Mentioned, Familiar
<1> QED BY <1>1, <1>3, <1>4, Stripped

LEMMA RatingChosen ==
  ASSUME NEW b, NEW rating \in RatingChoices(b)
  PROVE  IsRating(rating) /\ GoodRating(rating)
BY SafeIsRating DEF RatingChoices, GoodRating

LEMMA RevisedStands ==
  ASSUME NEW b, Shape(b), NEW rating \in RatingChoices(b), NEW chars, NEW c, c = Revised(b, rating, chars)
  PROVE  Shape(c) /\ Firm(c) /\ Own(c) /\ OneRating(c) /\ TextKept(c)
<1> DEFINE P == Permitted(b, chars)
           R == Restored(b, chars)
           For(t) == FieldFor(b, chars, t)
<1>1. /\ c.removed = b.removed /\ c.chars = chars
      /\ \A f \in Fields : c.tags[f] = P[f] \cup {t \in R : For(t) = f} \cup (IF f = "quality" THEN {rating} ELSE {})
  BY RevisedIs DEF RevisedTags
<1>2. \A t : (Claimed(c, t) <=> \E d \in b.removed \ LockedRemovals(b, chars) : StemKey(d[1]) = StemKey(t))
             /\ (Miscalled(c, t) <=> Miscalled(b, t))
  BY <1>1 DEF Claimed, Miscalled, LockedRemovals
<1>3. \A t \in R : For(t) \in Fields /\ (For(t) = "quality" /\ t.form = "prefixed" => Miscalled(c, t))
  BY <1>2, FieldForIs
<1>4. \A t \in R : t \in CurrentTags /\ t \in prompt.tags /\ ~IsRating(t)
  BY CurrentTagsAreThePrompts DEF Restored
<1>5. IsRating(rating) /\ GoodRating(rating) /\ rating.form # "prefixed"
  BY RatingChosen DEF IsRating
<1>6. \A f \in Fields : \A t \in P[f] : (f \in Locked => Familiar(t.name)) /\ (f = "quality" => t.form # "prefixed" /\ ~IsRating(t))
  BY PermittedAre
<1>7. \A t \in CurrentTags :
        IsRating(t) \/ Claimed(c, t) \/ t \in R \/ \E f \in Fields : \E u \in P[f] : DedupeKey(u) = DedupeKey(t)
  <2> TAKE t \in CurrentTags
  <2>1. CASE DedupeKey(t) \in Keys(UNION {P[f] : f \in Fields})
    BY <2>1 DEF Keys
  <2>2. CASE StemKey(t) \in {StemKey(d[1]) : d \in b.removed \ LockedRemovals(b, chars)}
    BY <1>2, <2>2
  <2> QED BY <2>1, <2>2 DEF Restored
<1>8. Shape(c) /\ TextKept(c) /\ \A e \in c.conf : ConfidenceKey(e[1]) \notin ConfidenceKeys(CurrentTags)
  BY RevisedIs DEF TextKept, HasText
<1> HIDE DEF P, R, For
<1>9. Firm(c)
  <2> SUFFICES ASSUME NEW t \in CurrentTags, ~Excused(c, t)
      PROVE  \E f \in Fields : \E u \in c.tags[f] : DedupeKey(u) = DedupeKey(t) /\ (f = "quality" => u.form # "prefixed")
    BY <1>8 DEF Firm
  <2>1. CASE t \in R
    BY <1>1, <1>3, <2>1 DEF Excused
  <2>2. CASE \E f \in Fields : \E u \in P[f] : DedupeKey(u) = DedupeKey(t)
    BY <1>1, <1>6, <2>2
  <2> QED BY <1>7, <2>1, <2>2 DEF Excused
<1>10. Own(c)
  BY <1>1, <1>4, <1>5, <1>6, FieldNames DEF Own, Familiar
<1>11. OneRating(c)
  <2> SUFFICES ASSUME \A t \in CurrentTags : ~Miscalled(c, t)
      PROVE  Cleaned(c) /\ RatingsOf(c) = {rating}
    BY <1>5 DEF OneRating
  <2>1. \A t \in c.tags["quality"] : t = rating \/ (~IsRating(t) /\ t.form # "prefixed")
    BY <1>1, <1>3, <1>4, <1>6, FieldNames
  <2>2. rating \in c.tags["quality"]
    BY <1>1, FieldNames
  <2> QED BY <1>5, <2>1, <2>2 DEF Cleaned, RatingsOf
<1> QED BY <1>8, <1>9, <1>10, <1>11

\* Putting the line together keeps all that.
LEMMA AttachedStands ==
  ASSUME NEW b, Shape(b), Firm(b), Own(b), OneRating(b), TextKept(b), NEW c, c = Attached(b)
  PROVE  Firm(c) /\ Own(c) /\ OneRating(c) /\ TextKept(c)
<1>1. /\ \A f \in Fields \ {"quality"} : c.tags[f] = b.tags[f]
      /\ c.conf = b.conf /\ c.text = b.text /\ c.moved = b.moved
      /\ c.removed = b.removed /\ c.textRemoved = b.textRemoved /\ c.chars = b.chars
  BY AttachedIs
<1>2. /\ \A t \in b.tags["quality"] : t.form # "prefixed" => t \in c.tags["quality"]
      /\ \A t \in c.tags["quality"] : t \in b.tags["quality"] \/ IsRating(t)
  BY AttachedQuality
<1>3. \A t : (Claimed(c, t) <=> Claimed(b, t)) /\ (Miscalled(c, t) <=> Miscalled(b, t))
  BY <1>1 DEF Claimed, Miscalled, LockedRemovals
<1>4. Firm(c)
  BY <1>1, <1>2, <1>3 DEF Firm, Excused
<1>5. Own(c)
  BY <1>1, <1>2, FieldNames DEF Own
<1>6. OneRating(c)
  <2> SUFFICES ASSUME \A t \in CurrentTags : ~Miscalled(c, t)
      PROVE  Cleaned(c) /\ \E r : RatingsOf(c) = {r} /\ GoodRating(r)
    BY DEF OneRating
  <2>1. Cleaned(b) /\ \E r : RatingsOf(b) = {r} /\ GoodRating(r)
    BY <1>3 DEF OneRating
  <2>2. c.tags["quality"] = b.tags["quality"]
    BY <2>1, AttachedQuality
  <2> QED BY <2>1, <2>2 DEF Cleaned, RatingsOf
<1>7. TextKept(c)
  BY <1>1 DEF TextKept, HasText
<1> QED BY <1>4, <1>5, <1>6, <1>7

-----------------------------------------------------------------------------
(* A draft under the names of the dictionary.                              *)

\* The tags of the prompt are there for sure, under one of their names.
TagsStand(b) ==
  \A t \in CurrentTags :
    \/ Excused(b, t) \/ Doubted(b, t)
    \/ \E f \in Fields : \E u \in b.tags[f] :
         t.name \in Names(u.name) /\ Certain(b, f, u) /\ (f = "quality" => u.form # "prefixed")
Recognized(b) == \A f \in Locked : \A t \in b.tags[f] : IsRating(t) \/ \E n \in Names(t.name) : Familiar(n)

LEMMA FirmIsKept ==
  ASSUME NEW b, Firm(b)
  PROVE  TagsStand(b)
<1> SUFFICES ASSUME NEW t \in CurrentTags, NEW f \in Fields, NEW u \in b.tags[f],
                    DedupeKey(u) = DedupeKey(t), f = "quality" => u.form # "prefixed"
             PROVE  t.name \in Names(u.name) /\ Certain(b, f, u)
  BY DEF Firm, TagsStand
<1>1. t.name = u.name /\ ConfidenceKey(u) = ConfidenceKey(t)
  BY KeysTell
<1>2. ConfidenceKey(u) \in ConfidenceKeys(CurrentTags)
  BY <1>1 DEF ConfidenceKeys
<1> QED BY <1>1, <1>2 DEF Firm, Certain, Names

LEMMA OwnIsRecognized ==
  ASSUME NEW b, Own(b)
  PROVE  Recognized(b)
BY DEF Own, Recognized, Names

Renamed(t) == IF IsAlias(t) THEN Canonical(t) ELSE t

\* The blocks of contents under the dictionary's names.
LEMMA CanonicalizedIs ==
  ASSUME NEW b, Shape(b), NEW c, c = Canonicalized(b)
  PROVE  /\ Shape(c)
         /\ \A f \in Fields \ Content : c.tags[f] = b.tags[f]
         /\ \A f \in Content : c.tags[f] = Dedupe({Renamed(t) : t \in b.tags[f] \ (IF f = "general" THEN Unknown(b) ELSE {})})
         /\ c.conf = RenamedConfidences(b) /\ c.text = b.text /\ b.moved \subseteq c.moved
         /\ c.removed = b.removed /\ c.textRemoved = b.textRemoved /\ c.chars = b.chars /\ c.line = b.line
         /\ c.negative = b.negative
<1> DEFINE Block(f) == Dedupe({Renamed(t) : t \in b.tags[f] \ (IF f = "general" THEN Unknown(b) ELSE {})})
           tags == [f \in Fields |-> IF f \notin Content THEN b.tags[f] ELSE Block(f)]
           moved == IF prompt.style # "tags" /\ b.text # "full" THEN b.moved \cup {t.name : t \in Unknown(b)} ELSE b.moved
           conf == RenamedConfidences(b)
<1>1. c = [b EXCEPT !.tags = tags, !.moved = moved, !.conf = conf]
  BY DEF Canonicalized, Renamed
<1>2. DOMAIN tags = Fields /\ \A f \in Fields : tags[f] = IF f \notin Content THEN b.tags[f] ELSE Block(f)
  OBVIOUS
<1>3. b.moved \subseteq moved
  OBVIOUS
<1>4. \A e \in conf : e[2] \in {"low", "high"}
  BY DEF RenamedConfidences, Shape
<1> HIDE DEF tags, moved, conf
<1>5. /\ DOMAIN c = DOMAIN NoBody /\ c.tags = tags /\ c.moved = moved /\ c.conf = conf
      /\ c.text = b.text /\ c.removed = b.removed /\ c.textRemoved = b.textRemoved /\ c.chars = b.chars
      /\ c.line = b.line /\ c.negative = b.negative
  BY <1>1, FieldNames DEF Shape
<1> QED BY <1>2, <1>3, <1>4, <1>5, FieldNames DEF conf, Shape

\* A confidence afterwards: one there was, or one that moved to a name of the dictionary.
LEMMA ConfidencesRenamed ==
  ASSUME NEW b, NEW e \in RenamedConfidences(b)
  PROVE  \/ e \in b.conf
         \/ \E n \in DOMAIN Alias : e[1].name = Alias[n]
<1>1. PICK d \in b.conf :
        e = IF d[1].form # "weighted" /\ ConfidenceKey(d[1]) \in ConfidenceKeys(Aliases(b))
            THEN <<Canonical(d[1]), d[2]>> ELSE d
  BY DEF RenamedConfidences
<1>2. CASE ConfidenceKey(d[1]) \in ConfidenceKeys(Aliases(b)) /\ e = <<Canonical(d[1]), d[2]>>
  <2>1. PICK a \in Aliases(b) : ConfidenceKey(d[1]) = ConfidenceKey(a)
    BY <1>2 DEF ConfidenceKeys
  <2>2. d[1].name = a.name /\ a.name \in DOMAIN Alias
    BY <2>1, RatingByKey DEF Aliases, IsAlias
  <2>3. e[1] = Canonical(d[1])
    BY <1>2
  <2>4. Canonical(d[1]).name = Alias[d[1].name]
    BY DEF Canonical, Tag
  <2> QED BY <2>2, <2>3, <2>4
<1> QED BY <1>1, <1>2

LEMMA CanonicalizedStands ==
  ASSUME NEW b, Shape(b), Firm(b), Own(b), OneRating(b), TextKept(b), NEW c, c = Canonicalized(b)
  PROVE  TagsStand(c) /\ Recognized(c) /\ OneRating(c) /\ TextKept(c)
<1>1. /\ \A f \in Fields \ Content : c.tags[f] = b.tags[f]
      /\ \A f \in Content : c.tags[f] = Dedupe({Renamed(t) : t \in b.tags[f] \ (IF f = "general" THEN Unknown(b) ELSE {})})
      /\ c.conf = RenamedConfidences(b) /\ c.text = b.text /\ b.moved \subseteq c.moved
      /\ c.removed = b.removed /\ c.textRemoved = b.textRemoved /\ c.chars = b.chars
  BY CanonicalizedIs
<1>2. \A t : (Excused(c, t) <=> Excused(b, t)) /\ (Miscalled(c, t) <=> Miscalled(b, t))
  BY <1>1 DEF Excused, Claimed, Miscalled, LockedRemovals
<1>3. \A t : IsAlias(t) => t.name \in DOMAIN Alias /\ Renamed(t).name = Alias[t.name]
  BY DEF IsAlias, Renamed, Canonical, Tag
<1>4. \A t : t.name \in Names(Renamed(t).name)
  BY <1>3 DEF Names, Renamed
<1>5. ASSUME NEW f \in Content, NEW t \in b.tags[f], f = "general" => t \notin Unknown(b)
      PROVE  \E u \in c.tags[f] : DedupeKey(u) = DedupeKey(Renamed(t))
  <2> DEFINE S == {Renamed(v) : v \in b.tags[f] \ (IF f = "general" THEN Unknown(b) ELSE {})}
  <2>1. Renamed(t) \in S
    BY <1>5
  <2>2. c.tags[f] = Dedupe(S)
    BY <1>1, <1>5
  <2> HIDE DEF S
  <2> QED BY <2>1, <2>2, DedupeKeeps
<1>6. ASSUME NEW f \in Content, NEW u \in c.tags[f]
      PROVE  \E t \in b.tags[f] : u = Renamed(t)
  <2> DEFINE S == {Renamed(v) : v \in b.tags[f] \ (IF f = "general" THEN Unknown(b) ELSE {})}
  <2>1. c.tags[f] = Dedupe(S)
    BY <1>1, <1>6
  <2>2. \A s \in S : \E t \in b.tags[f] : s = Renamed(t)
    OBVIOUS
  <2> HIDE DEF S
  <2>3. u \in S
    BY <1>6, <2>1, DedupeKeeps
  <2> QED BY <2>2, <2>3
\* What is uncertain now has a low confidence that came with a new name.
<1>7. ASSUME NEW f, NEW u, NEW t \in CurrentTags, ~Certain(c, f, u),
             \/ ConfidenceKey(u) = ConfidenceKey(t)
             \/ t.name \in DOMAIN Alias /\ u.name = Alias[t.name]
      PROVE  Doubted(c, t)
  <2>1. PICK e \in c.conf : ConfidenceKey(e[1]) = ConfidenceKey(u) /\ e[2] # "high"
    BY <1>7 DEF Certain
  <2>2. e[2] = "low"
    BY <2>1, CanonicalizedIs DEF Shape
  <2>3. e[1].name = u.name
    BY <2>1, RatingByKey
  <2>4. CASE t.name \in DOMAIN Alias /\ u.name = Alias[t.name]
    BY <2>2, <2>3, <2>4 DEF Doubted
  <2>5. CASE ConfidenceKey(u) = ConfidenceKey(t)
    <3>1. e \notin b.conf
      <4>1. ConfidenceKey(e[1]) \in ConfidenceKeys(CurrentTags)
        BY <2>1, <2>5 DEF ConfidenceKeys
      <4> QED BY <4>1 DEF Firm
    <3>2. PICK n \in DOMAIN Alias : e[1].name = Alias[n]
      BY <1>1, <3>1, ConfidencesRenamed
    <3>3. t.name = Alias[n]
      BY <2>3, <2>5, <3>2, RatingByKey
    <3> QED BY <2>2, <3>2, <3>3 DEF Doubted
  <2> QED BY <1>7, <2>4, <2>5
<1>8. TagsStand(c)
  <2> SUFFICES ASSUME NEW t \in CurrentTags, ~Excused(c, t), ~Doubted(c, t)
      PROVE  \E f \in Fields : \E u \in c.tags[f] :
               t.name \in Names(u.name) /\ Certain(c, f, u) /\ (f = "quality" => u.form # "prefixed")
    BY DEF TagsStand
  <2>1. PICK f \in Fields : \E v \in b.tags[f] : DedupeKey(v) = DedupeKey(t) /\ (f = "quality" => v.form # "prefixed")
    BY <1>2 DEF Firm
  <2>2. PICK v \in b.tags[f] : DedupeKey(v) = DedupeKey(t) /\ (f = "quality" => v.form # "prefixed")
    BY <2>1
  <2>3. v.name = t.name /\ ConfidenceKey(v) = ConfidenceKey(t)
    BY <2>2, KeysTell
  <2>4. CASE f \notin Content
    <3>1. v \in c.tags[f]
      BY <1>1, <2>4
    <3>2. Certain(c, f, v)
      BY <1>7, <2>3
    <3> QED BY <2>2, <2>3, <3>1, <3>2 DEF Names
  <2>5. CASE f \in Content
    <3>1. v \notin Unknown(b)
      <4>1. ConfidenceKey(v) \in ConfidenceKeys(prompt.tags)
        BY <2>3, CurrentTagsAreThePrompts DEF ConfidenceKeys
      <4> QED BY <4>1 DEF Unknown
    <3>2. PICK u \in c.tags[f] : DedupeKey(u) = DedupeKey(Renamed(v))
      BY <1>5, <2>5, <3>1
    <3>3. u.name = Renamed(v).name /\ ConfidenceKey(u) = ConfidenceKey(Renamed(v))
      BY <3>2, KeysTell
    <3>4. t.name \in Names(u.name)
      BY <1>4, <2>3, <3>3
    <3>5. ConfidenceKey(u) = ConfidenceKey(t) \/ (t.name \in DOMAIN Alias /\ u.name = Alias[t.name])
      BY <1>3, <2>3, <3>3 DEF Renamed
    <3>6. Certain(c, f, u)
      BY <1>7, <3>5
    <3> QED BY <2>5, <3>4, <3>6, FieldNames
  <2> QED BY <2>4, <2>5
<1>9. Recognized(c)
  <2> SUFFICES ASSUME NEW f \in Locked, NEW u \in c.tags[f], ~IsRating(u)
      PROVE  \E n \in Names(u.name) : Familiar(n)
    BY DEF Recognized
  <2>1. CASE f \notin Content
    BY <1>1, <2>1, FieldNames DEF Own, Names
  <2>2. CASE f \in Content
    <3>1. PICK t \in b.tags[f] : u = Renamed(t)
      BY <1>6, <2>2
    <3>2. ~IsRating(t)
      BY <3>1 DEF Renamed, IsAlias, Untouched
    <3> QED BY <1>4, <3>1, <3>2 DEF Own
  <2> QED BY <2>1, <2>2
<1>10. OneRating(c) /\ TextKept(c)
  <2>1. c.tags["quality"] = b.tags["quality"]
    BY <1>1, FieldNames
  <2>2. OneRating(c)
    BY <1>2, <2>1 DEF OneRating, Cleaned, RatingsOf
  <2> QED BY <1>1, <2>2 DEF TextKept, HasText
<1> QED BY <1>8, <1>9, <1>10

LEMMA AttachedKeeps ==
  ASSUME NEW b, Shape(b), TagsStand(b), Recognized(b), OneRating(b), TextKept(b), NEW c, c = Attached(b)
  PROVE  TagsStand(c) /\ Recognized(c) /\ OneRating(c) /\ TextKept(c)
<1>1. /\ \A f \in Fields \ {"quality"} : c.tags[f] = b.tags[f]
      /\ c.conf = b.conf /\ c.text = b.text /\ c.moved = b.moved
      /\ c.removed = b.removed /\ c.textRemoved = b.textRemoved /\ c.chars = b.chars
  BY AttachedIs
<1>2. /\ \A t \in b.tags["quality"] : t.form # "prefixed" => t \in c.tags["quality"]
      /\ \A t \in c.tags["quality"] : t \in b.tags["quality"] \/ IsRating(t)
  BY AttachedQuality
<1>3. \A t : (Excused(c, t) <=> Excused(b, t)) /\ (Doubted(c, t) <=> Doubted(b, t)) /\ (Miscalled(c, t) <=> Miscalled(b, t))
  BY <1>1 DEF Excused, Claimed, Miscalled, LockedRemovals, Doubted
<1>4. \A f, t : Certain(c, f, t) <=> Certain(b, f, t)
  BY <1>1 DEF Certain
<1>5. TagsStand(c)
  <2> SUFFICES ASSUME NEW t \in CurrentTags, ~Excused(c, t), ~Doubted(c, t)
      PROVE  \E f \in Fields : \E u \in c.tags[f] :
               t.name \in Names(u.name) /\ Certain(c, f, u) /\ (f = "quality" => u.form # "prefixed")
    BY DEF TagsStand
  <2>1. PICK f \in Fields : \E u \in b.tags[f] :
               t.name \in Names(u.name) /\ Certain(b, f, u) /\ (f = "quality" => u.form # "prefixed")
    BY <1>3 DEF TagsStand
  <2>2. PICK u \in b.tags[f] : t.name \in Names(u.name) /\ Certain(b, f, u) /\ (f = "quality" => u.form # "prefixed")
    BY <2>1
  <2>3. u \in c.tags[f]
    BY <1>1, <1>2, <2>2
  <2> QED BY <1>4, <2>2, <2>3
<1>6. Recognized(c)
  BY <1>1, <1>2, FieldNames DEF Recognized
<1>7. OneRating(c)
  <2> SUFFICES ASSUME \A t \in CurrentTags : ~Miscalled(c, t)
      PROVE  Cleaned(c) /\ \E r : RatingsOf(c) = {r} /\ GoodRating(r)
    BY DEF OneRating
  <2>1. Cleaned(b) /\ \E r : RatingsOf(b) = {r} /\ GoodRating(r)
    BY <1>3 DEF OneRating
  <2>2. c.tags["quality"] = b.tags["quality"]
    BY <2>1, AttachedQuality
  <2> QED BY <2>1, <2>2 DEF Cleaned, RatingsOf
<1>8. TextKept(c)
  BY <1>1 DEF TextKept, HasText
<1> QED BY <1>5, <1>6, <1>7, <1>8

\* Without unknown tags and other names, blocks only lose doubles.
LEMMA NothingToRename ==
  ASSUME NEW b, Shape(b), ListsFit(b), RatingFit(b), Unknown(b) = {}, Aliases(b) = {},
         NEW c, c = Canonicalized(b)
  PROVE  ListsFit(c) /\ RatingFit(c)
<1>1. /\ \A f \in Fields \ Content : c.tags[f] = b.tags[f]
      /\ \A f \in Content : c.tags[f] = Dedupe({Renamed(t) : t \in b.tags[f] \ (IF f = "general" THEN Unknown(b) ELSE {})})
      /\ c.conf = RenamedConfidences(b) /\ c.line = b.line /\ c.negative = b.negative
  BY CanonicalizedIs
<1>2. ASSUME NEW f \in Content PROVE c.tags[f] = Dedupe(b.tags[f])
  <2>1. \A t \in b.tags[f] : Renamed(t) = t
    BY <1>2 DEF Aliases, Renamed
  <2>2. {Renamed(t) : t \in b.tags[f] \ (IF f = "general" THEN Unknown(b) ELSE {})} = b.tags[f]
    BY <2>1
  <2> QED BY <1>1, <1>2, <2>2
<1>3. c.conf = b.conf
  <2>1. ConfidenceKeys(Unknown(b)) = {} /\ ConfidenceKeys(Aliases(b)) = {}
    BY DEF ConfidenceKeys
  <2>2. RenamedConfidences(b) = {e : e \in b.conf}
    BY <2>1 DEF RenamedConfidences
  <2> QED BY <1>1, <2>2
<1>4. \A f, t : Certain(c, f, t) <=> Certain(b, f, t)
  BY <1>3 DEF Certain
<1>5. ConfidenceKeys(CertainTags(c)) = ConfidenceKeys(CertainTags(b))
  <2>1. ASSUME NEW t \in CertainTags(c) PROVE t \in CertainTags(b)
    <3>1. PICK f \in Fields : t \in c.tags[f] /\ Certain(c, f, t)
      BY <2>1, CertainTagsAre
    <3>2. t \in b.tags[f]
      BY <1>1, <1>2, <3>1, DedupeKeeps
    <3> QED BY <1>4, <3>1, <3>2, CertainTagsAre
  <2>2. ASSUME NEW t \in CertainTags(b)
        PROVE  \E u \in CertainTags(c) : ConfidenceKey(u) = ConfidenceKey(t)
    <3>1. PICK f \in Fields : t \in b.tags[f] /\ Certain(b, f, t)
      BY <2>2, CertainTagsAre
    <3>2. PICK u \in c.tags[f] : DedupeKey(u) = DedupeKey(t)
      BY <1>1, <1>2, <3>1, DedupeKeeps
    <3>3. ConfidenceKey(u) = ConfidenceKey(t)
      BY <3>2, KeysTell
    <3>4. Certain(c, f, u)
      BY <1>4, <3>1, <3>3, CertainByKey
    <3> QED BY <3>2, <3>3, <3>4, CertainTagsAre
  <2> QED BY <2>1, <2>2 DEF ConfidenceKeys
<1>6. ListsFit(c)
  BY <1>1, <1>5 DEF ListsFit
<1>7. RatingFit(c)
  BY <1>1, FieldNames DEF RatingFit, Cleaned, RatingsOf
<1> QED BY <1>6, <1>7

-----------------------------------------------------------------------------
(* A draft that got through.                                               *)

Whole(b) == Shape(b) /\ ListsFit(b) /\ RatingFit(b)
Good(b) == Whole(b) /\ (NeedsRevision => TagsStand(b) /\ Recognized(b) /\ OneRating(b) /\ TextKept(b))

LEMMA FittedIsGood ==
  ASSUME NEW b, Whole(b), NEW rating \in RatingChoices(b), NEW chars, NEW c, NEW n,
         c = IF NeedsRevision THEN Attached(Revised(b, rating, chars)) ELSE b, n = Normalized(c)
  PROVE  Good(c) /\ Good(n)
<1> DEFINE r == Revised(b, rating, chars)
           k == Canonicalized(c)
<1>1. CASE NeedsRevision
  <2>1. Shape(r) /\ Firm(r) /\ Own(r) /\ OneRating(r) /\ TextKept(r)
    BY RevisedStands DEF Whole
  <2>2. c = Attached(r)
    BY <1>1
  <2> HIDE DEF r
  <2>3. Whole(c)
    BY <2>1, <2>2, AttachedIs DEF Whole
  <2>4. Firm(c) /\ Own(c) /\ OneRating(c) /\ TextKept(c)
    BY <2>1, <2>2, AttachedStands
  <2>5. Good(c)
    BY <2>3, <2>4, FirmIsKept, OwnIsRecognized DEF Good
  <2>6. Shape(k)
    BY <2>3, CanonicalizedIs DEF Whole
  <2>7. TagsStand(k) /\ Recognized(k) /\ OneRating(k) /\ TextKept(k)
    BY <2>3, <2>4, CanonicalizedStands DEF Whole
  <2>8. CASE Unknown(c) = {} /\ Aliases(c) = {}
    <3>1. n = k
      BY <2>8 DEF Normalized
    <3>2. ListsFit(k) /\ RatingFit(k)
      BY <2>3, <2>8, NothingToRename DEF Whole
    <3> QED BY <2>5, <2>6, <2>7, <3>1, <3>2 DEF Good, Whole
  <2>9. CASE ~(Unknown(c) = {} /\ Aliases(c) = {}) /\ Attachable(k)
    <3>1. n = Attached(k)
      BY <2>9 DEF Normalized
    <3> HIDE DEF k
    <3>2. Whole(n)
      BY <2>6, <3>1, AttachedIs DEF Whole
    <3>3. TagsStand(n) /\ Recognized(n) /\ OneRating(n) /\ TextKept(n)
      BY <2>6, <2>7, <3>1, AttachedKeeps
    <3> QED BY <2>5, <3>2, <3>3 DEF Good
  <2>10. CASE ~(Unknown(c) = {} /\ Aliases(c) = {}) /\ ~Attachable(k)
    <3>1. n = c
      BY <2>10 DEF Normalized
    <3> QED BY <2>5, <3>1
  <2> QED BY <2>8, <2>9, <2>10
<1>2. CASE ~NeedsRevision
  <2>1. Whole(c) /\ Shape(k)
    BY <1>2, CanonicalizedIs DEF Whole
  <2>2. CASE Unknown(c) = {} /\ Aliases(c) = {}
    <3>1. n = k
      BY <2>2 DEF Normalized
    <3>2. ListsFit(k) /\ RatingFit(k)
      BY <2>1, <2>2, NothingToRename DEF Whole
    <3> QED BY <1>2, <2>1, <3>1, <3>2 DEF Good, Whole
  <2>3. CASE ~(Unknown(c) = {} /\ Aliases(c) = {}) /\ Attachable(k)
    <3>1. n = Attached(k)
      BY <2>3 DEF Normalized
    <3> HIDE DEF k
    <3>2. Whole(n)
      BY <2>1, <3>1, AttachedIs DEF Whole
    <3> QED BY <1>2, <2>1, <3>2 DEF Good
  <2>4. CASE ~(Unknown(c) = {} /\ Aliases(c) = {}) /\ ~Attachable(k)
    <3>1. n = c
      BY <2>4 DEF Normalized
    <3> QED BY <1>2, <2>1, <3>1 DEF Good
  <2> QED BY <2>2, <2>3, <2>4
<1> QED BY <1>1, <1>2

LEMMA StyledIsGood ==
  ASSUME NEW b, Good(b), NEW c, c = Styled(b)
  PROVE  Good(c)
<1>1. CASE prompt.style # "tags"
  BY <1>1 DEF Styled
<1>2. CASE prompt.style = "tags"
  <2> DEFINE m == [b EXCEPT !.text = "none", !.moved = {}]
  <2>1. c = Attached(m)
    BY <1>2 DEF Styled
  <2>2. /\ DOMAIN m = DOMAIN NoBody /\ m.tags = b.tags /\ m.conf = b.conf /\ m.negative = b.negative
        /\ m.removed = b.removed /\ m.chars = b.chars
    BY FieldNames DEF Good, Whole, Shape
  <2> HIDE DEF m
  <2>3. Shape(m)
    BY <2>2 DEF Good, Whole, Shape
  <2>4. Whole(c)
    BY <2>1, <2>3, AttachedIs DEF Whole
  <2>5. ASSUME NeedsRevision PROVE TagsStand(m) /\ Recognized(m) /\ OneRating(m) /\ TextKept(m)
    <3>1. \A t : (Excused(m, t) <=> Excused(b, t)) /\ (Doubted(m, t) <=> Doubted(b, t)) /\ (Miscalled(m, t) <=> Miscalled(b, t))
      BY <2>2 DEF Excused, Claimed, Miscalled, LockedRemovals, Doubted
    <3>2. \A f, t : Certain(m, f, t) <=> Certain(b, f, t)
      BY <2>2 DEF Certain
    <3>3. TagsStand(b) /\ Recognized(b) /\ OneRating(b)
      BY <2>5 DEF Good
    <3>4. TagsStand(m)
      BY <2>2, <3>1, <3>2, <3>3 DEF TagsStand
    <3>5. Recognized(m)
      BY <2>2, <3>3 DEF Recognized
    <3>6. OneRating(m)
      BY <2>2, <3>1, <3>3 DEF OneRating, Cleaned, RatingsOf
    <3>7. TextKept(m)
      BY <1>2 DEF TextKept
    <3> QED BY <3>4, <3>5, <3>6, <3>7
  <2>6. NeedsRevision => TagsStand(c) /\ Recognized(c) /\ OneRating(c) /\ TextKept(c)
    BY <2>1, <2>3, <2>5, AttachedKeeps
  <2> QED BY <2>4, <2>6 DEF Good
<1> QED BY <1>1, <1>2

-----------------------------------------------------------------------------
(* The answer, without the tags that other fields add.                     *)

\* A tag of the prompt that is not in the line has its reason.
Accounted(b) ==
  \A t \in CurrentTags : Missing(b, t) => Excused(b, t) \/ InContext(t) \/ Doubted(b, t)

Answered(b) ==
  /\ Shape(b) /\ ListsFit(b)
  /\ NeedsRevision => Accounted(b) /\ Recognized(b) /\ TextKept(b)
  /\ ToSet(Ratings) \cap prompt.context = {} =>
       /\ RatingsOf(b) # {} /\ Above(RatingsOf(b)) \subseteq b.negative
       /\ NeedsRevision => OneRating(b)

LEMMA WithoutContextIsAnswered ==
  ASSUME NEW b, Good(b), NEW c, c = WithoutContext(b)
  PROVE  Answered(c)
<1> DEFINE Stays(t) == t.form = "prefixed" \/ t.name \notin prompt.context
           tags == [f \in Fields |-> {t \in b.tags[f] : Stays(t)}]
           line == {t \in b.line : Stays(t)}
           conf == {e \in b.conf : Stays(e[1])}
<1>1. c = [b EXCEPT !.tags = tags, !.line = line, !.conf = conf]
  BY DEF WithoutContext
<1>2. \A f \in Fields : \A t : t \in tags[f] <=> t \in b.tags[f] /\ Stays(t)
  OBVIOUS
<1>3. DOMAIN tags = Fields /\ line \subseteq b.line
  OBVIOUS
<1>4. \A t, u : ConfidenceKey(t) = ConfidenceKey(u) => (Stays(t) <=> Stays(u))
  BY RatingByKey
<1>5. \A t : Stays(t) \/ t.name \in prompt.context
  OBVIOUS
<1>6. /\ \A t : t \in line <=> t \in b.line /\ Stays(t)
      /\ \A e : e \in conf <=> e \in b.conf /\ Stays(e[1])
  OBVIOUS
<1>7. ToSet(Ratings) \cap prompt.context = {} => \A t : IsRating(t) => Stays(t)
  BY DEF IsRating
<1> HIDE DEF tags, line, conf, Stays
<1>8. /\ DOMAIN c = DOMAIN NoBody /\ c.tags = tags /\ c.line = line /\ c.conf = conf
      /\ c.text = b.text /\ c.moved = b.moved /\ c.negative = b.negative
      /\ c.removed = b.removed /\ c.textRemoved = b.textRemoved /\ c.chars = b.chars
  BY <1>1, FieldNames DEF Good, Whole, Shape
<1>9. Shape(c)
  BY <1>3, <1>6, <1>8 DEF Good, Whole, Shape
<1>10. ASSUME NEW f, NEW t, Stays(t) PROVE Certain(c, f, t) <=> Certain(b, f, t)
  <2>1. \A e : ConfidenceKey(e[1]) = ConfidenceKey(t) => (e \in c.conf <=> e \in b.conf)
    BY <1>4, <1>6, <1>8, <1>10
  <2> QED BY <2>1 DEF Certain
<1>11. ListsFit(c)
  <2>1. \A t : t \in CertainTags(c) <=> t \in CertainTags(b) /\ Stays(t)
    <3> TAKE t
    <3>1. t \in CertainTags(c) <=> \E f \in Fields : t \in b.tags[f] /\ Stays(t) /\ Certain(c, f, t)
      BY <1>2, <1>8, CertainTagsAre
    <3>2. t \in CertainTags(b) <=> \E f \in Fields : t \in b.tags[f] /\ Certain(b, f, t)
      BY CertainTagsAre
    <3> QED BY <1>10, <3>1, <3>2
  <2>2. ConfidenceKeys(CertainTags(b)) = ConfidenceKeys(b.line)
    BY DEF Good, Whole, ListsFit
  <2>3. ASSUME NEW t \in CertainTags(c) PROVE \E u \in c.line : ConfidenceKey(u) = ConfidenceKey(t)
    <3>1. PICK u \in b.line : ConfidenceKey(u) = ConfidenceKey(t)
      BY <2>1, <2>2, <2>3 DEF ConfidenceKeys
    <3> QED BY <1>4, <1>6, <1>8, <2>1, <2>3, <3>1
  <2>4. ASSUME NEW t \in c.line PROVE \E u \in CertainTags(c) : ConfidenceKey(u) = ConfidenceKey(t)
    <3>1. t \in b.line /\ Stays(t)
      BY <1>6, <1>8, <2>4
    <3>2. PICK u \in CertainTags(b) : ConfidenceKey(u) = ConfidenceKey(t)
      BY <2>2, <3>1 DEF ConfidenceKeys
    <3> QED BY <1>4, <2>1, <3>1, <3>2
  <2> QED BY <2>3, <2>4 DEF ListsFit, ConfidenceKeys
<1>12. \A t : (Excused(c, t) <=> Excused(b, t)) /\ (Miscalled(c, t) <=> Miscalled(b, t))
  BY <1>8 DEF Excused, Claimed, Miscalled, LockedRemovals
<1>13. ASSUME NeedsRevision PROVE Accounted(c)
  <2> SUFFICES ASSUME NEW t \in CurrentTags, Missing(c, t), ~Excused(c, t), ~InContext(t)
      PROVE  Doubted(c, t)
    BY DEF Accounted
  <2>1. CASE Doubted(b, t)
    <3>1. PICK n \in DOMAIN Alias, e \in b.conf : t.name \in {n, Alias[n]} /\ e[1].name = Alias[n] /\ e[2] = "low"
      BY <2>1 DEF Doubted
    <3>2. Alias[n] \notin prompt.context
      BY <3>1 DEF InContext, Names
    <3>3. e \in c.conf
      BY <1>5, <1>6, <1>8, <3>1, <3>2
    <3> QED BY <3>1, <3>3 DEF Doubted
  <2>2. CASE \E f \in Fields : \E u \in b.tags[f] : t.name \in Names(u.name) /\ Certain(b, f, u)
    <3>1. PICK f \in Fields : \E u \in b.tags[f] : t.name \in Names(u.name) /\ Certain(b, f, u)
      BY <2>2
    <3>2. PICK u \in b.tags[f] : t.name \in Names(u.name) /\ Certain(b, f, u)
      BY <3>1
    <3>3. u \in CertainTags(b)
      BY <3>2, CertainTagsAre
    <3>4. PICK v \in b.line : ConfidenceKey(v) = ConfidenceKey(u)
      BY <3>3 DEF Good, Whole, ListsFit, ConfidenceKeys
    <3>5. t.name \in Names(v.name)
      BY <3>2, <3>4, RatingByKey
    <3>6. v \notin c.line
      BY <3>5 DEF Missing
    <3>7. v.name \in prompt.context
      BY <1>5, <1>6, <1>8, <3>6
    <3> QED BY <3>5, <3>7 DEF InContext
  <2>3. TagsStand(b) /\ ~Excused(b, t)
    BY <1>12, <1>13 DEF Good
  <2> QED BY <2>1, <2>2, <2>3 DEF TagsStand
<1>14. ASSUME NeedsRevision PROVE Recognized(c) /\ TextKept(c)
  <2>1. Recognized(b) /\ TextKept(b)
    BY <1>14 DEF Good
  <2>2. Recognized(c)
    BY <1>2, <1>8, <2>1, FieldNames DEF Recognized
  <2> QED BY <1>8, <2>1, <2>2 DEF TextKept, HasText
<1>15. ASSUME ToSet(Ratings) \cap prompt.context = {}
       PROVE  RatingsOf(c) = RatingsOf(b)
  <2>1. \A t : IsRating(t) => (t \in c.tags["quality"] <=> t \in b.tags["quality"])
    BY <1>2, <1>7, <1>8, <1>15, FieldNames
  <2> QED BY <2>1 DEF RatingsOf
<1>16. ASSUME NeedsRevision, ToSet(Ratings) \cap prompt.context = {}
       PROVE  OneRating(c)
  <2>1. OneRating(b)
    BY <1>16 DEF Good
  <2>2. Cleaned(b) => Cleaned(c)
    BY <1>2, <1>8, FieldNames DEF Cleaned
  <2> QED BY <1>12, <1>15, <1>16, <2>1, <2>2 DEF OneRating
<1>17. RatingsOf(b) # {} /\ Above(RatingsOf(b)) \subseteq b.negative
  BY DEF Good, Whole, RatingFit
<1> QED BY <1>8, <1>9, <1>11, <1>13, <1>14, <1>15, <1>16, <1>17 DEF Answered

\* The number of rules that a draft breaks.
LEMMA ViolationsAreCounted ==
  ASSUME NEW b
  PROVE  Violations(b) \in Nat
<1>1. IsFiniteSet(Rules)
  <2>1. \A S, x : IsFiniteSet(S) => IsFiniteSet(S \cup {x})
    BY FS_AddElement
  <2>2. IsFiniteSet({"rating", "subject_mix"})
    <3>1. IsFiniteSet({} \cup {"rating"} \cup {"subject_mix"})
      BY <2>1, FS_EmptySet
    <3>2. {} \cup {"rating"} \cup {"subject_mix"} = {"rating", "subject_mix"}
      OBVIOUS
    <3> QED BY <3>1, <3>2
  <2>3. IsFiniteSet({"rating", "subject_mix"} \cup {"identity_leak"} \cup {"natural_length"} \cup {"weight_syntax"}
                     \cup {"two_ratings"} \cup {"both_sides"})
    BY <2>1, <2>2
  <2>4. Rules = {"rating", "subject_mix"} \cup {"identity_leak"} \cup {"natural_length"} \cup {"weight_syntax"}
                 \cup {"two_ratings"} \cup {"both_sides"}
    BY DEF Rules
  <2> QED BY <2>3, <2>4
<1>2. IsFiniteSet({rule \in Rules : Broken(b, rule)})
  BY <1>1, FS_Subset
<1> QED BY <1>2, FS_CardinalityType DEF Violations

-----------------------------------------------------------------------------
(* The invariant.                                                          *)

\* What is said of a body depends on the prompt alone, which no step changes.
LEMMA PromptStays ==
  ASSUME prompt' = prompt
  PROVE  /\ NeedsRevision' = NeedsRevision
         /\ \A b : (Good(b)' <=> Good(b)) /\ (Answered(b)' <=> Answered(b)) /\ Violations(b)' = Violations(b)
<1>1. CurrentTags' = CurrentTags /\ NeedsRevision' = NeedsRevision
  BY DEF CurrentTags, NeedsRevision
<1>2. \A t : Mentioned(t)' <=> Mentioned(t)
  BY DEF Mentioned
<1>3. \A b, chars : LockedRemovals(b, chars)' = LockedRemovals(b, chars)
  BY <1>2 DEF LockedRemovals
<1>4. \A b, t : Excused(b, t)' <=> Excused(b, t)
  BY <1>3 DEF Excused, Claimed
<1>5. \A n : Familiar(n)' <=> Familiar(n)
  BY DEF Familiar
<1>6. \A t : GoodRating(t)' <=> GoodRating(t)
  BY <1>1, <1>2 DEF GoodRating
<1>7. \A b : TagsStand(b)' <=> TagsStand(b)
  BY <1>1, <1>4 DEF TagsStand
<1>8. \A b : Recognized(b)' <=> Recognized(b)
  BY <1>5 DEF Recognized
<1>9. \A b : (OneRating(b)' <=> OneRating(b)) /\ (TextKept(b)' <=> TextKept(b))
  BY <1>1, <1>6 DEF OneRating, TextKept
<1>10. \A b : Good(b)' <=> Good(b)
  BY <1>1, <1>7, <1>8, <1>9 DEF Good
<1>11. \A t : InContext(t)' <=> InContext(t)
  BY DEF InContext
<1>12. \A b : Accounted(b)' <=> Accounted(b)
  BY <1>1, <1>4, <1>11 DEF Accounted
<1>13. \A b : Answered(b)' <=> Answered(b)
  BY <1>1, <1>8, <1>9, <1>12 DEF Answered
<1>14. \A b, rule : Broken(b, rule)' <=> Broken(b, rule)
  BY DEF Broken
<1>15. \A b : Violations(b)' = Violations(b)
  BY <1>14 DEF Violations
<1> QED BY <1>1, <1>10, <1>13, <1>15

\* As many drafts got through as the model was asked, at most.
Tried(n) ==
  \/ tries = <<>>
  \/ n >= 1 /\ \E b : Good(b) /\ tries = <<b>>
  \/ n >= 2 /\ \E b, c : Good(b) /\ Good(c) /\ tries = <<b, c>>

AssistInv ==
  /\ phase \in {"asked", "drafted", "chosen", "responded", "refused"} /\ Shape(answer)
  /\ calls \in 0 .. 2
  /\ phase = "asked" => calls < 2
  /\ phase = "drafted" => calls > 0 /\ Tried(calls - 1) /\ Whole(draft)
  /\ Tried(calls)
  /\ phase = "chosen" => Good(answer) /\ \A i \in DOMAIN tries : Violations(answer) <= Violations(tries[i])
  /\ phase = "responded" => Answered(answer)
  /\ phase = "refused" => tries = <<>>

LEMMA AnswersFit ==
  ASSUME NEW i \in 1 .. 2, NEW a \in Answers[i]
  PROVE  Shape(a.body)
BY AnswersAssumption DEF Shape

\* A call that comes to nothing.
LEMMA CallFailsKeeps ==
  ASSUME AssistInv, NEW why, CallFails(why), phase \in {"asked", "drafted"},
         calls' = IF phase = "asked" THEN calls + 1 ELSE calls,
         UNCHANGED <<prompt, tries>>
  PROVE  AssistInv'
<1>1. calls' \in 1 .. 2 /\ (phase = "asked" => calls' = calls + 1) /\ (phase = "drafted" => calls' = calls)
  BY DEF AssistInv
<1>2. Tried(calls' - 1)
  BY <1>1 DEF AssistInv
<1>3. /\ \A b : (Good(b)' <=> Good(b)) /\ Violations(b)' = Violations(b)
      /\ tries' = tries
  BY PromptStays
<1>4. Tried(calls)'
  BY <1>1, <1>2, <1>3 DEF Tried
<1>5. CASE calls' = 2 /\ tries # <<>>
  <2>1. PICK b : Good(b) /\ tries = <<b>>
    BY <1>2, <1>5 DEF Tried
  <2>2. phase' = "chosen" /\ answer' = b
    BY <1>5, <2>1 DEF CallFails, Give
  <2>3. Shape(b) /\ Violations(b) \in Nat
    BY <2>1, ViolationsAreCounted DEF Good, Whole
  <2>4. \A i \in DOMAIN tries' : Violations(answer)' <= Violations(tries[i])'
    <3>1. \A i \in DOMAIN tries' : tries'[i] = b
      BY <1>3, <2>1
    <3> QED BY <1>3, <2>2, <2>3, <3>1
  <2>5. Good(answer)' /\ Shape(answer)'
    BY <1>3, <2>1, <2>2, <2>3 DEF Shape
  <2> QED BY <1>1, <1>4, <2>2, <2>4, <2>5 DEF AssistInv
<1>6. CASE ~(calls' = 2 /\ tries # <<>>)
  <2>1. answer' = answer /\ (phase' = "refused" \/ (phase' = "asked" /\ calls' = 1))
    BY <1>6 DEF CallFails
  <2>2. calls' = 1 => tries = <<>>
    BY <1>2 DEF Tried
  <2>3. tries = <<>>
    BY <1>1, <1>6, <2>2
  <2>4. Shape(answer)'
    BY <2>1 DEF AssistInv, Shape
  <2> QED BY <1>1, <1>3, <1>4, <2>1, <2>3, <2>4 DEF AssistInv
<1> QED BY <1>5, <1>6

LEMMA SecondPlace ==
  ASSUME NEW b, NEW c, NEW s, s = <<c>>, NEW r, r = Append(s, b)
  PROVE  r = <<c, b>>
<1> DEFINE q == <<c, b>>
<1>1. s \in Seq({b, c}) /\ Len(s) = 1 /\ s[1] = c
  OBVIOUS
<1>2. q \in Seq({b, c}) /\ Len(q) = 2 /\ q[1] = c /\ q[2] = b
  OBVIOUS
<1> HIDE DEF q
<1>3. /\ r \in Seq({b, c}) /\ Len(r) = Len(s) + 1
      /\ (\A i \in 1 .. Len(s) : r[i] = s[i]) /\ r[Len(s) + 1] = b
  BY <1>1, AppendProperties
<1>4. Len(r) = 2 /\ r[1] = c /\ r[2] = b
  BY <1>1, <1>3
<1>5. r = q
  BY <1>2, <1>3, <1>4, SeqEqual
<1> QED BY <1>5 DEF q

LEMMA JudgedKeeps ==
  ASSUME AssistInv, phase = "drafted", NEW b, Good(b), Judged(b), UNCHANGED <<prompt, calls, draft>>
  PROVE  AssistInv'
<1>1. /\ \A c : (Good(c)' <=> Good(c)) /\ Violations(c)' = Violations(c)
      /\ calls' = calls /\ calls \in 1 .. 2 /\ tries' = Append(tries, b)
  BY PromptStays DEF AssistInv, Judged
<1>2. Shape(b) /\ Violations(b) \in Nat
  BY ViolationsAreCounted DEF Good, Whole
<1>3. tries = <<>> \/ (calls = 2 /\ \E c : Good(c) /\ tries = <<c>>)
  BY <1>1 DEF AssistInv, Tried
<1>4. CASE tries = <<>>
  <2>1. tries' = <<b>> /\ Tried(calls)'
    BY <1>1, <1>4 DEF Tried
  <2>2. CASE calls = 1 /\ prompt.retry /\ Violations(b) > 0
    <3>1. phase' = "asked" /\ answer' = answer
      BY <2>2 DEF Judged
    <3> QED BY <1>1, <2>1, <2>2, <3>1 DEF AssistInv, Shape
  <2>3. CASE ~(calls = 1 /\ prompt.retry /\ Violations(b) > 0)
    <3>1. phase' = "chosen" /\ answer' = b
      BY <1>4, <2>3 DEF Judged, Give
    <3>2. \A i \in DOMAIN tries' : Violations(answer)' <= Violations(tries[i])'
      <4>1. \A i \in DOMAIN tries' : tries'[i] = b
        BY <2>1
      <4> QED BY <1>1, <1>2, <3>1, <4>1
    <3>3. Good(answer)' /\ Shape(answer)'
      BY <1>1, <1>2, <3>1 DEF Shape
    <3> QED BY <1>1, <2>1, <3>1, <3>2, <3>3 DEF AssistInv
  <2> QED BY <2>2, <2>3
<1>5. CASE calls = 2 /\ \E c : Good(c) /\ tries = <<c>>
  <2>1. PICK c : Good(c) /\ tries = <<c>>
    BY <1>5
  <2>2. tries' = <<c, b>> /\ tries[1] = c /\ tries # <<>>
    <3>1. tries' = <<c, b>>
      BY <1>1, <2>1, SecondPlace
    <3>2. <<c>> # <<>> /\ <<c>>[1] = c
      OBVIOUS
    <3> QED BY <1>1, <2>1, <3>1, <3>2
  <2>3. Tried(calls)'
    <3>1. \E d, e : Good(d)' /\ Good(e)' /\ tries' = <<d, e>>
      BY <1>1, <2>1, <2>2
    <3>2. calls' >= 2
      BY <1>1, <1>5
    <3> QED BY <3>1, <3>2 DEF Tried
  <2>4. Violations(c) \in Nat /\ Shape(c)
    BY <2>1, ViolationsAreCounted DEF Good, Whole
  <2>5. /\ phase' = "chosen" /\ answer' \in {b, c}
        /\ answer' = IF Violations(c) <= Violations(b) THEN c ELSE b
    BY <1>5, <2>2 DEF Judged, Give
  <2>6. \A i \in DOMAIN tries' : Violations(answer)' <= Violations(tries[i])'
    <3>1. \A i \in DOMAIN tries' : tries'[i] \in {b, c}
      BY <2>2
    <3>2. Violations(answer)' <= Violations(b) /\ Violations(answer)' <= Violations(c)
      BY <1>1, <1>2, <2>4, <2>5
    <3> QED BY <1>1, <3>1, <3>2
  <2>7. Good(answer)' /\ Shape(answer)'
    BY <1>1, <1>2, <2>1, <2>4, <2>5 DEF Shape
  <2> QED BY <1>1, <2>3, <2>5, <2>6, <2>7 DEF AssistInv
<1> QED BY <1>3, <1>4, <1>5

LEMMA ProposeKeeps == AssistInv /\ Propose => AssistInv'
<1> SUFFICES ASSUME AssistInv, Propose PROVE AssistInv'
  OBVIOUS
<1>1. /\ phase = "asked" /\ calls' = calls + 1 /\ calls \in 0 .. 1 /\ calls + 1 \in 1 .. 2
      /\ prompt' = prompt /\ tries' = tries
  BY DEF AssistInv, Propose
<1>2. PICK a \in Answers[calls + 1] :
        IF a.kind = "body" /\ Attachable(a.body)
        THEN draft' = Attached(a.body) /\ phase' = "drafted" /\ UNCHANGED answer
        ELSE CallFails(IF a.kind = "unavailable" THEN "unavailable" ELSE "invalid") /\ UNCHANGED draft
  BY DEF Propose
<1>3. CASE a.kind = "body" /\ Attachable(a.body)
  <2>1. draft' = Attached(a.body) /\ phase' = "drafted" /\ answer' = answer
    BY <1>2, <1>3
  <2>2. Shape(a.body)
    BY <1>1, AnswersFit
  <2>3. Whole(draft')
    BY <2>1, <2>2, AttachedIs DEF Whole
  <2>4. Whole(draft)' /\ Shape(answer)'
    BY <2>1, <2>3 DEF AssistInv, Whole, Shape, ListsFit, RatingFit, CertainTags, AboveThreshold, Certain, Cleaned, RatingsOf
  <2>5. Tried(calls)' /\ Tried(calls - 1)'
    <3>1. \A b : Good(b)' <=> Good(b)
      BY <1>1, PromptStays
    <3> QED BY <1>1, <3>1 DEF AssistInv, Tried
  <2> QED BY <1>1, <2>1, <2>4, <2>5 DEF AssistInv
<1>4. CASE ~(a.kind = "body" /\ Attachable(a.body))
  <2>1. PICK why : CallFails(why)
    BY <1>2, <1>4
  <2> QED BY <1>1, <2>1, CallFailsKeeps
<1> QED BY <1>3, <1>4

LEMMA PostprocessKeeps == AssistInv /\ Postprocess => AssistInv'
<1> SUFFICES ASSUME AssistInv, Postprocess PROVE AssistInv'
  OBVIOUS
<1>1. phase = "drafted" /\ Whole(draft) /\ prompt' = prompt /\ calls' = calls /\ draft' = draft
  BY DEF AssistInv, Postprocess
<1>2. PICK chars \in {Characters, {}}, readable \in BOOLEAN, rating \in RatingChoices(draft) :
       LET revised == IF NeedsRevision THEN Revised(draft, rating, chars) ELSE draft
           fitted == IF NeedsRevision THEN Attached(revised) ELSE draft
           final == IF readable THEN Normalized(fitted) ELSE fitted
       IN IF (NeedsRevision => Attachable(revised)) /\ Stylable(final)
          THEN Judged(Styled(final))
          ELSE CallFails("invalid") /\ UNCHANGED tries
  BY DEF Postprocess
<1> DEFINE fitted == IF NeedsRevision THEN Attached(Revised(draft, rating, chars)) ELSE draft
           final == IF readable THEN Normalized(fitted) ELSE fitted
<1>3. Judged(Styled(final)) \/ (CallFails("invalid") /\ UNCHANGED tries)
  <2>1. CASE NeedsRevision
    BY <1>2, <2>1
  <2>2. CASE ~NeedsRevision
    BY <1>2, <2>2
  <2> QED BY <2>1, <2>2
<1>4. Good(fitted) /\ Good(Normalized(fitted))
  BY <1>1, FittedIsGood
<1> HIDE DEF fitted
<1>5. Good(final)
  BY <1>4
<1> HIDE DEF final
<1>6. Good(Styled(final))
  BY <1>5, StyledIsGood
<1>7. CASE Judged(Styled(final))
  BY <1>1, <1>6, <1>7, JudgedKeeps
<1>8. CASE CallFails("invalid") /\ UNCHANGED tries
  BY <1>1, <1>8, CallFailsKeeps
<1> QED BY <1>3, <1>7, <1>8

LEMMA RespondKeeps == AssistInv /\ Respond => AssistInv'
<1> SUFFICES ASSUME AssistInv, Respond PROVE AssistInv'
  OBVIOUS
<1>1. /\ phase' = "responded" /\ answer' = WithoutContext(answer) /\ Good(answer)
      /\ prompt' = prompt /\ calls' = calls /\ draft' = draft /\ tries' = tries
  BY DEF AssistInv, Respond
<1>2. Answered(answer')
  BY <1>1, WithoutContextIsAnswered
<1>3. \A b : (Good(b)' <=> Good(b)) /\ (Answered(b)' <=> Answered(b))
  BY <1>1, PromptStays
<1>4. Answered(answer)' /\ Shape(answer)'
  BY <1>2, <1>3 DEF Answered, Shape
<1>5. Tried(calls)'
  BY <1>1, <1>3 DEF AssistInv, Tried
<1> QED BY <1>1, <1>4, <1>5 DEF AssistInv

\* What is said of an answer follows.
LEMMA AnswerIsSound == AssistInv => AssistSound
<1> SUFFICES ASSUME AssistInv PROVE AssistSound
  OBVIOUS
<1>1. AssistTypeOK
  <2>1. Len(tries) <= calls
    <3>1. calls \in {0, 1, 2} /\ Tried(calls)
      BY DEF AssistInv
    <3>2. CASE tries = <<>>
      BY <3>1, <3>2
    <3>3. CASE calls >= 1 /\ \E b : tries = <<b>>
      <4>1. Len(tries) = 1
        BY <3>3
      <4> QED BY <3>1, <3>3, <4>1
    <3>4. CASE calls >= 2 /\ \E b, c : tries = <<b, c>>
      <4>1. Len(tries) = 2
        BY <3>4
      <4> QED BY <3>1, <3>4, <4>1
    <3> QED BY <3>1, <3>2, <3>3, <3>4 DEF Tried
  <2> QED BY <2>1 DEF AssistInv, AssistTypeOK, Shape
<1>2. PromptKept
  <2>1. ASSUME Responded, NeedsRevision PROVE Accounted(answer) /\ TextKept(answer)
    BY <2>1 DEF AssistInv, Responded, Answered
  <2> QED BY <2>1 DEF PromptKept, Accounted, Excused, TextKept
<1>3. NothingForeign
  <2>1. ASSUME Responded, NeedsRevision PROVE Recognized(answer)
    BY <2>1 DEF AssistInv, Responded, Answered
  <2> QED BY <2>1 DEF NothingForeign, Recognized, Familiar
<1>4. ListsAgree
  BY DEF AssistInv, Responded, Answered, ListsAgree, ListsFit, CertainTags
<1>5. RatingHolds
  <2> SUFFICES ASSUME Responded, ToSet(Ratings) \cap prompt.context = {}
      PROVE  /\ RatingsOf(answer) # {} /\ Above(RatingsOf(answer)) \subseteq answer.negative
             /\ NeedsRevision /\ (\A t \in CurrentTags : ~Miscalled(answer, t)) =>
                  /\ Cardinality(RatingsOf(answer)) = 1
                  /\ \A t \in RatingsOf(answer) : t \in CurrentTags \/ Mentioned(t) \/ t.name = "safe"
    BY DEF RatingHolds
  <2>1. /\ RatingsOf(answer) # {} /\ Above(RatingsOf(answer)) \subseteq answer.negative
        /\ NeedsRevision => OneRating(answer)
    BY DEF AssistInv, Responded, Answered
  <2>2. ASSUME NeedsRevision, \A t \in CurrentTags : ~Miscalled(answer, t)
        PROVE  /\ Cardinality(RatingsOf(answer)) = 1
               /\ \A t \in RatingsOf(answer) : t \in CurrentTags \/ Mentioned(t) \/ t.name = "safe"
    <3>1. PICK r : RatingsOf(answer) = {r} /\ GoodRating(r)
      BY <2>1, <2>2 DEF OneRating
    <3>2. Cardinality({r}) = 1
      BY FS_Singleton
    <3> QED BY <3>1, <3>2 DEF GoodRating
  <2> QED BY <2>1, <2>2
<1>6. BetterGiven
  BY DEF AssistInv, BetterGiven
<1> QED BY <1>1, <1>2, <1>3, <1>4, <1>5, <1>6 DEF AssistSound

LEMMA AssistBegins == AssistInit => AssistInv
<1> SUFFICES ASSUME AssistInit PROVE AssistInv
  OBVIOUS
<1>1. Shape(NoBody)
  <2>1. NoBody.negative = {} /\ NoBody.conf = {}
    BY DEF NoBody
  <2> QED BY <2>1, FieldNames DEF Shape
<1> QED BY <1>1 DEF AssistInit, AssistInv, Tried

\* The invariant of a completion: drafts that got through are whole, the line, the list
\* and the ratings of each agree, and each has the prompt's tags for sure (propose_checked).
THEOREM AssistInvariance == AssistSpec => []AssistInv
<1>1. AssistInv /\ [AssistNext]_assistVars => AssistInv'
  <2> SUFFICES ASSUME AssistInv, [AssistNext]_assistVars PROVE AssistInv'
    OBVIOUS
  <2>1. CASE AssistNext
    BY <2>1, ProposeKeeps, PostprocessKeeps, RespondKeeps DEF AssistNext
  <2>2. CASE UNCHANGED assistVars
    <3>1. /\ phase' = phase /\ calls' = calls /\ draft' = draft /\ tries' = tries /\ answer' = answer
          /\ prompt' = prompt
      BY <2>2 DEF assistVars
    <3>2. \A b : (Good(b)' <=> Good(b)) /\ (Answered(b)' <=> Answered(b)) /\ Violations(b)' = Violations(b)
      BY <3>1, PromptStays
    <3>3. Tried(calls)' /\ (phase' = "drafted" => Tried(calls - 1)')
      BY <3>1, <3>2 DEF AssistInv, Tried
    <3>4. Shape(answer)' /\ (phase' = "drafted" => Whole(draft)')
      BY <3>1 DEF AssistInv, Whole, Shape, ListsFit, RatingFit, CertainTags, AboveThreshold, Certain, Cleaned, RatingsOf
    <3>5. /\ phase' = "chosen" => Good(answer)' /\ \A i \in DOMAIN tries' : Violations(answer)' <= Violations(tries[i])'
          /\ phase' = "responded" => Answered(answer)'
      BY <3>1, <3>2 DEF AssistInv
    <3> QED BY <3>1, <3>3, <3>4, <3>5 DEF AssistInv
  <2> QED BY <2>1, <2>2
<1> QED BY <1>1, AssistBegins, PTL DEF AssistSpec

\* The user's prompt comes back completed, not changed: its tags and its text are there,
\* nothing foreign is in the locked blocks, list and line agree, the rating is the
\* prompt's, and of two drafts the better one is given.
THEOREM AssistIsSound == AssistSpec => []AssistSound
BY AssistInvariance, AnswerIsSound, PTL
=============================================================================
