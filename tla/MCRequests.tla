----------------------------- MODULE MCRequests -----------------------------
(***************************************************************************)
(* The queue, and beside it the requests that lead to the Jobs it runs.    *)
(* They share no state a property looks at: a behaviour is of one of them, *)
(* the others stay as they began.                                          *)
(***************************************************************************)
EXTENDS JobQueue, PromptAssist, Submission

CONSTANTS c1, c2, p1, p2, ch, ch2, co, co2, sc, sc2, li, li2, s1, t1, t2, r1, r2, rv

VARIABLE part

\* Cancel requests are interchangeable.
ClientSymmetry == Permutations(Clients)

\* Answers of a language model to prompts.
Tags(names) == {Tag(n, "plain") : n \in names}
MCStem == [n \in {"hats"} |-> "hat"]
MCPersons == [n \in {"1girl", "2girls"} |-> IF n = "1girl" THEN 1 ELSE 2]
MCAlias == [n \in {"ai", "cap"} |-> IF n = "ai" THEN "hoshino" ELSE "hat"]

Body(quality, character, subject, general, conf, text, removed, gone) ==
  [kind |-> "body",
   body |-> [NoBody EXCEPT !.tags = [f \in Fields |->
               CASE f = "quality" -> quality [] f = "character" -> character
                 [] f = "subject" -> subject [] f = "artist" -> {} [] f = "general" -> general],
             !.conf = conf, !.text = text, !.removed = removed, !.textRemoved = gone]]

Confs(tags, low) == {<<t, IF t.name \in low THEN "low" ELSE "high">> : t \in tags}

Qualities == {{}, Tags({"safe"}), Tags({"nsfw"}), {Tag("nsfw", "prefixed")}, {Tag("nsfw", "weighted")}, Tags({"best", "safe"})}
People == {{}, Tags({"ai"}), {Tag("hoshino", "escaped")}}
Generals == {{}, Tags({"hat"}), Tags({"cap", "hat"}), Tags({"odd", "cap"}), Tags({"odd"}), Tags({"blue hair", "ai"}), {Tag("hat", "weighted"), Tag("hat", "plain")}, Tags({"nsfw", "hats"})}
Lows == {{}, {"hat"}, {"cap", "hoshino"}, {"odd", "ai", "cap"}}
Claims ==
  {{}, {<<Tag("hat", "plain"), "general">>}, {<<Tag("ai", "plain"), "general">>, <<Tag("best", "plain"), "quality">>},
   {<<Tag(n, "prefixed"), "quality">> : n \in {"nsfw", "foo"}}, {<<Tag("foo", "prefixed"), "general">>}}

Bodies(qualities, people, generals, lows, claims, texts) ==
  {Body(q, h, IF g = {} THEN Tags({"1girl"}) ELSE Tags({"2girls"}), g, Confs(q \cup h \cup g, l), t, r, FALSE) :
     q \in qualities, h \in people, g \in generals, l \in lows, r \in claims, t \in texts}

Fails == {[kind |-> k, body |-> NoBody] : k \in {"broken", "unavailable"}}
Safe == Tags({"safe"})
MCAnswers ==
  << Fails \cup Bodies(Qualities, {{}, Tags({"ai"})}, {Tags({"hat"})}, {{}}, {{}}, {"full"})
       \cup Bodies({Safe}, People, Generals, {{}, {"hat", "odd"}}, {{}}, {"none"})
       \cup Bodies({Safe}, {{}}, {Tags({"cap", "hat"}), Tags({"odd", "cap"})}, Lows, {{}}, {"none", "full"})
       \cup Bodies({Safe}, {{}}, {{}, Tags({"hats"})}, {{}}, Claims, {"none"}),
     Fails \cup Bodies({Safe, Tags({"nsfw"})}, {{}}, {Tags({"hat"})}, {{}}, {{}}, {"full"}) >>

AskTags(tags, mentioned, context, style) ==
  [tags |-> tags, text |-> IF tags = {} THEN "none" ELSE "good", mentioned |-> mentioned,
   context |-> context, style |-> style, image |-> FALSE, retry |-> TRUE]
Had == Tags({"hat", "nsfw", "best"})
Terms == {Tag("nsfw", "prefixed"), Tag("foo", "prefixed"), Tag("safe", "plain")}
Spelled(names) == {<<n, "plain">> : n \in names}
MCPrompts ==
  {AskTags(t, m, {}, s) : t \in {{}, Had, Tags({"ai", "cap"})}, m \in {{}, Spelled({"ai", "nsfw"})}, s \in {"anima", "tags"}}
    \cup {AskTags(Terms, m, {}, "anima") : m \in {{}, Spelled({"nsfw"})}}
    \cup {AskTags(Tags({"odd", "hats", "words"}), {}, n, "anima") : n \in {{}, {"hat"}}}
    \cup {AskTags({Tag("hat", "weighted"), Tag("hoshino", "escaped")}, {}, {}, "anima"),
          [AskTags(Had, {}, {"safe"}, "anima") EXCEPT !.image = TRUE],
          [AskTags(Had, {}, {}, "tags") EXCEPT !.retry = FALSE]}

\* Rows of two Projects, references of two editions, and requests for Jobs.
Or(values) == {Absent} \cup values
MCOwnerOf == ch :> p1 @@ ch2 :> p2 @@ co :> ch @@ co2 :> ch2 @@ sc :> p1 @@ sc2 :> p2 @@ li :> sc @@ li2 :> sc2
MCShotsIn == << t1 :> s1 @@ t2 :> Absent, t1 :> s1 >>
MCCanonsOf == << s1 :> {"canon"} @@ t1 :> {"canon", "voice"} @@ t2 :> {}, s1 :> {"sound"} @@ t1 :> {"canon"} @@ t2 :> {} >>
MCSpeakers == << t1 :> <<"a">> @@ t2 :> <<"a">>, t1 :> <<"a", "b">> >>
Given(of, recipe, inputs) == [kind |-> of, recipe |-> recipe, inputs |-> inputs]
MCDefaults ==
  "project" :> Given("image", r1, {"prompt", "size"}) @@ "scene" :> Given("image", Absent, {"prompt"})
  @@ "shot" :> Given("image", r2, {}) @@ "shot prompt" :> Given("image", Absent, {"prompt"})
  @@ "soft" :> Given("image", Absent, {"size"}) @@ "hard" :> Given("image", r2, {"size"})
  @@ "loud" :> Given("voice", Absent, {})
MCRecipes == r1 :> [kind |-> "image", inputs |-> {"prompt", "size"}]
             @@ r2 :> [kind |-> "image", inputs |-> {"prompt", "size"}]
             @@ rv :> [kind |-> "voice", inputs |-> {}]

NoRecord == [refs |-> {}, picked |-> {}]
Request_ ==
  [op |-> "submit", kind |-> "image", project |-> Absent, scene |-> Absent, shot |-> Absent,
   character |-> Absent, costume |-> Absent, stage |-> Absent, line |-> Absent,
   recipe |-> r1, inherited |-> FALSE, looks |-> <<>>, inputs |-> {}, voices |-> <<>>, script |-> <<>>,
   length |-> FALSE, pad |-> FALSE, parent |-> Absent, follows |-> Absent, recorded |-> NoRecord]
Said == [reference |-> TRUE, caption |-> FALSE, canon |-> FALSE]
Told == [reference |-> FALSE, caption |-> TRUE, canon |-> FALSE]

OfLinks == {[Request_ EXCEPT !.project = o, !.character = c, !.costume = d, !.stage = s] :
              o \in Or({p1}), c \in Or({ch, ch2}), d \in Or({co, co2}), s \in Or({sc, sc2})}
OfLines == {[Request_ EXCEPT !.kind = "voice", !.recipe = rv, !.project = o, !.character = c, !.stage = s, !.line = l,
               !.script = <<"a">>, !.voices = v] :
              o \in Or({p1}), c \in Or({ch, ch2}), s \in Or({sc, sc2}), l \in {li, li2}, v \in {<<>>, "a" :> Told}}
RecordedOf(shot) == {Ref(x, 1) : x \in IF shot = Absent THEN {} ELSE {shot} \cup (MCCanonsOf[1][shot] \ {"canon"})}
OfReferences == {[Request_ EXCEPT !.op = o, !.project = w, !.scene = s1, !.shot = t,
                    !.recorded = [refs |-> {Ref(s1, 1), Ref("canon", 1)} \cup RecordedOf(t), picked |-> k]] :
                   o \in Derived \cup {"submit", "preview"}, w \in {p1, p2}, t \in Or({t1, t2}), k \in {{}, {"sound"}}}
OfDefaults == {[Request_ EXCEPT !.project = p2, !.scene = s, !.shot = t, !.recipe = r, !.inherited = i, !.looks = l,
                  !.inputs = n, !.parent = r1, !.follows = f] :
                 s \in {s1}, t \in Or({t1}), r \in Or({r1, rv}), i \in BOOLEAN,
                 l \in {<<>>, <<"soft">>, <<"soft", "hard">>, <<"none">>, <<"loud">>}, f \in Or({r1, r2}), n \in {{"size", "prompt"}, {"odd"}}}
Speak(o, w, t, c, v, x, d) ==
  [Request_ EXCEPT !.op = o, !.kind = "voice", !.recipe = rv, !.project = w, !.scene = IF t = Absent THEN t ELSE s1,
     !.shot = t, !.character = c, !.voices = v, !.script = x, !.pad = d]
Spoken == {<<>>, "a" :> Said, "b" :> Told, "a" :> Bare @@ "b" :> Told, "a" :> Bare @@ "b" :> Bare}
OfVoices ==
  {Speak(o, p2, t, c, v, x, FALSE) : o \in {"submit", "preview"}, t \in Or({t1}), c \in Or({ch2}), v \in Spoken,
                                    x \in {<<"a">>, <<"a", "b">>}}
    \cup {Speak("submit", p1, t1, Absent, "a" :> [Said EXCEPT !.canon = TRUE], <<>>, TRUE),
          Speak("submit", p2, Absent, Absent, "a" :> Said, <<"a">>, TRUE)}
MCRequestsOfJobs == OfLinks \cup OfLines \cup OfReferences \cup OfDefaults \cup OfVoices

Parts == {"queue", "assist", "submission"}

MCInit ==
  /\ part \in Parts
  /\ Init /\ AssistInit /\ SubmissionInit
  /\ part # "assist" => prompt = AskTags({}, {}, {}, "tags")
  /\ part # "submission" => ask = Request_ /\ world.up /\ world.synced = 0 /\ world.voice = "none"

MCNext ==
  /\ UNCHANGED part
  /\ \/ part = "queue" /\ Next /\ UNCHANGED <<assistVars, submissionVars>>
     \/ part = "assist" /\ AssistNext /\ UNCHANGED <<vars, submissionVars>>
     \/ part = "submission" /\ SubmissionNext /\ UNCHANGED <<vars, assistVars>>
     \/ /\ CASE part = "assist" -> phase \in {"responded", "refused"}
             [] part = "submission" -> step \in Ended
             [] OTHER -> FALSE
        /\ UNCHANGED <<vars, assistVars, submissionVars>>

MCSpec == MCInit /\ [][MCNext]_<<part, vars, assistVars, submissionVars>>
=============================================================================
