----------------------------- MODULE MCProjects -----------------------------
(***************************************************************************)
(* Components that share no state a property looks at are checked side by  *)
(* side: a behaviour is of one of them, the others stay as they began.     *)
(***************************************************************************)
EXTENDS ProjectLifecycle, ProjectSync, PackageImports, WorkflowPreparation, ReferenceSource, FiniteSets, TLC

CONSTANTS m1, m2, h1, h2, i1, i2, i3, i4, a, b, c, v, x

VARIABLE part

MCSha == i1 :> "a" @@ i2 :> "a" @@ i3 :> "b" @@ i4 :> "c"
MCPath == i3 :> <<NoLock, i3>> @@ i4 :> <<NoLock, i4>>
MCPackages == {[items |-> {i1, i2, i4}, name |-> "first"], [items |-> {i3, i1}, name |-> "second"],
               [items |-> {i3}, name |-> "first"]}
MCRow(i, imported) ==
  [id |-> <<NoLock, i>>, path |-> <<NoLock, i>>, imported |-> imported, complete |-> TRUE]
MCRows == {MCRow(i3, FALSE), MCRow(i4, TRUE)}

MCKind == a :> "image" @@ b :> "image" @@ c :> "image" @@ v :> "audio"
MCBase == [p \in {a, b, c, v, x} |-> IF p = v THEN "voice" ELSE "image"]

\* What every request of a template gives.
Common(t) ==
  [n \in (Templates[t].required \ Templates[t].uploads) \cup ({"seed", "steps"} \cap Variables(t)) |-> "good"]

\* Some of the choices, or none of them.
Choice(name, values) == {<<>>} \cup {name :> w : w \in values}
Ask(t, inputs) == [template |-> t, defaults |-> Common(t), inputs |-> inputs, schema |-> <<>>]

Loras == {l @@ s : l \in Choice("lora_name", {"good", "blank"}), s \in Choice("lora_strength", {"good", "bad"})}
Hires == {e @@ s @@ n : e \in Choice("hires_enabled", {"on", "off", "bad"}), s \in Choice("hires_scale", {"good", "large"}),
                        n \in Choice("hires_steps", {"zero", "good"})}
FromImage == Choice("source_image", {a, b, v})
Sounds == {m @@ g @@ f : m \in Choice("audio_mode", {"native", "external_voice", "silent", "bad"}),
                         g \in Choice("guide_audio", {v, b}), f \in {<<>>, "guide_frame_idx" :> "good"}}
Frames == {"references" :> s : s \in {<<>>, <<a>>, <<b, a>>, <<b, c>>, <<a, b, c>>}}
Strays == Choice("reference_1", {"good"}) \cup Choice("first_frame", {a})

MCSubmissions ==
  {Ask("anima_txt2img", l @@ h) : l \in Loras, h \in Hires}
    \cup {Ask(t, l @@ i) : t \in {"anima_img2img", "anima_ref_siglip"}, l \in Loras, i \in FromImage}
    \cup {Ask(t, i @@ l) : t \in {"anima_ref_incontext", "image_upscale", "sd15_controlnet"},
             i \in FromImage, l \in Choice("lora_name", {"good"})}
    \cup {Ask("sd15_controlnet", i @@ r) : i \in FromImage, r \in Choice("canny_range", {"good", "bad"})}
    \cup {Ask("anima_inpaint", i @@ m) : i \in FromImage, m \in Choice("mask_image", {a, b, c})}
    \cup {Ask("minimax_h3_ref2v", "length" :> "good" @@ s @@ f @@ r) : s \in Sounds, f \in Frames, r \in {<<>>}}
    \cup {Ask("minimax_h3_ref2v", "length" :> "good" @@ f @@ r) : f \in Frames, r \in Strays}
    \cup {Ask("minimax_h3_i2v", f @@ s @@ l) : s \in Sounds, f \in Choice("first_frame", {a, c}), l \in Choice("length", {"good"})}
    \cup {Ask("ace_step_bgm", s) : s \in Choice("seconds", {"good", "bad"})}
    \cup {[Ask("image_upscale", i) EXCEPT !.schema = s] : i \in FromImage,
            s \in {"source_image" :> TRUE, "source_image" :> FALSE @@ "seed" :> TRUE, "filename_prefix" :> FALSE}}

\* Two commits and one that cannot be read; a second repository; its last snapshot.
Tree(scenes1, scenes2, present, good) ==
  [scenes |-> <<scenes1, scenes2>>,
   says |-> << [s \in {"s", "u"} |-> 1], [s \in {"s", "u"} |-> 2] >>,
   shots |-> [s \in {"s", "u"} |-> IF s = "s" THEN {"shot"} ELSE {}],
   declares |-> [s \in {"s", "u"} |-> IF s = "s" THEN {"c", "d"} ELSE {}],
   voices |-> <<{}, {"v"}>>, files |-> present, whole |-> good]
MCTrees == << Tree({"s"}, {"u"}, {"c", "v"}, TRUE), Tree({"s", "u"}, {"s"}, {"c", "d"}, TRUE),
              Tree({"s"}, {}, {}, FALSE) >>
MCCanonTrees == << {"d"}, {"c", "d"} >>
SnapshotOfFirst == Document(<<1, 0>>)
Question(op, p, s, id) == [op |-> op, project |-> p, scene |-> s, id |-> id]
MCAsks == {Question("scene", 1, "s", "-"), Question("canon", 2, "-", "v")}

\* Requests that synchronise, and those that read, are interchangeable.
Symmetric == Permutations(Syncers) \cup Permutations(Threads)

MCInit ==
  /\ part \in {"lifecycle", "sync", "imports", "preparation", "source"}
  /\ Init /\ SyncInit /\ ImportInit /\ PreparationInit /\ SourceInit
  /\ part # "preparation" => wanted = Ask("image_upscale", <<>>)
  /\ part # "source" => kind = "http"

MCNext ==
  /\ UNCHANGED part
  /\ \/ part = "lifecycle" /\ Next /\ UNCHANGED <<syncVars, importVars, preparationVars, sourceVars>>
     \/ part = "sync" /\ SyncNext /\ UNCHANGED <<vars, importVars, preparationVars, sourceVars>>
     \/ part = "imports" /\ ImportNext /\ UNCHANGED <<vars, syncVars, preparationVars, sourceVars>>
     \/ part = "preparation" /\ PreparationNext /\ UNCHANGED <<vars, syncVars, importVars, sourceVars>>
     \/ part = "source" /\ SourceNext /\ UNCHANGED <<vars, syncVars, importVars, preparationVars>>

MCSpec == MCInit /\ [][MCNext]_<<part, vars, syncVars, importVars, preparationVars, sourceVars>>
=============================================================================
