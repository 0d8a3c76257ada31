------------------------ MODULE WorkflowPreparation ------------------------
(***************************************************************************)
(* From the inputs of a ComfyUI Job to the prompt that ComfyUI runs        *)
(* (adapters/comfyui/prepare.py, workflow.py, sources.py and the upload    *)
(* step of the executor).  A template is a graph of nodes, known by their  *)
(* roles.  Preparation decides which optional nodes a request does without *)
(* and which files it needs, cuts the graph, and writes the values into    *)
(* the nodes that stay.  The Job waits with that graph; when it runs, each *)
(* file is read again, put into ComfyUI's input directory, and its name    *)
(* there is written into the graph.                                        *)
(*                                                                         *)
(* Variables of one role that are handled alike share a name: "sampling"   *)
(* is cfg, sampler_name and scheduler, "size" the width, the height and    *)
(* the batch.  A value is good, bad (_coerce refuses it) or one of those   *)
(* that preparation looks at.                                              *)
(***************************************************************************)
EXTENDS Naturals, Sequences

CONSTANTS
  Sources,        \* files that may be asked for; each is also the name of its content
  Cached,         \* those in the input cache, which nothing moves; the others are artifacts
  Kind,           \* [Sources -> {"image", "audio"}]
  Base,           \* [Places -> file name]
  Spare,          \* paths without a file at first
  MaxReferences,  \* slots for reference images (9 in the template)
  Submissions,    \* records [template, defaults, inputs, schema]
  Foreign,        \* content of a file of the same name another client has put there
  Nothing

Places == Sources \cup Spare

-----------------------------------------------------------------------------
(* The templates.  inputs: for each node that is linked to others, the     *)
(* node each of its inputs comes from; writes: the nodes a variable is     *)
(* written into; optional: the nodes that can be left out, with the one    *)
(* that takes their place.                                                 *)

Over(f, g) == [n \in DOMAIN f \cup DOMAIN g |-> IF n \in DOMAIN f THEN f[n] ELSE g[n]]

LoraWrites == {<<"lora_name", "lora_loader">>, <<"lora_strength", "lora_loader">>}

Encode(clip) == [clip |-> clip]
Sampler(model, latent) ==
  [model |-> model, positive |-> "positive_prompt", negative |-> "negative_prompt", latent_image |-> latent]
Decode(samples, vae) == [samples |-> samples, vae |-> vae]
Save(images) == [images |-> images]

TextWrites ==
  {<<"positive_prompt", "positive_prompt">>, <<"negative_prompt", "negative_prompt">>,
   <<"seed", "ksampler">>, <<"steps", "ksampler">>, <<"sampling", "ksampler">>,
   <<"filename_prefix", "save">>}
AnimaModels == {"unet_name", "clip_name", "vae_name"}
AnimaWrites ==
  TextWrites
    \cup {<<"unet_name", "unet_loader">>, <<"clip_name", "clip_loader">>, <<"vae_name", "vae_loader">>}
SourceWrites == AnimaWrites \cup {<<"source_image", "source_image">>}

Txt2Img ==
  [inputs |-> [lora_loader |-> [model |-> "unet_loader"],
               positive_prompt |-> Encode("clip_loader"), negative_prompt |-> Encode("clip_loader"),
               ksampler |-> Sampler("lora_loader", "latent"),
               hires_upscale |-> [samples |-> "ksampler"],
               hires_ksampler |-> Sampler("lora_loader", "hires_upscale"),
               vae_decode |-> Decode("hires_ksampler", "vae_loader"), save |-> Save("vae_decode")],
   writes |-> AnimaWrites \cup LoraWrites
                \cup {<<"seed", "hires_ksampler">>, <<"sampling", "hires_ksampler">>, <<"size", "latent">>,
                      <<"hires_scale", "hires_upscale">>, <<"hires_upscale_method", "hires_upscale">>,
                      <<"hires_steps", "hires_ksampler">>, <<"hires_denoise", "hires_ksampler">>},
   required |-> {"positive_prompt"} \cup AnimaModels,
   uploads |-> {},
   optional |-> [lora_loader |-> "unet_loader", hires_upscale |-> Nothing, hires_ksampler |-> "ksampler"]]

Img2Img ==
  [inputs |-> [lora_loader |-> [model |-> "unet_loader"],
               positive_prompt |-> Encode("clip_loader"), negative_prompt |-> Encode("clip_loader"),
               vae_encode |-> [pixels |-> "source_image", vae |-> "vae_loader"],
               ksampler |-> Sampler("lora_loader", "vae_encode"),
               vae_decode |-> Decode("ksampler", "vae_loader"), save |-> Save("vae_decode")],
   writes |-> SourceWrites \cup LoraWrites,
   required |-> {"positive_prompt", "source_image"} \cup AnimaModels,
   uploads |-> {"source_image"},
   optional |-> [lora_loader |-> "unet_loader"]]

Inpaint ==
  [inputs |-> [positive_prompt |-> Encode("clip_loader"), negative_prompt |-> Encode("clip_loader"),
               vae_encode |-> [pixels |-> "source_image", vae |-> "vae_loader", mask |-> "mask_image"],
               ksampler |-> Sampler("unet_loader", "vae_encode"),
               vae_decode |-> Decode("ksampler", "vae_loader"), save |-> Save("vae_decode")],
   writes |-> SourceWrites \cup {<<"mask_image", "mask_image">>, <<"grow_mask_by", "vae_encode">>},
   required |-> {"positive_prompt", "source_image", "mask_image"} \cup AnimaModels,
   uploads |-> {"source_image", "mask_image"},
   optional |-> <<>>]

Siglip ==
  [inputs |-> [lora_loader |-> [model |-> "unet_loader"],
               positive_prompt |-> Encode("clip_loader"), negative_prompt |-> Encode("clip_loader"),
               ip_adapter_apply |-> [model |-> "lora_loader", ip_adapter |-> "ip_adapter_loader",
                                     ref_image |-> "source_image"],
               ksampler |-> Sampler("ip_adapter_apply", "latent"),
               vae_decode |-> Decode("ksampler", "vae_loader"), save |-> Save("vae_decode")],
   writes |-> SourceWrites \cup LoraWrites
                \cup {<<"size", "latent">>, <<"reference_strength", "ip_adapter_apply">>,
                      <<"ip_adapter_name", "ip_adapter_loader">>},
   required |-> {"positive_prompt", "source_image", "ip_adapter_name"} \cup AnimaModels,
   uploads |-> {"source_image"},
   optional |-> [lora_loader |-> "unet_loader"]]

InContext ==
  [inputs |-> [lora_loader |-> [model |-> "unet_loader"],
               positive_prompt |-> Encode("clip_loader"), negative_prompt |-> Encode("clip_loader"),
               ref_encode |-> [vae |-> "vae_loader", image |-> "source_image"],
               incontext_apply |-> [model |-> "lora_loader", ref_latent |-> "ref_encode"],
               ksampler |-> Sampler("incontext_apply", "latent"),
               vae_decode |-> Decode("ksampler", "vae_loader"), save |-> Save("vae_decode")],
   writes |-> SourceWrites
                \cup {<<"size", "latent">>, <<"reference_strength", "incontext_apply">>,
                      <<"lora_name", "lora_loader">>},
   required |-> {"positive_prompt", "source_image", "lora_name"} \cup AnimaModels,
   uploads |-> {"source_image"},
   optional |-> <<>>]

ControlNet ==
  [inputs |-> [positive_prompt |-> Encode("checkpoint"), negative_prompt |-> Encode("checkpoint"),
               canny |-> [image |-> "source_image"],
               control_apply |-> [positive |-> "positive_prompt", negative |-> "negative_prompt",
                                  control_net |-> "control_loader", image |-> "canny", vae |-> "checkpoint"],
               ksampler |-> [model |-> "checkpoint", positive |-> "control_apply",
                             negative |-> "control_apply", latent_image |-> "latent"],
               vae_decode |-> Decode("ksampler", "checkpoint"), save |-> Save("vae_decode")],
   writes |-> TextWrites
                \cup {<<"source_image", "source_image">>, <<"checkpoint_name", "checkpoint">>,
                      <<"size", "latent">>, <<"control_net_name", "control_loader">>,
                      <<"control_strength", "control_apply">>, <<"control_range", "control_apply">>,
                      <<"canny_range", "canny">>},
   required |-> {"positive_prompt", "source_image", "checkpoint_name", "control_net_name"},
   uploads |-> {"source_image"},
   optional |-> <<>>]

Upscale ==
  [inputs |-> [upscale |-> [upscale_model |-> "upscale_loader", image |-> "source_image"],
               save |-> Save("upscale")],
   writes |-> {<<"source_image", "source_image">>, <<"upscale_model_name", "upscale_loader">>,
               <<"filename_prefix", "save">>},
   required |-> {"source_image", "upscale_model_name"},
   uploads |-> {"source_image"},
   optional |-> <<>>]

Slots ==
  <<"reference_0", "reference_1", "reference_2", "reference_3", "reference_4", "reference_5", "reference_6",
    "reference_7", "reference_8">>

ASSUME PreparationAssumption ==
  /\ Cached \subseteq Sources /\ Sources \cap Spare = {}
  /\ MaxReferences \in 1 .. Len(Slots)
  /\ Nothing \notin Places

References == {Slots[i] : i \in 1 .. MaxReferences}

H3Inputs(frames) ==
  [h3 |-> Over([clip |-> "clip_loader", vae |-> "video_vae"], frames),
   scheduler |-> [model |-> "unet_loader"], guider |-> [model |-> "unet_loader", conditioning |-> "add_guide"],
   sampling |-> [noise |-> "noise", guider |-> "guider", sampler |-> "sampler", sigmas |-> "scheduler",
                 latent_image |-> "h3"],
   video_decode |-> Decode("sampling", "video_vae"), audio_decode |-> Decode("sampling", "audio_vae"),
   create_video |-> [images |-> "video_decode", audio |-> "audio_decode"], save |-> [video |-> "create_video"],
   add_guide |-> [positive |-> "h3", audio_vae |-> "audio_vae", latent |-> "h3", audio |-> "guide_audio"]]
H3Models == {"unet_name", "clip_name", "video_vae_name", "audio_vae_name"}
H3Writes ==
  {<<"positive_prompt", "h3">>, <<"size", "h3">>, <<"length", "h3">>, <<"seed", "noise">>,
   <<"steps", "scheduler">>, <<"sampler_name", "sampler">>, <<"fps", "create_video">>,
   <<"filename_prefix", "save">>, <<"unet_name", "unet_loader">>, <<"clip_name", "clip_loader">>,
   <<"video_vae_name", "video_vae">>, <<"audio_vae_name", "audio_vae">>,
   <<"guide_audio", "guide_audio">>, <<"guide_frame_idx", "add_guide">>}
H3Optional == [add_guide |-> "h3", guide_audio |-> Nothing, audio_decode |-> Nothing]

\* Each slot for a reference image is an input of the node h3; the first one
\* cannot be left out.
Ref2V ==
  [inputs |-> H3Inputs(Over([audio_vae |-> "audio_vae"], [s \in References |-> s])),
   writes |-> H3Writes \cup {<<s, s>> : s \in References},
   required |-> {"positive_prompt"} \cup H3Models,
   uploads |-> {"guide_audio"} \cup References,
   optional |-> Over(H3Optional, [s \in References \ {Slots[1]} |-> Nothing])]

I2V ==
  [inputs |-> H3Inputs([first_frame |-> "first_frame"]),
   writes |-> H3Writes \cup {<<"first_frame", "first_frame">>},
   required |-> {"positive_prompt"} \cup H3Models,
   uploads |-> {"guide_audio", "first_frame"},
   optional |-> H3Optional]

Bgm ==
  [inputs |-> [positive_tags |-> Encode("checkpoint"), negative_tags |-> Encode("checkpoint"),
               ksampler |-> [model |-> "checkpoint", positive |-> "positive_tags",
                             negative |-> "negative_tags", latent_image |-> "latent"],
               decode |-> Decode("ksampler", "checkpoint"), save |-> [audio |-> "decode"]],
   writes |-> {<<"positive_prompt", "positive_tags">>, <<"negative_prompt", "negative_tags">>,
               <<"lyrics", "positive_tags">>, <<"seconds", "latent">>, <<"seed", "ksampler">>,
               <<"steps", "ksampler">>, <<"sampling", "ksampler">>, <<"ckpt_name", "checkpoint">>,
               <<"filename_prefix", "save">>},
   required |-> {"positive_prompt", "ckpt_name"},
   uploads |-> {},
   optional |-> <<>>]

Templates ==
  [anima_txt2img |-> Txt2Img, anima_img2img |-> Img2Img, anima_inpaint |-> Inpaint,
   anima_ref_siglip |-> Siglip, anima_ref_incontext |-> InContext, sd15_controlnet |-> ControlNet,
   image_upscale |-> Upscale, minimax_h3_ref2v |-> Ref2V, minimax_h3_i2v |-> I2V, ace_step_bgm |-> Bgm]

VideoTemplates == {"minimax_h3_ref2v", "minimax_h3_i2v"}
LoraTemplates == {"anima_txt2img", "anima_img2img", "anima_ref_siglip"}

Variables(t) == {w[1] : w \in Templates[t].writes}

\* Nodes that are linked to a template's node, or to which it is.
RolesOf(template) ==
  DOMAIN template.inputs
    \cup UNION {{template.inputs[r][i] : i \in DOMAIN template.inputs[r]} : r \in DOMAIN template.inputs}

\* No node is called Nothing.
ASSUME RolesAssumption == \A t \in DOMAIN Templates : Nothing \notin RolesOf(Templates[t])

\* References to images come in a list.
ASSUME SubmissionsAssumption ==
  \A q \in Submissions :
    /\ q.template \in DOMAIN Templates
    /\ \A f \in {q.inputs, q.defaults} : "references" \in DOMAIN f => f["references"] \in Seq(Sources)

\* Inputs that are not variables of a template.
Extras(t) ==
  IF t \in VideoTemplates THEN {"references", "audio_mode"}
  ELSE IF t = "anima_txt2img" THEN {"hires_enabled"} ELSE {}

-----------------------------------------------------------------------------
VARIABLES
  wanted,   \* what is asked for
  step,     \* of the request and then of its Job
  media,    \* values, dropped nodes, files resolved
  graph,    \* the Job's snapshot: linked inputs, and which variable is written where
  named,    \* of each file resolved, its name in ComfyUI's input directory
  where,    \* [Sources -> path of the file, Nothing once purged]
  disk,     \* [Places -> content, Nothing without a file]
  inputDir  \* ComfyUI's input directory: contents of the files of one base name

preparationVars == <<wanted, step, media, graph, named, where, disk, inputDir>>

NoPlan == [values |-> <<>>, drops |-> {}, uploads |-> <<>>]
NoGraph == [inputs |-> <<>>, writes |-> {}]

PreparationInit ==
  /\ wanted \in Submissions
  /\ step = "asked"
  /\ media = NoPlan /\ graph = NoGraph /\ named = <<>>
  /\ where = [s \in Sources |-> s]
  /\ disk = [p \in Places |-> IF p \in Sources THEN p ELSE Nothing]
  /\ inputDir = [n \in {Base[p] : p \in Places} |-> <<Foreign>>]

-----------------------------------------------------------------------------
(* What a request asks for.                                                *)

Template == Templates[wanted.template]

\* The Recipe's defaults, under the inputs of the request.
Asked == Over(wanted.inputs, wanted.defaults)

Without(values, names) == [n \in DOMAIN values \ names |-> values[n]]
Given(name) == name \in DOMAIN Asked

\* A Recipe can narrow what may be given, and demand more.
AgainstSchema ==
  \/ wanted.schema = <<>>
  \/ /\ DOMAIN wanted.schema \subseteq Variables(wanted.template) \cup Extras(wanted.template)
     /\ DOMAIN wanted.inputs \subseteq DOMAIN wanted.schema
     /\ \A n \in DOMAIN wanted.schema : wanted.schema[n] => Given(n)

HiresNames == {"hires_scale", "hires_upscale_method", "hires_steps", "hires_denoise"}
HiresOn ==
  wanted.template = "anima_txt2img" /\ Given("hires_enabled") /\ Asked["hires_enabled"] = "on"

\* Without the second pass its values go with its nodes.  With it, those that
\* are not given are the template's; a number of steps of zero is the one of
\* the first pass.
HiresValues(values) ==
  LET rest == Without(values, {"hires_enabled"})
      steps == IF "steps" \in DOMAIN values THEN values["steps"] ELSE "good"
      same == "hires_steps" \notin DOMAIN rest \/ rest["hires_steps"] = "zero"
  IN IF ~HiresOn THEN Without(rest, HiresNames)
     ELSE [n \in DOMAIN rest \cup HiresNames |->
             IF n = "hires_steps" /\ same THEN steps ELSE IF n \in DOMAIN rest THEN rest[n] ELSE "good"]

\* Without a LoRA its strength goes as well; with one, the strength is filled in.
LoraOn == Given("lora_name") /\ Asked["lora_name"] # "blank"
LoraValues(values) ==
  IF LoraOn THEN Over(values, [n \in {"lora_strength"} |-> "good"])
  ELSE Without(values, {"lora_name", "lora_strength"})

Mode == IF Given("audio_mode") THEN Asked["audio_mode"] ELSE "native"

\* Files of a video: its reference images in their order, or its first frame,
\* and then the audio that guides it.
FrameFiles ==
  IF wanted.template = "minimax_h3_i2v" THEN << <<"first_frame", Asked["first_frame"]>> >>
  ELSE [i \in 1 .. Len(Asked["references"]) |-> <<Slots[i], Asked["references"][i]>>]
VideoFiles ==
  IF Mode = "external_voice" THEN Append(FrameFiles, <<"guide_audio", Asked["guide_audio"]>>) ELSE FrameFiles

\* Files of an image that derives from another.
ImageFiles ==
  CASE "mask_image" \in Template.uploads -> <<"source_image", "mask_image">>
    [] Template.uploads = {"source_image"} -> <<"source_image">>
    [] OTHER -> <<>>

\* <<variable, file>>, in the order they are resolved in.
Files ==
  IF wanted.template \in VideoTemplates THEN VideoFiles
  ELSE [i \in 1 .. Len(ImageFiles) |-> <<ImageFiles[i], Asked[ImageFiles[i]]>>]

\* What a video needs: a length on the grid of frames, a known way to treat
\* sound, its images, and a guide when, and only when, there is an external voice.
VideoSound ==
  /\ Given("length") /\ Asked["length"] = "good"
  /\ Mode \in {"native", "external_voice", "silent"}
  /\ IF wanted.template = "minimax_h3_i2v" THEN Given("first_frame")
     ELSE Given("references") /\ Len(Asked["references"]) \in 1 .. MaxReferences
  /\ Given("guide_audio") <=> Mode = "external_voice"

Complete ==
  IF wanted.template \in VideoTemplates THEN VideoSound
  ELSE IF wanted.template = "ace_step_bgm" THEN Given("seconds") /\ Asked["seconds"] = "good"
  ELSE /\ \A i \in 1 .. Len(ImageFiles) : Given(ImageFiles[i])
       /\ Given("hires_enabled") => Asked["hires_enabled"] \in {"on", "off"}

\* Nodes that the request does without.
Drops ==
  CASE wanted.template \in VideoTemplates ->
         (IF wanted.template = "minimax_h3_ref2v"
          THEN {Slots[i] : i \in (Len(Asked["references"]) + 1) .. MaxReferences} ELSE {})
           \cup (IF Mode = "external_voice" THEN {} ELSE {"guide_audio", "add_guide"})
           \cup (IF Mode = "silent" THEN {"audio_decode"} ELSE {})
    [] wanted.template \in LoraTemplates ->
         (IF LoraOn THEN {} ELSE {"lora_loader"})
           \cup (IF wanted.template = "anima_txt2img" /\ ~HiresOn
                 THEN {"hires_upscale", "hires_ksampler"} ELSE {})
    [] OTHER -> {}

\* Values that are left for the template; those of files come later.
VideoValues(values) ==
  LET frames == IF wanted.template = "minimax_h3_i2v" THEN "first_frame" ELSE "references"
      rest == Without(values, {"audio_mode", frames, "guide_audio"})
  IN IF Mode = "external_voice" THEN Over(rest, [n \in {"guide_frame_idx"} |-> "good"])
     ELSE Without(rest, {"guide_frame_idx"})
Values ==
  CASE wanted.template \in VideoTemplates -> VideoValues(Asked)
    [] wanted.template = "anima_txt2img" -> LoraValues(HiresValues(Asked))
    [] wanted.template \in LoraTemplates -> LoraValues(Asked)
    [] OTHER -> Asked

Refuse == step' = "refused" /\ UNCHANGED <<media, graph, named>>

\* _media_plan up to the first file.
Plan ==
  /\ step = "asked"
  /\ IF AgainstSchema /\ Complete
     THEN /\ step' = "resolving"
          /\ media' = [values |-> Values, drops |-> Drops, uploads |-> <<>>]
          /\ UNCHANGED <<graph, named>>
     ELSE Refuse
  /\ UNCHANGED <<wanted, where, disk, inputDir>>

KindOf(variable) == IF variable = "guide_audio" THEN "audio" ELSE "image"

\* A file of the input cache is taken by its description, an artifact by its row.
Usable(variable, s) ==
  s \in Cached \/ (s \in Sources /\ where[s] # Nothing /\ Kind[s] = KindOf(variable))

Resolved == Len(media.uploads) = Len(Files)

\* sources.resolve: one read of the database for each file.
Resolve ==
  /\ step = "resolving" /\ ~Resolved
  /\ LET next == Files[Len(media.uploads) + 1]
         variable == next[1]
         s == next[2]
     IN IF Usable(variable, s)
        THEN /\ media' =
                  [values |-> Over([n \in {variable} |-> "good"], media.values), drops |-> media.drops,
                   uploads |-> Append(media.uploads, [variable |-> variable, path |-> where[s], content |-> s])]
             /\ UNCHANGED <<step, graph, named>>
        ELSE Refuse
  /\ UNCHANGED <<wanted, where, disk, inputDir>>

-----------------------------------------------------------------------------
(* The graph.                                                              *)

Droppable(template) == DOMAIN template.optional

\* Mutant: what came from a node that was left out is taken away, whatever
\* there is to take its place.
CutOff(template, drops, node) == IF node \notin drops THEN node ELSE Nothing

\* What an input comes from once nodes are left out: a dropped node's place is
\* taken by another, or by nothing.
Through(template, drops, node) ==
  IF node \notin drops THEN node
  ELSE IF node \in Droppable(template) /\ template.optional[node] \notin drops THEN template.optional[node]
  ELSE Nothing

\* _apply_drops: an input that came from a dropped node comes from the one that
\* takes its place, or is taken away.
Linked(template, drops, role) ==
  {i \in DOMAIN template.inputs[role] : Through(template, drops, template.inputs[role][i]) # Nothing}
Rewired(template, drops) ==
  [role \in DOMAIN template.inputs \ drops |->
     [i \in Linked(template, drops, role) |-> Through(template, drops, template.inputs[role][i])]]

\* Every value, and a seed, goes to each of its nodes that is there.
Written(template, p) ==
  {w \in template.writes : w[1] \in DOMAIN p.values \cup {"seed"} /\ w[2] \notin p.drops}

\* _coerce takes every value: of its type and within its range.
Coerced(values) == \A n \in DOMAIN values : values[n] \notin {"bad", "blank", "zero"}

\* The second pass would make an image larger than ComfyUI can handle.
TooLarge(values) == HiresOn /\ values["hires_scale"] = "large"

\* What build_workflow asks of its values.
Buildable(template, p) ==
  /\ p.drops \subseteq Droppable(template)
  /\ DOMAIN p.values \subseteq {w[1] : w \in Written(template, p)}
  /\ template.required \subseteq DOMAIN p.values
  /\ Coerced(p.values)

\* build_workflow; the Job is queued with its snapshot.
Build ==
  /\ step = "resolving" /\ Resolved
  /\ IF Buildable(Template, media) /\ ~TooLarge(media.values)
     THEN /\ step' = "queued"
          /\ graph' = [inputs |-> Rewired(Template, media.drops), writes |-> Written(Template, media)]
          /\ UNCHANGED <<media, named>>
     ELSE Refuse
  /\ UNCHANGED <<wanted, where, disk, inputDir>>

-----------------------------------------------------------------------------
(* The Job runs.                                                           *)

Uploaded == Len(named) = Len(media.uploads)

\* ComfyUI keeps a file that is there already: the same content goes by the
\* name it has, another one by a new name.
NameFor(base, content) ==
  IF \E i \in DOMAIN inputDir[base] : inputDir[base][i] = content
  THEN <<base, CHOOSE i \in DOMAIN inputDir[base] : inputDir[base][i] = content>>
  ELSE <<base, Len(inputDir[base]) + 1>>

\* _read_source compares what it reads with the hash of the preparation.
Upload ==
  /\ step = "queued" /\ ~Uploaded
  /\ LET u == media.uploads[Len(named) + 1]
         base == Base[u.path]
         name == NameFor(base, u.content)
     IN IF disk[u.path] = u.content
        THEN /\ named' = Append(named, name)
             /\ inputDir' = IF name[2] \in DOMAIN inputDir[base] THEN inputDir
                            ELSE [inputDir EXCEPT ![base] = Append(@, u.content)]
             /\ UNCHANGED step
        ELSE step' = "failed" /\ UNCHANGED <<named, inputDir>>
  /\ UNCHANGED <<wanted, media, graph, where, disk>>

SubmitPrompt ==
  /\ step = "queued" /\ Uploaded
  /\ step' = "submitted"
  /\ UNCHANGED <<wanted, media, graph, named, where, disk, inputDir>>

\* Meanwhile a file of an artifact is moved, and its row with it, or purged.
\* Bound: a file moves once.
Move(s, p) ==
  /\ where[s] = s /\ disk[p] = Nothing
  /\ disk' = [disk EXCEPT ![p] = disk[where[s]], ![where[s]] = Nothing]
  /\ where' = [where EXCEPT ![s] = p]

PurgeFile(s) ==
  /\ where[s] # Nothing
  /\ disk' = [disk EXCEPT ![where[s]] = Nothing]
  /\ where' = [where EXCEPT ![s] = Nothing]

FilesChange ==
  /\ (step = "resolving" /\ ~Resolved) \/ (step = "queued" /\ ~Uploaded)
  /\ \E s \in Sources \ Cached : PurgeFile(s) \/ \E p \in Places : Move(s, p)
  /\ UNCHANGED <<wanted, step, media, graph, named, inputDir>>

PreparationNext == Plan \/ Resolve \/ Build \/ Upload \/ SubmitPrompt \/ FilesChange

PreparationSpec == PreparationInit /\ [][PreparationNext]_preparationVars

-----------------------------------------------------------------------------
(* Properties.                                                             *)

PreparationTypeOK ==
  /\ wanted.template \in DOMAIN Templates
  /\ step \in {"asked", "refused", "resolving", "queued", "failed", "submitted"}
  /\ media.drops \subseteq Droppable(Template)
  /\ where \in [Sources -> Places \cup {Nothing}]
  /\ disk \in [Places -> Sources \cup {Nothing}]

Prepared == step \in {"queued", "failed", "submitted"}

Kept == RolesOf(Template) \ media.drops

\* Inputs that ComfyUI's nodes can do without.
Dispensable == {<<"create_video", "audio">>} \cup {<<"h3", s>> : s \in References \ {Slots[1]}}

\* The graph of a Job leads only to nodes that are in it, no input that a node
\* needs is missing, and a node that reads a file has been given one: whatever
\* combination of optional nodes was left out, ComfyUI does not refuse the
\* prompt nor take a file of the template's.
Wired ==
  Prepared =>
    /\ \A r \in DOMAIN graph.inputs : \A i \in DOMAIN graph.inputs[r] : {r, graph.inputs[r][i]} \subseteq Kept
    /\ \A r \in DOMAIN Template.inputs \ media.drops : \A i \in DOMAIN Template.inputs[r] :
         <<r, i>> \in Dispensable \/ (r \in DOMAIN graph.inputs /\ i \in DOMAIN graph.inputs[r])
    /\ \A w \in Template.writes : w[1] \in Template.uploads /\ w[2] \in Kept => w \in graph.writes

\* Some nodes and those they get an input from; the nodes that what is saved
\* depends on.  No template is deeper than nine nodes.
Behind(inputs, roles) ==
  roles \cup UNION {{inputs[r][i] : i \in DOMAIN inputs[r]} : r \in roles \cap DOMAIN inputs}
Behind2(inputs, roles) == Behind(inputs, Behind(inputs, roles))
Behind4(inputs, roles) == Behind2(inputs, Behind2(inputs, roles))
Needed(inputs) == Behind4(inputs, Behind4(inputs, {"save"}))

\* A value that the Job carries has an effect on what is saved: no value is
\* written into a node that leads nowhere.  Only the decoder of a sound that
\* nobody wants is left over, in a silent video.
NothingIdle ==
  Prepared =>
    \A w \in graph.writes :
      w[2] \in Needed(graph.inputs) \/ (w = <<"audio_vae_name", "audio_vae">> /\ Mode = "silent")

\* ComfyUI reads, through each input for a file, the content that was chosen
\* when the Job was prepared for it, even when files were moved or purged
\* meanwhile or others of the same name are there; the Job fails otherwise.
RightFiles ==
  step = "submitted" =>
    /\ \A w \in graph.writes : w[1] \in Template.uploads => \E i \in DOMAIN Files : Files[i][1] = w[1]
    /\ \A i, j \in DOMAIN Files : Files[i][1] = Files[j][1] => i = j
    /\ DOMAIN named = DOMAIN Files
    /\ \A i \in DOMAIN Files :
         /\ media.uploads[i].variable = Files[i][1]
         /\ named[i][2] \in DOMAIN inputDir[named[i][1]]
         /\ inputDir[named[i][1]][named[i][2]] = Files[i][2]

\* A Job runs what was asked for.
PreparedAsAsked == PreparationTypeOK /\ Wired /\ NothingIdle /\ RightFiles

=============================================================================
