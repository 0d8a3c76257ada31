---------------------------- MODULE PromptAssist ----------------------------
(***************************************************************************)
(* The completion of an image prompt (POST /image-prompt-assists).  A      *)
(* language model is asked for a draft; what it answers is checked, fitted *)
(* to the prompt the user already has, to the dictionary of tags and to    *)
(* the model that will draw, and judged; a draft that breaks rules is      *)
(* asked for once more and the better one is given to the user             *)
(* (adapters/agent/proposals.py, prompt_retry.py, prompt_checks.py,        *)
(* tag_preflight.py).                                                      *)
(*                                                                         *)
(* A tag is a name and the form it is written in: plain, weighted as in    *)
(* (tag:1.2), escaped as in name \(series\), or with the prefix "rating:"  *)
(* of a search term.  Blocks are sets: the order of tags is left out, and  *)
(* so are lengths, translations and underscores.                           *)
(***************************************************************************)
EXTENDS Naturals, Sequences, FiniteSets, SequencesExt, FiniteSetsExt

CONSTANTS
  Prompts,    \* records [tags, text, mentioned, context, style, image, retry]; keys are mentioned
  Answers,     \* [1 .. 2 -> records [kind, body]], what the model may answer each time
  Quality,     \* names of quality tags,
  Artists,     \* of artists,
  Persons,     \* [names that tell the number of persons -> that number],
  Known,       \* in the dictionary,
  Characters,  \* of characters, by the dictionary,
  Alias,       \* [other names in the dictionary -> name they stand for],
  Brackets,    \* names in Known with brackets,
  Phrases,     \* parts of sentences in a line of tags,
  Identity,    \* looks that tell one person from another
  Stem         \* [plurals -> singular]

Ratings == <<"safe", "sensitive", "nsfw", "explicit">>
Fields == {"quality", "subject", "character", "artist", "general"}
Locked == {"quality", "character", "artist"}
Content == {"subject", "character", "general"}

ASSUME AssistAssumption ==
  /\ Known \cap DOMAIN Alias = {} /\ \A n \in DOMAIN Alias : Alias[n] \in Known
  /\ Characters \subseteq Known \cup DOMAIN Alias
  /\ ToSet(Ratings) \cap (Known \cup Quality \cup Artists) = {}

NoBody ==
  [tags |-> [f \in Fields |-> {}], conf |-> {}, text |-> "none", moved |-> {}, negative |-> {},
   removed |-> {}, textRemoved |-> FALSE, line |-> {}, chars |-> {}]

\* What a validated answer looks like.
ASSUME AnswersAssumption ==
  \A i \in 1 .. 2 : \A a \in Answers[i] :
    /\ DOMAIN a.body = DOMAIN NoBody /\ DOMAIN a.body.tags = Fields
    /\ a.body.negative \subseteq ToSet(Ratings)
    /\ \A e \in a.body.conf : e[2] \in {"low", "high"}

VARIABLES
  prompt, \* what the user asks
  phase,   \* asked, drafted, chosen, responded, refused
  calls,   \* times the model was asked
  draft,   \* the answer at hand, once it is checked
  tries,   \* drafts that got through
  answer   \* the body that the user gets

assistVars == <<prompt, phase, calls, draft, tries, answer>>

Tag(name, form) == [name |-> name, form |-> form]

AssistInit ==
  /\ prompt \in Prompts
  /\ phase = "asked" /\ calls = 0
  /\ draft = NoBody /\ tries = <<>> /\ answer = NoBody

-----------------------------------------------------------------------------
(* Tags.                                                                   *)

\* Tags are the same when their keys are: weights do not count.
DedupeKey(t) == IF t.form = "weighted" THEN <<t.name, "plain">> ELSE <<t.name, t.form>>

\* Confidence goes by a key for which escapes do not count either.
ConfidenceKey(t) == <<t.name, t.form = "prefixed">>

Keys(tags) == {DedupeKey(t) : t \in tags}
ConfidenceKeys(tags) == {ConfidenceKey(t) : t \in tags}
AllTags(b) == UNION {b.tags[f] : f \in Fields}

\* A tag with a weight stands for the same one without.
Dedupe(tags) ==
  {t \in tags : t.form = "weighted" \/ \A u \in tags : DedupeKey(u) = DedupeKey(t) => u.form # "weighted"}

\* "hats" is taken for "hat".
StemKey(t) ==
  LET k == DedupeKey(t) IN IF k[1] \in DOMAIN Stem THEN <<Stem[k[1]], k[2]>> ELSE k

IsRating(t) == t.name \in ToSet(Ratings) /\ t.form # "prefixed"
Level(t) == CHOOSE i \in DOMAIN Ratings : Ratings[i] = t.name

\* "rating:nsfw" is a search term for nsfw, and nothing else follows the prefix.
StripPrefix(tags) ==
  {IF t.form = "prefixed" THEN Tag(t.name, "plain") ELSE t :
     t \in {u \in tags : u.form = "prefixed" => u.name \in ToSet(Ratings)}}

WithRating(tags) == IF \E t \in tags : IsRating(t) THEN tags ELSE tags \cup {Tag("safe", "plain")}

\* Levels above those of the tags, that go to the negative prompt.
Above(tags) ==
  LET top == Max({Level(t) : t \in {u \in tags : IsRating(u)}})
  IN {Ratings[i] : i \in {k \in DOMAIN Ratings : k > top}}

\* The confidence of a tag is the highest given for its key; quality, ratings
\* and tags without one are certain.
Certain(b, field, t) ==
  \/ field = "quality" \/ IsRating(t)
  \/ \A e \in b.conf : ConfidenceKey(e[1]) # ConfidenceKey(t)
  \/ \E e \in b.conf : ConfidenceKey(e[1]) = ConfidenceKey(t) /\ e[2] = "high"

AboveThreshold(b) == [f \in Fields |-> {t \in b.tags[f] : Certain(b, f, t)}]
HasContent(tags) == \E f \in Content : tags[f] # {}
HasText(b) == b.text # "none" \/ b.moved # {}

Rated(b) ==
  LET quality == WithRating(StripPrefix(b.tags["quality"]))
  IN [b EXCEPT !.tags["quality"] = quality, !.negative = @ \cup Above(quality)]

\* _attach_prompt_text: the line of tags, unless nothing of the contents is left.
Attachable(b) ==
  HasText(b) \/ (HasContent(Rated(b).tags) => HasContent(AboveThreshold(Rated(b))))
Attached(b) ==
  LET above == AboveThreshold(Rated(b))
  IN [Rated(b) EXCEPT !.line = Dedupe(UNION {above[f] : f \in Fields})]

-----------------------------------------------------------------------------
(* Fitting a draft to the prompt the user has.                             *)

CurrentTags == Dedupe({t \in prompt.tags : t.name \notin Phrases})
Mentioned(t) == DedupeKey(t) \in prompt.mentioned

\* The block of a tag that has to be put back: search terms have none of their own.
RestoredField(t) ==
  IF t.form = "prefixed" THEN "general"
  ELSE IF IsRating(t) \/ t.name \in Quality THEN "quality"
  ELSE IF t.name \in Artists THEN "artist"
  ELSE IF t.name \in DOMAIN Persons THEN "subject" ELSE "general"

IsCharacter(t, chars) == t.name \in chars /\ t.form # "prefixed"

\* The block that forbids to remove a tag which the user has not mentioned.
LockedRemovalField(t, field, chars) ==
  IF IsRating(t) THEN "none"
  ELSE IF RestoredField(t) \in Locked THEN RestoredField(t)
  ELSE IF IsCharacter(t, chars) THEN "character"
  ELSE IF field \in Locked THEN field ELSE "none"

LockedRemovals(b, chars) ==
  {c \in b.removed : LockedRemovalField(c[1], c[2], chars) # "none" /\ ~Mentioned(c[1])}

\* The rating is the one that is asked for, the one there was, or safe.
RatingChoices(b) ==
  LET requested == {t \in StripPrefix(b.tags["quality"]) : IsRating(t) /\ Mentioned(t)}
      current == {t \in CurrentTags : IsRating(t)}
  IN IF requested # {} THEN requested ELSE IF current # {} THEN current ELSE {Tag("safe", "plain")}

\* Tags of the draft that stay: those of the locked blocks only when the prompt
\* has them or the user mentions them.
Permitted(b, chars) ==
  [f \in Fields |->
     {t \in IF f = "quality" THEN {u \in StripPrefix(b.tags[f]) : ~IsRating(u)} ELSE b.tags[f] :
        (f \in Locked \/ IsCharacter(t, chars)) => DedupeKey(t) \in Keys(CurrentTags) \/ Mentioned(t)}]

\* Mutant: whatever the draft says was to go is gone.
RestoredUnlessClaimed(b, chars) ==
  LET there == Keys(UNION {Permitted(b, chars)[f] : f \in Fields})
  IN {t \in CurrentTags :
        ~IsRating(t) /\ DedupeKey(t) \notin there /\ StemKey(t) \notin {StemKey(c[1]) : c \in b.removed}}

\* Tags of the prompt that come back: the draft does without them and does not
\* say that they were to go.
Restored(b, chars) ==
  LET there == Keys(UNION {Permitted(b, chars)[f] : f \in Fields})
      gone == {StemKey(c[1]) : c \in b.removed \ LockedRemovals(b, chars)}
  IN {t \in CurrentTags : ~IsRating(t) /\ DedupeKey(t) \notin there /\ StemKey(t) \notin gone}

FieldFor(b, chars, t) ==
  LET claims == {c \in LockedRemovals(b, chars) : StemKey(c[1]) = StemKey(t)}
  IN IF claims = {} THEN RestoredField(t)
     ELSE LET c == CHOOSE c \in claims : TRUE IN LockedRemovalField(c[1], c[2], chars)

Revised(b, rating, chars) ==
  LET tags == [f \in Fields |-> Permitted(b, chars)[f]
                 \cup {t \in Restored(b, chars) : FieldFor(b, chars, t) = f}
                 \cup (IF f = "quality" THEN {rating} ELSE {})]
      final == ConfidenceKeys(UNION {tags[f] : f \in Fields})
  IN [b EXCEPT !.tags = tags, !.chars = chars,
        !.text = IF ~HasText(b) /\ ~b.textRemoved THEN prompt.text ELSE @,
        !.conf = {e \in @ : ConfidenceKey(e[1]) \in final \ ConfidenceKeys(CurrentTags)}]

\* revise_current_prompt, for a draft that is not made from an image.
NeedsRevision == prompt.tags # {} /\ ~prompt.image

-----------------------------------------------------------------------------
(* Fitting a draft to the dictionary, and to the model that draws.         *)

Untouched(t) ==
  \/ t.form = "weighted" \/ IsRating(t) \/ t.name \in Phrases
  \/ t.form # "prefixed" /\ t.name \in Quality \cup Artists
InDictionary(t) == t.form # "prefixed" /\ t.name \in Known \cup DOMAIN Alias
IsAlias(t) == ~Untouched(t) /\ t.form # "prefixed" /\ t.name \in DOMAIN Alias

\* The name the dictionary has for it, its brackets escaped.
Canonical(t) == Tag(Alias[t.name], IF Alias[t.name] \in Brackets THEN "escaped" ELSE "plain")

\* General tags that nobody knows, unless the user's prompt has them.
Unknown(b) ==
  {t \in b.tags["general"] :
     ~Untouched(t) /\ ~InDictionary(t) /\ ConfidenceKey(t) \notin ConfidenceKeys(prompt.tags)}

Aliases(b) == {t \in UNION {b.tags[f] : f \in Content} : IsAlias(t)}

\* _rename_confidences: what is known of a tag moves to its new name.
RenamedConfidences(b) ==
  LET dropped == ConfidenceKeys(Unknown(b))
      renamed == ConfidenceKeys(Aliases(b))
  IN {IF e[1].form # "weighted" /\ ConfidenceKey(e[1]) \in renamed THEN <<Canonical(e[1]), e[2]>> ELSE e :
        e \in {d \in b.conf : d[1].form = "weighted" \/ ConfidenceKey(d[1]) \notin dropped}}

\* An unknown tag becomes a phrase of the text when there is room for it.
Canonicalized(b) ==
  [b EXCEPT
     !.tags = [f \in Fields |-> IF f \notin Content THEN @[f]
                 ELSE Dedupe({IF IsAlias(t) THEN Canonical(t) ELSE t :
                                t \in @[f] \ (IF f = "general" THEN Unknown(b) ELSE {})})],
     !.moved = IF prompt.style # "tags" /\ b.text # "full"
               THEN @ \cup {t.name : t \in Unknown(b)} ELSE @,
     !.conf = RenamedConfidences(b)]

\* normalize_prompt_tags; a draft that cannot be put together again stays as it was.
Normalized(b) ==
  LET c == Canonicalized(b)
  IN IF Unknown(b) = {} /\ Aliases(b) = {} THEN c
     ELSE IF Attachable(c) THEN Attached(c) ELSE b

\* apply_prompt_style: a model that reads only tags gets no text.
Stylable(b) ==
  prompt.style = "tags" =>
    HasContent(b.tags) /\ Attachable([b EXCEPT !.text = "none", !.moved = {}])
Styled(b) ==
  IF prompt.style = "tags" THEN Attached([b EXCEPT !.text = "none", !.moved = {}]) ELSE b

-----------------------------------------------------------------------------
(* Judging a draft.                                                        *)

PlainNames(tags) == {t.name : t \in {u \in tags : u.form \in {"plain", "escaped"}}}
Counts(b) == {Persons[n] : n \in PlainNames(b.tags["subject"]) \cap DOMAIN Persons}

\* check_prompt_body: the rules that a draft breaks.
Broken(b, rule) ==
  LET names == PlainNames(AllTags(b))
  IN CASE rule = "rating" -> Cardinality(PlainNames(b.tags["quality"]) \cap ToSet(Ratings)) # 1
       [] rule = "subject_mix" -> Cardinality(Counts(b)) > 1
       [] rule = "identity_leak" -> (\E n \in Counts(b) : n > 1) /\ PlainNames(b.tags["general"]) \cap Identity # {}
       [] rule = "natural_length" -> prompt.style # "tags" /\ b.text = "none"
       [] rule = "weight_syntax" -> \E t \in AllTags(b) : t.form = "weighted"
       [] rule = "two_ratings" -> Cardinality(names \cap ToSet(Ratings)) > 1
       [] rule = "both_sides" -> names \cap b.negative # {}

Rules == {"rating", "subject_mix", "identity_leak", "natural_length", "weight_syntax", "two_ratings", "both_sides"}
Violations(b) == Cardinality({rule \in Rules : Broken(b, rule)})

-----------------------------------------------------------------------------
(* propose_checked.                                                        *)

Give(b) == phase' = "chosen" /\ answer' = b

\* A call that came to nothing: a first invalid answer is asked for again, a
\* second one of either kind leaves the first draft, if there is one.
CallFails(why) ==
  IF calls' = 2 /\ tries # <<>> THEN Give(tries[1])
  ELSE IF calls' = 1 /\ why = "invalid" /\ prompt.retry THEN phase' = "asked" /\ UNCHANGED answer
  ELSE phase' = "refused" /\ UNCHANGED answer

\* provider.propose and validate_output.
Propose ==
  /\ phase = "asked"
  /\ calls' = calls + 1
  /\ \E a \in Answers[calls + 1] :
       IF a.kind = "body" /\ Attachable(a.body)
       THEN draft' = Attached(a.body) /\ phase' = "drafted" /\ UNCHANGED answer
       ELSE CallFails(IF a.kind = "unavailable" THEN "unavailable" ELSE "invalid") /\ UNCHANGED draft
  /\ UNCHANGED <<prompt, tries>>

\* A draft that got through is judged.
Judged(b) ==
  /\ tries' = Append(tries, b)
  /\ IF calls = 1 /\ prompt.retry /\ Violations(b) > 0 THEN phase' = "asked" /\ UNCHANGED answer
     ELSE IF tries # <<>> /\ Violations(tries[1]) <= Violations(b) THEN Give(tries[1])
     ELSE Give(b)

\* postprocess: the dictionary is read twice, and each time it may be unreadable.
Postprocess ==
  /\ phase = "drafted"
  /\ \E chars \in {Characters, {}}, readable \in BOOLEAN, rating \in RatingChoices(draft) :
       LET revised == IF NeedsRevision THEN Revised(draft, rating, chars) ELSE draft
           fitted == IF NeedsRevision THEN Attached(revised) ELSE draft
           final == IF readable THEN Normalized(fitted) ELSE fitted
       IN IF (NeedsRevision => Attachable(revised)) /\ Stylable(final)
          THEN Judged(Styled(final))
          ELSE CallFails("invalid") /\ UNCHANGED tries
  /\ UNCHANGED <<prompt, calls, draft>>

\* drop_context_tags: tags that other fields of the form add anyway.
WithoutContext(b) ==
  LET Stays(t) == t.form = "prefixed" \/ t.name \notin prompt.context
  IN [b EXCEPT !.tags = [f \in Fields |-> {t \in @[f] : Stays(t)}],
               !.line = {t \in @ : Stays(t)},
               !.conf = {e \in @ : Stays(e[1])}]

Respond ==
  /\ phase = "chosen"
  /\ phase' = "responded"
  /\ answer' = WithoutContext(answer)
  /\ UNCHANGED <<prompt, calls, draft, tries>>

AssistNext == Propose \/ Postprocess \/ Respond

AssistSpec == AssistInit /\ [][AssistNext]_assistVars

-----------------------------------------------------------------------------
(* Properties.                                                             *)

AssistTypeOK ==
  /\ phase \in {"asked", "drafted", "chosen", "responded", "refused"}
  /\ calls \in 0 .. 2 /\ Len(tries) <= calls
  /\ DOMAIN answer.tags = Fields /\ answer.negative \subseteq ToSet(Ratings)

Names(n) == {m \in DOMAIN Alias : Alias[m] = n} \cup {n}
InContext(t) == \E n \in prompt.context : t.name \in Names(n)

\* The model said that this tag was to go, and it could.
Claimed(b, t) ==
  \E c \in b.removed : StemKey(c[1]) = StemKey(t) /\ c \notin LockedRemovals(b, b.chars)

\* The model said that this search term of the user's was a quality to go.
Miscalled(b, t) ==
  t.form = "prefixed" /\ \E c \in b.removed : StemKey(c[1]) = StemKey(t) /\ c[2] = "quality"

\* The model offered this tag under another name of the dictionary, with little
\* confidence, and the tag took that confidence with the name.
Doubted(b, t) ==
  \E n \in DOMAIN Alias, e \in b.conf :
    t.name \in {n, Alias[n]} /\ e[1].name = Alias[n] /\ e[2] = "low"

Missing(b, t) == \A u \in b.line : t.name \notin Names(u.name)
RatingsOf(b) == {t \in b.tags["quality"] : IsRating(t)}

Responded == phase = "responded"

\* A tag of the user's prompt is still there, under a name of its own or the
\* dictionary's, unless the model said it was to go (and, if it is a quality, a
\* character or an artist, the user mentioned it), another field adds it, or a
\* rating took its place.  So is the text.  A tag that is lost when the model
\* offers it a second time under another name is the exception, and so is a
\* search term the model took for a quality.
PromptKept ==
  Responded /\ NeedsRevision =>
    /\ \A t \in CurrentTags :
         Missing(answer, t) =>
           IsRating(t) \/ InContext(t) \/ Claimed(answer, t) \/ Doubted(answer, t) \/ Miscalled(answer, t)
    /\ prompt.text # "none" /\ prompt.style # "tags" /\ ~answer.textRemoved => HasText(answer)

\* Nothing appears in the blocks of quality, characters and artists that neither
\* the prompt has nor the user mentioned, under any of its names.
NothingForeign ==
  Responded /\ NeedsRevision =>
    \A f \in Locked : \A t \in answer.tags[f] :
      IsRating(t) \/ Names(t.name) \cap ({u.name : u \in prompt.tags} \cup {k[1] : k \in prompt.mentioned}) # {}

\* The list of tags with confidences, from which the page composes the prompt,
\* gives the same prompt as the line, through every renaming in between.
ListsAgree ==
  Responded =>
    ConfidenceKeys(UNION {AboveThreshold(answer)[f] : f \in Fields}) = ConfidenceKeys(answer.line)

\* One rating, that of the prompt unless another is asked for, and every level
\* above it in the negative prompt.
RatingHolds ==
  Responded /\ ToSet(Ratings) \cap prompt.context = {} =>
    /\ RatingsOf(answer) # {} /\ Above(RatingsOf(answer)) \subseteq answer.negative
    /\ NeedsRevision /\ (\A t \in CurrentTags : ~Miscalled(answer, t)) =>
         /\ Cardinality(RatingsOf(answer)) = 1
         /\ \A t \in RatingsOf(answer) : t \in CurrentTags \/ Mentioned(t) \/ t.name = "safe"

\* The user gets the draft that breaks the fewest rules of those that got
\* through, and none is lost when the other call fails.
BetterGiven ==
  /\ phase = "chosen" => \A i \in DOMAIN tries : Violations(answer) <= Violations(tries[i])
  /\ phase = "refused" => tries = <<>>

\* The user's prompt comes back completed, not changed.
AssistSound == AssistTypeOK /\ PromptKept /\ NothingForeign /\ ListsAgree /\ RatingHolds /\ BetterGiven
=============================================================================
