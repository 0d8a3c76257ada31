----------------------------- MODULE StoryEdits -----------------------------
(***************************************************************************)
(* What users edit of a story and what is imported into it: each works on  *)
(* rows of its own, and both may do so while the other is under way.       *)
(***************************************************************************)
EXTENDS StoryScenes, StoryImport

\* Editing a scene costs the lines that stay neither their scene nor their voice, and
\* a link run changes no link that is there: what users did in between stays.
EditsAreMild == LinesKeepVoices /\ LinksOnlyOpen
=============================================================================
