---------------------------- MODULE MCStoryScenes ---------------------------
(* The scenes of one story with overlapping edits and no cast.             *)
EXTENDS StoryScenes

CONSTANT a

MCCostumeOf == [c \in Costumes |-> a]
MCCasts == {{}}
=============================================================================
