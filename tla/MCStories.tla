----------------------------- MODULE MCStories -----------------------------
(***************************************************************************)
(* The stories of a Project, the page that produces them and the events it *)
(* follows its Jobs by, side by side: a behaviour is of one part, the      *)
(* others stay as they began.                                              *)
(***************************************************************************)
EXTENDS StoryEdits, LegacyStructure, RunAll, EventDelivery

CONSTANTS a, b, k   \* two characters, and a costume of the first

VARIABLE part

MCCostumeOf == [c \in Costumes |-> a]
MCCasts == {{}, {[who |-> a, wears |-> k]}, {[who |-> b, wears |-> k]}}

\* Duplicate names and ids, a name that canon and the old settings share, and a
\* second snapshot in which the names have moved.
MCSources == {
  [canon |-> <<[ref |-> "r1", name |-> "A"], [ref |-> "r3", name |-> "A"]>>,
   legacy |-> <<[ref |-> "o1", name |-> "B"], [ref |-> "o2", name |-> "B"]>>,
   scenes |-> <<[ref |-> "x", members |-> {"o1", "o2", "gone"}], [ref |-> "y", members |-> {}]>>,
   shots |-> [t \in {"t"} |-> "y"]],
  [canon |-> <<[ref |-> "r1", name |-> "C"]>>, legacy |-> <<[ref |-> "o1", name |-> "A"]>>,
   scenes |-> <<[ref |-> "x", members |-> {"o1"}]>>, shots |-> <<>>]}
MCFiled == [w \in Works |-> IF w = "film" THEN [scene |-> "x", shot |-> None]
                            ELSE [scene |-> None, shot |-> "t"]]

MCShotScene == [t \in LegacyShots |-> "scene1"]

MCUnits == [character |-> <<"costume">>, scene_image |-> <<"image">>,
            voice |-> <<"line1", "line2", "line3">>, bgm |-> <<"music">>,
            video |-> <<"clip">>, compose |-> <<"film">>]
MCAdopted == {Units \ {"line2", "line3", "clip"}}

MCInit ==
  /\ part \in {"scenes", "import", "structure", "run all", "events"}
  /\ StoryInit /\ ImportInit /\ StructureInit /\ RunAllInit /\ DeliveryInit
  /\ part # "import" => owned = {} /\ source.shots = <<>>

MCNext ==
  /\ UNCHANGED part
  /\ \/ /\ part = "scenes" /\ StoryNext
        /\ UNCHANGED <<importVars, structureVars, runAllVars, deliveryVars>>
     \/ /\ part = "import" /\ ImportNext
        /\ UNCHANGED <<storyVars, structureVars, runAllVars, deliveryVars>>
     \/ /\ part = "structure" /\ StructureNext
        /\ UNCHANGED <<storyVars, importVars, runAllVars, deliveryVars>>
     \/ /\ part = "run all" /\ RunAllNext
        /\ UNCHANGED <<storyVars, importVars, structureVars, deliveryVars>>
     \/ /\ part = "events" /\ DeliveryNext
        /\ UNCHANGED <<storyVars, importVars, structureVars, runAllVars>>

MCSpec ==
  MCInit /\ [][MCNext]_<<part, storyVars, importVars, structureVars, runAllVars, deliveryVars>>
=============================================================================
