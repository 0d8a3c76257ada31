--------------------------- MODULE MCArtifactStore --------------------------
(* The artifact store with two artifacts and two overlapping requests.     *)
EXTENDS ArtifactStore, TLC

CONSTANTS a1, a2, s1, s2, c1, c2

Symmetry == Permutations(Arts) \cup Permutations(Slots) \cup Permutations(Clients)
=============================================================================
