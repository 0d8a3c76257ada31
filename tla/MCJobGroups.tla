---------------------------- MODULE MCJobGroups -----------------------------
EXTENDS JobGroups, TLC

CONSTANTS g1, g2, i1, i2, i3

MCGroupOf == i1 :> g1 @@ i2 :> g1 @@ i3 :> g2

MCKinds == {g1 :> k @@ g2 :> k : k \in {"experiment", "standalone"}}
           \cup {g1 :> "experiment" @@ g2 :> "batch"}

Symmetric == Permutations(Jobs) \cup Permutations(Clients) \cup Permutations({i1, i2})
=============================================================================
