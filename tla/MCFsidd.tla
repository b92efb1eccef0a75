------------------------------ MODULE MCFsidd ------------------------------
(* Instances of Fsidd for TLC. *)
EXTENDS Fsidd, TLC

CONSTANTS i1, i2, c1, c2, p1, p2

\* Two processes with one connection each.
MCInstances == {i1, i2}
OneEach == (c1 :> i1) @@ (c2 :> i2)

\* The paths are interchangeable, and so are the processes with their connections.
Swap == (c1 :> c2) @@ (c2 :> c1) @@ (i1 :> i2) @@ (i2 :> i1)
Symmetry == {s @@ r : s \in Permutations(Paths), r \in {<<>>, Swap}}
=============================================================================
