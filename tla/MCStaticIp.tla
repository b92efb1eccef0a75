----------------------------- MODULE MCStaticIp -----------------------------
(* StaticIp with two instances and as many addresses. *)
EXTENDS StaticIp, TLC

CONSTANTS i1, i2, e1, e2, w1, w2

TwoInstances == {i1, i2}
TwoEnis == {e1, e2}
OneWorker == {w1}
TwoWorkers == {w1, w2}

Symmetry == Permutations(TwoInstances) \cup Permutations(TwoEnis) \cup Permutations(TwoWorkers)
=============================================================================
