---------------------------- MODULE MCModelStore ----------------------------
(* Instances of ModelStore: two names, two models that share a layer.      *)
EXTENDS ModelStore, TLC

CONSTANTS m1, m2, w1, w2, l1, l2, c1, c2

\* Two models with a layer in common; the first is the second without a layer.
Variants == {<<l1, c1>>, <<l1, l2, c2>>}

\* One of the names has the larger model, the other any model or none.
Starts == {s \in [Names -> Variants \cup {Absent}] : \E x \in Names : s[x] = <<l1, l2, c2>>}

Symmetry == Permutations(Names) \cup Permutations(Writers)
=============================================================================
