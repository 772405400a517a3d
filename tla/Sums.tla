--------------------------------- MODULE Sums ---------------------------------
(* The sum of what a function has at the members of a finite set.          *)
EXTENDS Integers, FiniteSets, FiniteSetsExt

Total(f, S) == FoldFunctionOnSet(+, 0, f, S)
=============================================================================
