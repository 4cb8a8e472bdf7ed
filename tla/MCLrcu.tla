------------------------------- MODULE MCLrcu -------------------------------
(* Instances of Lrcu for TLC: which thread does what, and the bounds.       *)
EXTENDS LrcuInv, TLC
CONSTANTS r1, r2, u1, s1, o1, o2

NoGarbage == {<<0, 0>>}
Symmetry == Permutations({o1, o2})
=============================================================================
