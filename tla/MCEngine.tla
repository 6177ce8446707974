------------------------------ MODULE MCEngine ------------------------------
(* Model checking of Engine: symmetry for small sets of model values.       *)
EXTENDS Engine, TLC

Symmetry == Permutations(Conn) \cup Permutations(CID)
=============================================================================
