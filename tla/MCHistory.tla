------------------------------ MODULE MCHistory ------------------------------
(* TLC instance of History: the symmetry of its model values.              *)
EXTENDS History, TLC

Symmetry == Permutations(Profile) \cup Permutations(Request)

=============================================================================
