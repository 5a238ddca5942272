----------------------------- MODULE MCSessions -----------------------------
(* TLC instance of Sessions: the symmetry of its model values.             *)
EXTENDS Sessions, TLC

Symmetry ==
    Permutations(Session) \cup Permutations(Request) \cup Permutations(Sweep)

=============================================================================
