--------------------------- MODULE MCPluginGrants ---------------------------
(* TLC instance of PluginGrants: the symmetry of its model values.         *)
EXTENDS PluginGrants, TLC

Symmetry == Permutations(Permission) \cup Permutations(Request)

=============================================================================
