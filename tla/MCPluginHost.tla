---------------------------- MODULE MCPluginHost ----------------------------
(* TLC instance of PluginHost: the symmetry of its model values.           *)
EXTENDS PluginHost, TLC

Symmetry ==
    Permutations(Session) \cup Permutations(Request) \cup Permutations(Entry)

=============================================================================
