--------------------------- MODULE MCPushChannel ----------------------------
(* TLC instance of PushChannel.                                             *)
EXTENDS PushChannel, TLC

Symmetry == Permutations(Connection) \cup Permutations(Token)

=============================================================================
