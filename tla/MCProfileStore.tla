--------------------------- MODULE MCProfileStore ---------------------------
(* TLC instance of ProfileStore: the symmetry of its inodes and writers.   *)
EXTENDS ProfileStore, TLC

Symmetry == Permutations(Inode) \cup Permutations(Writer)

=============================================================================
