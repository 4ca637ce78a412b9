-------------------------- MODULE MCRefreshProtocol --------------------------
(* Instances of the refresh protocol: which requests meet, under which      *)
(* lifetimes, is for each configuration to say.                             *)
EXTENDS RefreshProtocol, TLC

Symmetry == Permutations(Resolvers)
=============================================================================
