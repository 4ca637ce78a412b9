--------------------------- MODULE MCStoreClients ---------------------------
(* The memory backend with two sessions, two overlapping acquisitions and   *)
(* a clock that passes both deadlines and two lease lifetimes.              *)
EXTENDS StoreClients, TLC

Symmetry == Permutations(Callers) \cup Permutations(Ids)
=============================================================================
