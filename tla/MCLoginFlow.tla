----------------------------- MODULE MCLoginFlow -----------------------------
(* Instance of the login for TLC.                                           *)
EXTENDS LoginFlow, TLC

Symmetry == Permutations(Browsers) \cup Permutations(Logins)
                \cup Permutations(Callbacks) \cup Permutations(Codes)
=============================================================================
