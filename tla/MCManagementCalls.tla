-------------------------- MODULE MCManagementCalls --------------------------
(* Two managers, two calls between them, of any two operations, one of which  *)
(* may repeat the other; net/http sends nothing more than twice.              *)
EXTENDS ManagementCalls
=============================================================================
