---------------------------- MODULE MCHttpAuthz ----------------------------
(* Two routes and up to three layers: Authenticate before, between and       *)
(* after two Requires; the session is renewed once.                          *)
EXTENDS HttpAuthz
=============================================================================
