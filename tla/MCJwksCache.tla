---------------------------- MODULE MCJwksCache ----------------------------
(* One key to begin with and its successor, two verifications at a time.    *)
EXTENDS JwksCache
=============================================================================
