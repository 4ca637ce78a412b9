---------------------------- MODULE MCRedisStore ----------------------------
(* Two processes in the middle of a key rotation: the first does not know   *)
(* the key that the second already seals with.                              *)
EXTENDS RedisStore

CONSTANTS c1, c2, oldKey, newKey

KeysInRotation == [c \in {c1, c2} |-> IF c = c1 THEN {oldKey} ELSE {oldKey, newKey}]
PrimaryInRotation == [c \in {c1, c2} |-> IF c = c1 THEN oldKey ELSE newKey]
=============================================================================
