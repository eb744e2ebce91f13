--------------------------- MODULE MCUserWakeLock ---------------------------
(* UserWakeLock for TLC: three names like "a", "ab" and "b", the first of  *)
(* which is the beginning of the second.                                   *)
EXTENDS UserWakeLock

MCBegins == {<<1, 2>>}
=============================================================================
