---------------------------- MODULE MCRedisCache ----------------------------
(* Instances of RedisCache for TLC. *)
EXTENDS RedisCache, TLC

CONSTANTS c1, c2, r1

MCTTL      == {0, 1}
MCSymmetry == Permutations({c1, c2})
==============================================================================
