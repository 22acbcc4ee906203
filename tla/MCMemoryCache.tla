---------------------------- MODULE MCMemoryCache ----------------------------
(* Instances of MemoryCache for TLC: a handful of keys and documents, every   *)
(* lifetime from an already expired one to one beyond the stale buffer.       *)
EXTENDS MemoryCache

CONSTANTS k1, k2, v1

MCTTL == {-1, 0, 1, 2}
==============================================================================
