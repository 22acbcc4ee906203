---------------------------- MODULE MCFeedService ----------------------------
(* Instances of FeedService for TLC: two requests, for one feed, or for three   *)
(* of which two share a key, with caching on and off.                         *)
EXTENDS FeedService, TLC

CONSTANTS r1, r2, f1, f2, f3, k1, k2

MCTTL        == {0, 1}
MCCached     == {1}
MCCacheKeyOf == (f1 :> k1) @@ (f2 :> k2) @@ (f3 :> k1)
MCOneKeyOf   == (f1 :> k1)

Symmetry == Permutations(Request)
==============================================================================
