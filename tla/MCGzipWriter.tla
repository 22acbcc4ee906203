---------------------------- MODULE MCGzipWriter ----------------------------
(* Instances of GzipWriter for TLC. *)
EXTENDS GzipWriter, TLC

CONSTANTS r1, r2, g1, g2

MCFeed        == [status |-> 200, chunks |-> 3, encodes |-> FALSE]
MCNotModified == [status |-> 304, chunks |-> 0, encodes |-> FALSE]
MCError       == [status |-> 500, chunks |-> 1, encodes |-> FALSE]
MCBare        == [status |-> None, chunks |-> 1, encodes |-> FALSE]
MCMetrics     == [status |-> None, chunks |-> 2, encodes |-> TRUE]

MCHandlers == {MCFeed, MCNotModified, MCError, MCBare, MCMetrics}

MCSymmetry == Permutations({r1, r2}) \cup Permutations({g1, g2})
==============================================================================
