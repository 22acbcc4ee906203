--------------------------- MODULE MCServiceMetrics ---------------------------
(* Instances of ServiceMetrics for TLC, with MCFeedService's parameters.       *)
EXTENDS ServiceMetrics, MCFeedService
==============================================================================
