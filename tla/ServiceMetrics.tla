---------------------------- MODULE ServiceMetrics ----------------------------
(***************************************************************************)
(* The request path with the Prometheus metrics it keeps (metrics.go, the  *)
(* Record calls of telegram.go): FeedService's actions, each with what it  *)
(* does to three counters and a gauge.  A Record call is taken with the    *)
(* step it follows or precedes in its goroutine.                           *)
(***************************************************************************)
EXTENDS FeedService

VARIABLES cacheHitsTotal, cacheMissesTotal, staleResponsesTotal, activeScrapes

counters    == <<cacheHitsTotal, cacheMissesTotal, staleResponsesTotal>>
metricsVars == <<vars, counters, activeScrapes>>

Answered(label) == {r \in Request : response[r].label = label}

\* What tryCache counts.  An expired entry is a miss, even if it is served.
RecordLookup(r) ==
  /\ cacheHitsTotal' = IF pc'[Serve(r)] = "done" THEN cacheHitsTotal + 1 ELSE cacheHitsTotal
  /\ cacheMissesTotal' = IF pc'[Serve(r)] = "stale" THEN cacheMissesTotal + 1 ELSE cacheMissesTotal
  /\ UNCHANGED staleResponsesTotal

RecordStaleRefreshed(r) ==
  /\ staleResponsesTotal' =
       IF pc'[Refresh(r)] = "acquire" /\ pc[Refresh(r)] = "idle"
         THEN staleResponsesTotal + 1 ELSE staleResponsesTotal
  /\ UNCHANGED <<cacheHitsTotal, cacheMissesTotal>>

\* What tryStaleCache and tryStaleFallback count.
RecordStaleResponse(r) ==
  /\ staleResponsesTotal' =
       IF response'[r].label = "STALE" THEN staleResponsesTotal + 1 ELSE staleResponsesTotal
  /\ UNCHANGED <<cacheHitsTotal, cacheMissesTotal>>

\* The goroutines inside scrapeAndGenerate's call of Scrape.
InScrape == {w \in Worker : pc[w] \in {"acquire", "visit", "parse"}}

RecordScrape(started, ended) ==
  activeScrapes' = activeScrapes + (IF started THEN 1 ELSE 0) - (IF ended THEN 1 ELSE 0)

MetricsInit ==
  /\ Init
  /\ cacheHitsTotal = 0 /\ cacheMissesTotal = 0 /\ staleResponsesTotal = 0
  /\ activeScrapes = 0

MeteredArrive(r) ==
  /\ Arrive(r)
  /\ RecordScrape(pc'[Serve(r)] = "acquire", FALSE)
  /\ UNCHANGED counters

MeteredLookup(r) ==
  /\ GetRead(r) \/ GetCheck(r)
  /\ RecordLookup(r)
  /\ UNCHANGED activeScrapes

\* The handler goes on to the scrape, or starts a refresh that does.
MeteredStale(r) == GetStale(r) /\ RecordStaleResponse(r) /\ RecordScrape(TRUE, FALSE)

MeteredFallback(r) == Fallback(r) /\ RecordStaleResponse(r) /\ UNCHANGED activeScrapes

MeteredScrapeSuccess(w) ==
  /\ Scraping(w)
  /\ RecordScrape(FALSE, pc'[w] = "store")
  /\ UNCHANGED counters

\* RecordScrapeEnd comes when Scrape returns, whether it failed or not.
MeteredScrape(w) ==
  /\ Scraping(w)
  /\ RecordScrape(FALSE, pc'[w] \notin {"visit", "parse"})
  /\ UNCHANGED counters

Unmetered ==
  /\ \/ \E r \in Request : Reject(r) \/ StoreAndAnswer(r) \/ StoreRefreshed(r)
     \/ CleanerDeletes \/ CleanerOrClock \/ Publish
  /\ UNCHANGED <<counters, activeScrapes>>

MetricsNext ==
  \/ \E r \in Request :
       MeteredArrive(r) \/ MeteredLookup(r) \/ MeteredStale(r) \/ MeteredFallback(r)
  \/ \E w \in Worker : MeteredScrape(w)
  \/ Unmetered

MetricsSpec == MetricsInit /\ [][MetricsNext]_metricsVars

------------------------------------------------------------------------------
(* Properties.                                                               *)

\* The gauge counts the scrapes that run or wait for a slot, on every way out
\* of Scrape: it never drifts, and comes back to zero (scrapeAndGenerate).
GaugeBalanced ==
  /\ IsFiniteSet(InScrape)
  /\ activeScrapes = Cardinality(InScrape)

\* The requests that have been to the cache: tryCache is over.
Asked == {r \in Request : /\ ttl[r] > 0 /\ response[r].label # "BADREQUEST"
                          /\ pc[Serve(r)] \notin {"idle", "get", "check"}}

\* The counters tell what clients got: HITs and STALEs, and every request that
\* asked the cache as exactly one hit or miss (tryCache).
CountersAgree ==
  /\ cacheHitsTotal = Cardinality(Answered("HIT"))
  /\ staleResponsesTotal = Cardinality(Answered("STALE"))
  /\ cacheHitsTotal + cacheMissesTotal = Cardinality(Asked)

==============================================================================
