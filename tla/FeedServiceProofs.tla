-------------------------- MODULE FeedServiceProofs --------------------------
(***************************************************************************)
(* The safety of the request path for any number of requests, feeds and    *)
(* slots and every lifetime.  ServiceInv is inductive; its parts are       *)
(* proved step by step below, one lemma for each.                          *)
(*                                                                         *)
(* The metrics agree with it.  They only watch: every behaviour with them  *)
(* is one of FeedService (OnlyWatches), so what is proved of the request   *)
(* path is at hand.  Each counter is then the size of a set of requests or *)
(* goroutines, and each step moves one element in or out.                  *)
(***************************************************************************)
EXTENDS ServiceMetrics, FiniteSetTheorems, TLAPS

------------------------------------------------------------------------------
(* The request path.                                                         *)

LEMMA CapacityPositive == Capacity \in Nat \ {0}
BY MaxConcurrentAssumption DEF Capacity

\* A goroutine is the handler or the refresh of one request.
LEMMA Workers ==
  /\ \A r \in Request : Serve(r) \in Worker /\ Refresh(r) \in Worker
  /\ \A w \in Worker : w[1] \in Request /\ (w = Serve(w[1]) \/ w = Refresh(w[1]))
  /\ \A r, s : Serve(r) # Refresh(s)
  /\ \A r : Serve(r)[1] = r /\ Refresh(r)[1] = r
  /\ \A r : Serve(r)[2] = "serve" /\ Refresh(r)[2] = "refresh"
BY DEF Worker, Serve, Refresh

\* A document stored for a positive lifetime is an item of the cache.
LEMMA StoredItem ==
  ASSUME NEW v \in Content, NEW t \in TTL, now \in Nat
  PROVE  [value |-> v, expiresAt |-> now + t] \in Item
BY RequestTTLAssumption DEF Item

\* The operations of the cache keep its types.
LEMMA CacheTypes ==
  ASSUME Cache!TypeOK, [Cache!Next]_cacheVars
  PROVE  Cache!TypeOK'
<1> USE DEF Cache!TypeOK, Cache!Item
<1>1. ASSUME NEW k \in Key, NEW v \in Content, NEW t \in TTL, Cache!Set(k, v, t)
      PROVE  Cache!TypeOK'
  <2>1. [value |-> v, expiresAt |-> now + t] \in Cache!Item
    BY RequestTTLAssumption
  <2>2. CASE t = 0
    BY <1>1, <2>2 DEF Cache!Set, Cache!cacheVars
  <2>3. CASE t # 0
    BY <1>1, <2>1, <2>3 DEF Cache!Set
  <2> QED BY <2>2, <2>3
<1>2. CASE Cache!StartCleanup
  BY <1>2 DEF Cache!StartCleanup
<1>3. CASE Cache!Scan
  BY <1>3 DEF Cache!Scan
<1>4. CASE Cache!Delete
  BY <1>4 DEF Cache!Delete
<1>5. CASE Cache!Exit
  BY <1>5 DEF Cache!Exit
<1>6. CASE Cache!Stop
  BY <1>6 DEF Cache!Stop
<1>7. CASE Cache!Clear
  BY <1>7 DEF Cache!Clear
<1>8. CASE Cache!Tick
  BY <1>8 DEF Cache!Tick
<1>9. CASE UNCHANGED cacheVars
  BY <1>9 DEF cacheVars
<1> QED
  BY <1>1, <1>2, <1>3, <1>4, <1>5, <1>6, <1>7, <1>8, <1>9 DEF Cache!Next, Cache!Cleaner

\* Every step uses the cache through one of its operations or not at all.
LEMMA CacheStep ==
  ASSUME TypeOK, Documents, [Next]_vars
  PROVE  [Cache!Next]_cacheVars
<1>1. ASSUME NEW r \in Request, StoreAndAnswer(r)
      PROVE  [Cache!Next]_cacheVars
  <2>1. content[Serve(r)] \in Content
    BY <1>1, Workers DEF StoreAndAnswer, Documents
  <2>2. buildCacheKey(r) \in Key /\ ttl[r] \in TTL
    BY CacheKeyAssumption DEF buildCacheKey, TypeOK
  <2> QED
    BY <1>1, <2>1, <2>2 DEF StoreAndAnswer, Cache!Next
<1>2. ASSUME NEW r \in Request, StoreRefreshed(r)
      PROVE  [Cache!Next]_cacheVars
  <2>1. content[Refresh(r)] \in Content
    BY <1>2, Workers DEF StoreRefreshed, Documents
  <2>2. buildCacheKey(r) \in Key /\ ttl[r] \in TTL
    BY CacheKeyAssumption DEF buildCacheKey, TypeOK
  <2> QED
    BY <1>2, <2>1, <2>2 DEF StoreRefreshed, Cache!Next
<1>3. CASE CleanerDeletes
  BY <1>3 DEF CleanerDeletes, Cache!Next, Cache!Cleaner
<1>4. CASE CleanerOrClock
  BY <1>4 DEF CleanerOrClock, Cache!Next, Cache!Cleaner
<1>5. ASSUME NEW r \in Request,
             Arrive(r) \/ Reject(r) \/ GetRead(r) \/ GetCheck(r) \/ GetStale(r) \/ Fallback(r)
      PROVE  UNCHANGED cacheVars
  BY <1>5 DEF Arrive, Reject, GetRead, GetCheck, GetStale, Fallback
<1>6. ASSUME NEW w \in Worker, Scraping(w)
      PROVE  UNCHANGED cacheVars
  BY <1>6 DEF Scraping, Acquire, AcquireCancelled, VisitOk, VisitFails, ParseDone
<1>7. CASE Publish \/ UNCHANGED vars
  BY <1>7 DEF Publish, vars
<1> QED
  BY <1>1, <1>2, <1>3, <1>4, <1>5, <1>6, <1>7 DEF Next, Handling


\* Where goroutines can be, in every reachable state.
LEMMA ControlStep ==
  ASSUME TypeOK, Control, [Next]_vars
  PROVE  Control'
<1>0. \A r \in Request : ttl[r] \in Int
  BY RequestTTLAssumption DEF TypeOK
<1> USE <1>0, Workers DEF Control, TypeOK, Goto, Answer, params
<1>1. ASSUME NEW r \in Request, Arrive(r) PROVE Control'
  <2>1. \A s \in Request : s # r => Serve(s) # Serve(r)
    BY Workers
  <2>2. CASE ttl[r] > 0
    BY <1>1, <2>1, <2>2 DEF Arrive
  <2>3. CASE ~ (ttl[r] > 0)
    BY <1>1, <2>1, <2>3 DEF Arrive
  <2> QED BY <2>2, <2>3
<1>2. ASSUME NEW r \in Request, Reject(r) PROVE Control'
  BY <1>2 DEF Reject
<1>3. ASSUME NEW r \in Request, GetRead(r) PROVE Control'
  BY <1>3 DEF GetRead
<1>4. ASSUME NEW r \in Request, GetCheck(r) PROVE Control'
  BY <1>4 DEF GetCheck
<1>5. ASSUME NEW r \in Request, GetStale(r) PROVE Control'
  <2>1. ttl[r] > 0
    BY <1>5 DEF GetStale
  <2>2. CASE Cache!Lookup(buildCacheKey(r)) = NoItem
    BY <1>5, <2>2 DEF GetStale
  <2>3. CASE Cache!Lookup(buildCacheKey(r)) # NoItem
    <3>1. /\ pc' = [pc EXCEPT ![Serve(r)] = "done", ![Refresh(r)] = "acquire"]
          /\ UNCHANGED ttl
          /\ \A s \in Request \ {r} : response'[s] = response[s]
      BY <1>5, <2>3 DEF GetStale
    <3> QED BY <2>1, <3>1
  <2> QED BY <2>2, <2>3
<1>6. ASSUME NEW r \in Request, StoreAndAnswer(r) PROVE Control'
  BY <1>6 DEF StoreAndAnswer
<1>7. ASSUME NEW r \in Request, StoreRefreshed(r) PROVE Control'
  BY <1>7 DEF StoreRefreshed
<1>8. ASSUME NEW r \in Request, Fallback(r) PROVE Control'
  BY <1>8 DEF Fallback
<1>9. ASSUME NEW w \in Worker, Acquire(w) PROVE Control'
  BY <1>9 DEF Acquire
<1>10. ASSUME NEW w \in Worker, AcquireCancelled(w) PROVE Control'
  BY <1>10 DEF AcquireCancelled, AfterFailure
<1>11. ASSUME NEW w \in Worker, VisitOk(w) PROVE Control'
  BY <1>11 DEF VisitOk
<1>12. ASSUME NEW w \in Worker, VisitFails(w) PROVE Control'
  BY <1>12 DEF VisitFails, AfterFailure
<1>13. ASSUME NEW w \in Worker, ParseDone(w) PROVE Control'
  BY <1>13 DEF ParseDone, AfterFailure
<1>14. CASE CleanerDeletes
  BY <1>14 DEF CleanerDeletes
<1>15. CASE CleanerOrClock
  BY <1>15 DEF CleanerOrClock, serviceVars
<1>16. CASE Publish
  BY <1>16 DEF Publish
<1>17. CASE UNCHANGED vars
  BY <1>17 DEF vars, serviceVars
<1> QED
  BY <1>1, <1>2, <1>3, <1>4, <1>5, <1>6, <1>7, <1>8, <1>9, <1>10, <1>11,
     <1>12, <1>13, <1>14, <1>15, <1>16, <1>17 DEF Next, Handling, Scraping


\* The semaphore: a step that moves no goroutine in or out of a scrape leaves
\* the count alone; the others move one goroutine and one token.
LEMMA EnterScrape ==
  ASSUME SlotAccounting, NEW w \in Worker, w \notin Holders, Cardinality(Holders) < Capacity,
         Holders' = Holders \cup {w}, slots' = slots + 1
  PROVE  SlotAccounting'
<1>1. IsFiniteSet(Holders) /\ Cardinality(Holders) \in Nat
  BY FS_CardinalityType DEF SlotAccounting
<1>2. /\ IsFiniteSet(Holders \cup {w})
      /\ Cardinality(Holders \cup {w}) = Cardinality(Holders) + 1
  BY <1>1, FS_AddElement
<1> QED
  BY <1>1, <1>2, CapacityPositive DEF SlotAccounting

LEMMA LeaveScrape ==
  ASSUME SlotAccounting, NEW w \in Holders,
         Holders' = Holders \ {w}, slots' = slots - 1
  PROVE  SlotAccounting'
<1>1. IsFiniteSet(Holders) /\ Cardinality(Holders) \in Nat
  BY FS_CardinalityType DEF SlotAccounting
<1>2. /\ IsFiniteSet(Holders \ {w})
      /\ Cardinality(Holders \ {w}) = Cardinality(Holders) - 1
  BY <1>1, FS_RemoveElement
<1> QED
  BY <1>1, <1>2, CapacityPositive DEF SlotAccounting

LEMMA SlotStep ==
  ASSUME TypeOK, Control, SlotAccounting, [Next]_vars
  PROVE  SlotAccounting'
<1> DEFINE Inside == {"visit", "parse"}
<1>1. ASSUME Holders' = Holders, UNCHANGED slots PROVE SlotAccounting'
  BY <1>1 DEF SlotAccounting
<1>2. ASSUME NEW w \in Worker, NEW label, pc' = [pc EXCEPT ![w] = label],
             pc[w] \in Inside <=> label \in Inside
      PROVE  Holders' = Holders
  BY <1>2 DEF Holders, TypeOK
<1>3. ASSUME NEW r \in Request,
             Arrive(r) \/ Reject(r) \/ GetRead(r) \/ GetCheck(r)
               \/ StoreAndAnswer(r) \/ StoreRefreshed(r) \/ Fallback(r)
      PROVE  SlotAccounting'
  <2>1. UNCHANGED slots
    BY <1>3 DEF Arrive, Reject, GetRead, GetCheck, StoreAndAnswer, StoreRefreshed, Fallback
  <2>2. \E w \in Worker, label \in {"get", "acquire", "done", "stale", "check"} :
          pc[w] \notin Inside /\ pc' = [pc EXCEPT ![w] = label]
    BY <1>3, Workers DEF Arrive, Reject, GetRead, GetCheck, StoreAndAnswer,
       StoreRefreshed, Fallback, Goto
  <2>3. Holders' = Holders
    BY <1>2, <2>2
  <2> QED BY <1>1, <2>1, <2>3
<1>4. ASSUME NEW r \in Request, GetStale(r) PROVE SlotAccounting'
  <2>1. CASE Cache!Lookup(buildCacheKey(r)) = NoItem
    BY <1>1, <1>2, <1>4, <2>1, Workers DEF GetStale, Goto
  <2>2. CASE Cache!Lookup(buildCacheKey(r)) # NoItem
    <3>1. /\ pc' = [pc EXCEPT ![Serve(r)] = "done", ![Refresh(r)] = "acquire"]
          /\ pc[Serve(r)] = "stale"
          /\ UNCHANGED slots
      BY <1>4, <2>2 DEF GetStale
    <3>2. pc[Refresh(r)] = "idle"
      BY <3>1 DEF Control
    <3>3. Holders' = Holders
      BY <3>1, <3>2, Workers DEF Holders, TypeOK
    <3> QED BY <1>1, <3>1, <3>3
  <2> QED BY <2>1, <2>2
<1>5. ASSUME NEW w \in Worker, Acquire(w) PROVE SlotAccounting'
  <2>1. w \notin Holders /\ Holders' = Holders \cup {w} /\ slots' = slots + 1
    BY <1>5 DEF Acquire, Goto, Holders, TypeOK
  <2>2. Cardinality(Holders) < Capacity
    BY <1>5 DEF Acquire, SlotAccounting
  <2> QED BY <2>1, <2>2, EnterScrape
<1>6. ASSUME NEW w \in Worker, AcquireCancelled(w) PROVE SlotAccounting'
  BY <1>1, <1>2, <1>6 DEF AcquireCancelled, AfterFailure, Goto
<1>7. ASSUME NEW w \in Worker, VisitOk(w) PROVE SlotAccounting'
  BY <1>1, <1>2, <1>7 DEF VisitOk, Goto
<1>8. ASSUME NEW w \in Worker, VisitFails(w) \/ ParseDone(w) PROVE SlotAccounting'
  <2>1. w \in Holders /\ Holders' = Holders \ {w} /\ slots' = slots - 1
    BY <1>8 DEF VisitFails, ParseDone, AfterFailure, Goto, Holders, TypeOK
  <2> QED BY <2>1, LeaveScrape
<1>9. CASE CleanerDeletes \/ CleanerOrClock \/ Publish \/ UNCHANGED vars
  <2>1. UNCHANGED <<pc, slots>>
    BY <1>9 DEF CleanerDeletes, CleanerOrClock, Publish, vars, serviceVars
  <2> QED BY <1>1, <2>1 DEF Holders
<1> QED
  BY <1>3, <1>4, <1>5, <1>6, <1>7, <1>8, <1>9 DEF Next, Handling, Scraping

\* Types, given that documents are where Documents and Filing say.
LEMMA TypeStep ==
  ASSUME TypeOK, Control, SlotAccounting, Documents, Filing, [Next]_vars
  PROVE  TypeOK'
<1>1. Cache!TypeOK'
  BY CacheStep, CacheTypes DEF TypeOK
<1>2. slots' \in 0..Capacity
  BY SlotStep, CapacityPositive, FS_CardinalityType DEF SlotAccounting
<1>3. UNCHANGED params
  BY DEF Next, Handling, Scraping, Arrive, Reject, GetRead, GetCheck, GetStale,
     StoreAndAnswer, StoreRefreshed, Fallback, Acquire, AcquireCancelled, VisitOk,
     VisitFails, ParseDone, CleanerDeletes, CleanerOrClock, Publish, vars, serviceVars
<1>4. \A k \in Key : cache[k] \in Item \cup {NoItem}
  BY DEF TypeOK, Cache!TypeOK, Cache!Item, Item
<1>5. \A r \in Request : buildCacheKey(r) \in Key
  BY CacheKeyAssumption DEF buildCacheKey, TypeOK
<1> DEFINE Own == /\ pc' \in [Worker -> {"idle", "get", "check", "stale", "acquire", "visit",
                                        "parse", "store", "fallback", "done"}]
                  /\ item' \in [Request -> Item \cup {NoItem}]
                  /\ content' \in [Worker -> Content \cup {NoContent}]
                  /\ upstream' \in 0..MaxVersion
                  /\ response' \in [Request -> Response \cup {NoResponse}]
                  /\ since' \in [Worker -> 0..MaxVersion]
                  /\ gap' \subseteq Request
<1>6. Own
  <2>a. \A i \in Item : i.value \in Content
    BY DEF Item
  <2>b. \A l \in Label, d \in Content \cup {NoContent} :
          [label |-> l, content |-> d] \in Response
    BY DEF Response
  <2> USE <1>4, <1>5, Workers DEF TypeOK, Goto, Answer
  <2>1. ASSUME NEW r \in Request, Arrive(r) PROVE Own
    BY <2>1 DEF Arrive
  <2>2. ASSUME NEW r \in Request, Reject(r) PROVE Own
    BY <2>2 DEF Reject, Response, Label
  <2>3. ASSUME NEW r \in Request, GetRead(r) PROVE Own
    BY <2>3 DEF GetRead, Cache!Lookup
  <2>4. ASSUME NEW r \in Request, GetCheck(r) PROVE Own
    <3>1. item[r] \in Item
      BY <2>4 DEF GetCheck, Filing
    <3>2. [label |-> "HIT", content |-> item[r].value] \in Response
      BY <3>1, <2>a, <2>b DEF Label
    <3>3. item' \in [Request -> Item \cup {NoItem}]
      BY <2>4 DEF GetCheck
    <3>4. response' \in [Request -> Response \cup {NoResponse}]
      BY <2>4, <3>2 DEF GetCheck
    <3> QED BY <2>4, <3>3, <3>4 DEF GetCheck
  <2>5. ASSUME NEW r \in Request, GetStale(r) PROVE Own
    <3> DEFINE found == Cache!Lookup(buildCacheKey(r))
    <3>1. found # NoItem => [label |-> "STALE", content |-> found.value] \in Response
      BY <2>a, <2>b DEF Label, Cache!Lookup
    <3>2. response' \in [Request -> Response \cup {NoResponse}]
      BY <2>5, <3>1 DEF GetStale
    <3>3. since' \in [Worker -> 0..MaxVersion]
      BY <2>5 DEF GetStale
    <3> QED BY <2>5, <3>2, <3>3 DEF GetStale
  <2>6. ASSUME NEW r \in Request, StoreAndAnswer(r) PROVE Own
    BY <2>6 DEF StoreAndAnswer, Response, Label
  <2>7. ASSUME NEW r \in Request, StoreRefreshed(r) PROVE Own
    BY <2>7 DEF StoreRefreshed
  <2>8. ASSUME NEW r \in Request, Fallback(r) PROVE Own
    BY <2>8 DEF Fallback, Response, Label, Item, Cache!Lookup
  <2>9. ASSUME NEW w \in Worker, Acquire(w) \/ AcquireCancelled(w) \/ VisitFails(w) PROVE Own
    BY <2>9 DEF Acquire, AcquireCancelled, VisitFails, AfterFailure
  <2>10. ASSUME NEW w \in Worker, VisitOk(w) PROVE Own
    BY <2>10 DEF VisitOk, Content
  <2>11. ASSUME NEW w \in Worker, ParseDone(w) PROVE Own
    BY <2>11 DEF ParseDone, AfterFailure
  <2>12. CASE CleanerDeletes
    BY <2>12 DEF CleanerDeletes, InFlight
  <2>13. CASE Publish
    BY <2>13, BoundsAssumption DEF Publish
  <2>14. CASE CleanerOrClock \/ UNCHANGED vars
    BY <2>14 DEF CleanerOrClock, vars, serviceVars
  <2> QED
    BY <2>1, <2>2, <2>3, <2>4, <2>5, <2>6, <2>7, <2>8, <2>9, <2>10, <2>11,
       <2>12, <2>13, <2>14 DEF Next, Handling, Scraping
<1> QED
  BY <1>1, <1>2, <1>3, <1>6 DEF TypeOK, params


\* What goroutines carry is a document of their own feed, scraped after they
\* started.
LEMMA DocumentsStep ==
  ASSUME TypeOK, Control, Documents, [Next]_vars
  PROVE  Documents'
<1> DEFINE Carries(w) == IF pc[w] \in {"parse", "store"}
                           THEN /\ content[w] \in Content
                                /\ content[w].feed = feed[w[1]]
                                /\ content[w].version >= since[w]
                           ELSE content[w] = NoContent
<1>0. \A w \in Worker : since[w] \in Int /\ upstream \in Int
  BY BoundsAssumption DEF TypeOK
<1> USE <1>0, Workers DEF Documents, TypeOK, Goto, Answer, params
<1>1. ASSUME NEW r \in Request, Arrive(r) PROVE Documents'
  <2>1. /\ pc'[Serve(r)] \in {"get", "acquire"} /\ content[Serve(r)] = NoContent
        /\ since' = [since EXCEPT ![Serve(r)] = upstream]
        /\ \A w \in Worker \ {Serve(r)} : pc'[w] = pc[w]
        /\ UNCHANGED <<content, upstream, feed>>
    BY <1>1 DEF Arrive
  <2> QED BY <2>1
<1>2. ASSUME NEW r \in Request, Reject(r) PROVE Documents'
  BY <1>2 DEF Reject
<1>3. ASSUME NEW r \in Request, GetRead(r) PROVE Documents'
  BY <1>3 DEF GetRead
<1>4. ASSUME NEW r \in Request, GetCheck(r) PROVE Documents'
  BY <1>4 DEF GetCheck
<1>5. ASSUME NEW r \in Request, GetStale(r) PROVE Documents'
  <2>1. CASE Cache!Lookup(buildCacheKey(r)) = NoItem
    BY <1>5, <2>1 DEF GetStale
  <2>2. CASE Cache!Lookup(buildCacheKey(r)) # NoItem
    <3>1. /\ pc' = [pc EXCEPT ![Serve(r)] = "done", ![Refresh(r)] = "acquire"]
          /\ since' = [since EXCEPT ![Refresh(r)] = upstream]
          /\ pc[Serve(r)] = "stale"
          /\ UNCHANGED <<content, upstream, feed>>
      BY <1>5, <2>2 DEF GetStale
    <3>2. pc[Refresh(r)] = "idle"
      BY <3>1 DEF Control
    <3> QED BY <3>1, <3>2
  <2> QED BY <2>1, <2>2
<1>6. ASSUME NEW r \in Request, StoreAndAnswer(r) PROVE Documents'
  BY <1>6 DEF StoreAndAnswer
<1>7. ASSUME NEW r \in Request, StoreRefreshed(r) PROVE Documents'
  BY <1>7 DEF StoreRefreshed
<1>8. ASSUME NEW r \in Request, Fallback(r) PROVE Documents'
  BY <1>8 DEF Fallback
<1>9. ASSUME NEW w \in Worker, Acquire(w) \/ AcquireCancelled(w) \/ VisitFails(w)
      PROVE  Documents'
  <2>1. /\ pc[w] \in {"acquire", "visit"}
        /\ \E l \in {"visit", "fallback", "done"} : pc' = [pc EXCEPT ![w] = l]
        /\ UNCHANGED <<content, upstream, since, feed>>
    BY <1>9 DEF Acquire, AcquireCancelled, VisitFails, AfterFailure
  <2> QED BY <2>1
<1>10. ASSUME NEW w \in Worker, VisitOk(w) PROVE Documents'
  <2> DEFINE doc == [feed |-> feed[w[1]], version |-> upstream]
  <2>1. doc \in Content
    BY DEF Content
  <2>2. /\ content' = [content EXCEPT ![w] = doc]
        /\ pc' = [pc EXCEPT ![w] = "parse"]
        /\ UNCHANGED <<upstream, feed, since>>
    BY <1>10 DEF VisitOk
  <2>3. content'[w] = doc /\ doc.feed = feed[w[1]] /\ doc.version >= since[w]
    BY <2>2
  <2> HIDE DEF doc
  <2> QED BY <2>1, <2>2, <2>3
<1>11. ASSUME NEW w \in Worker, ParseDone(w) PROVE Documents'
  <2>1. pc[w] = "parse" /\ UNCHANGED <<upstream, since, feed>>
    BY <1>11 DEF ParseDone
  <2>2. \/ pc' = [pc EXCEPT ![w] = "store"] /\ UNCHANGED content
        \/ /\ \E l \in {"fallback", "done"} : pc' = [pc EXCEPT ![w] = l]
           /\ content' = [content EXCEPT ![w] = NoContent]
    BY <1>11 DEF ParseDone, AfterFailure
  <2>3. CASE pc' = [pc EXCEPT ![w] = "store"] /\ UNCHANGED content
    BY <2>1, <2>3
  <2>4. CASE /\ \E l \in {"fallback", "done"} : pc' = [pc EXCEPT ![w] = l]
             /\ content' = [content EXCEPT ![w] = NoContent]
    BY <2>1, <2>4
  <2> QED BY <2>2, <2>3, <2>4
<1>12. CASE Publish
  BY <1>12 DEF Publish
<1>13. CASE CleanerDeletes \/ CleanerOrClock \/ UNCHANGED vars
  BY <1>13 DEF CleanerDeletes, CleanerOrClock, vars, serviceVars
<1> QED
  BY <1>1, <1>2, <1>3, <1>4, <1>5, <1>6, <1>7, <1>8, <1>9, <1>10, <1>11,
     <1>12, <1>13 DEF Next, Handling, Scraping

\* Set files a document under its key, for positive lifetimes.
LEMMA SetStores ==
  ASSUME TypeOK, NEW k \in Key, NEW v \in Content, NEW t \in TTL, t > 0, Cache!Set(k, v, t)
  PROVE  cache' = [cache EXCEPT ![k] = [value |-> v, expiresAt |-> now + t]]
BY RequestTTLAssumption DEF Cache!Set, Cache!cacheVars

\* What the cache does in each kind of step.
LEMMA CacheEffect ==
  ASSUME TypeOK, Control, Documents, [Next]_vars
  PROVE  \/ UNCHANGED cache
         \/ CleanerDeletes
         \/ \E r \in Request : \E v \in Content, e \in Int :
              /\ (StoreAndAnswer(r) /\ v = content[Serve(r)])
                   \/ (StoreRefreshed(r) /\ v = content[Refresh(r)])
              /\ v.feed = feed[r]
              /\ cache' = [cache EXCEPT ![buildCacheKey(r)] = [value |-> v, expiresAt |-> e]]
<1>0. \A r \in Request : ttl[r] \in Int /\ ttl[r] \in TTL /\ buildCacheKey(r) \in Key
  BY RequestTTLAssumption, CacheKeyAssumption DEF TypeOK, buildCacheKey
<1>00. \A r \in Request : now + ttl[r] \in Int
  BY <1>0 DEF TypeOK, Cache!TypeOK
<1>1. ASSUME NEW r \in Request, StoreAndAnswer(r), ttl[r] > 0
      PROVE  /\ content[Serve(r)] \in Content /\ content[Serve(r)].feed = feed[r]
             /\ cache' = [cache EXCEPT ![buildCacheKey(r)] =
                            [value |-> content[Serve(r)], expiresAt |-> now + ttl[r]]]
  <2>1. content[Serve(r)] \in Content /\ content[Serve(r)].feed = feed[r]
    BY <1>1, Workers DEF StoreAndAnswer, Documents
  <2>2. Cache!Set(buildCacheKey(r), content[Serve(r)], ttl[r])
    BY <1>0, <1>1 DEF StoreAndAnswer
  <2> QED BY <1>0, <1>1, <2>1, <2>2, SetStores
<1>2. ASSUME NEW r \in Request, StoreAndAnswer(r), ~ (ttl[r] > 0)
      PROVE  UNCHANGED cache
  BY <1>0, <1>2 DEF StoreAndAnswer, cacheVars
<1>3. ASSUME NEW r \in Request, StoreRefreshed(r)
      PROVE  /\ content[Refresh(r)] \in Content /\ content[Refresh(r)].feed = feed[r]
             /\ cache' = [cache EXCEPT ![buildCacheKey(r)] =
                            [value |-> content[Refresh(r)], expiresAt |-> now + ttl[r]]]
  <2>1. content[Refresh(r)] \in Content /\ content[Refresh(r)].feed = feed[r]
    BY <1>3, Workers DEF StoreRefreshed, Documents
  <2>2. ttl[r] > 0
    BY <1>3 DEF StoreRefreshed, Control
  <2>3. Cache!Set(buildCacheKey(r), content[Refresh(r)], ttl[r])
    BY <1>3 DEF StoreRefreshed
  <2> QED BY <1>0, <2>1, <2>2, <2>3, SetStores
<1>4. CASE CleanerOrClock \/ Publish \/ UNCHANGED vars
  BY <1>4 DEF CleanerOrClock, Cache!StartCleanup, Cache!Scan, Cache!Tick, Publish, vars, cacheVars
<1>5. ASSUME NEW r \in Request,
             Arrive(r) \/ Reject(r) \/ GetRead(r) \/ GetCheck(r) \/ GetStale(r) \/ Fallback(r)
      PROVE  UNCHANGED cache
  BY <1>5 DEF Arrive, Reject, GetRead, GetCheck, GetStale, Fallback, cacheVars
<1>6. ASSUME NEW w \in Worker, Scraping(w)
      PROVE  UNCHANGED cache
  BY <1>6 DEF Scraping, Acquire, AcquireCancelled, VisitOk, VisitFails, ParseDone, cacheVars
<1> QED
  BY <1>00, <1>1, <1>2, <1>3, <1>4, <1>5, <1>6 DEF Next, Handling


\* Documents stay filed under the key of the feed they belong to.
LEMMA FilingStep ==
  ASSUME TypeOK, TypeOK', Control, Documents, Filing, [Next]_vars
  PROVE  Filing'
<1>1. /\ \A f \in Feed : CacheKeyOf[f] \in Key
      /\ \A r \in Request : feed[r] \in Feed
  BY CacheKeyAssumption DEF TypeOK
<1>2. UNCHANGED params
  BY DEF Next, Handling, Scraping, Arrive, Reject, GetRead, GetCheck, GetStale,
     StoreAndAnswer, StoreRefreshed, Fallback, Acquire, AcquireCancelled, VisitOk,
     VisitFails, ParseDone, CleanerDeletes, CleanerOrClock, Publish, vars, serviceVars
<1> DEFINE Filed(c) == \A k \in Key : c[k] # NoItem => CacheKeyOf[c[k].value.feed] = k
<1>3. Filed(cache')
  <2>1. CASE UNCHANGED cache
    BY <2>1 DEF Filing
  <2>2. CASE CleanerDeletes
    BY <1>1, <2>2 DEF CleanerDeletes, Cache!Delete, Filing
  <2>3. ASSUME NEW r \in Request, NEW v \in Content, NEW e \in Int, v.feed = feed[r],
               cache' = [cache EXCEPT ![buildCacheKey(r)] = [value |-> v, expiresAt |-> e]]
        PROVE  Filed(cache')
    <3> SUFFICES ASSUME NEW k \in Key, cache'[k] # NoItem
                 PROVE  CacheKeyOf[cache'[k].value.feed] = k
      OBVIOUS
    <3>1. CASE k = CacheKeyOf[feed[r]]
      BY <1>1, <2>3, <3>1 DEF buildCacheKey, TypeOK, Cache!TypeOK
    <3>2. CASE k # CacheKeyOf[feed[r]]
      BY <1>1, <2>3, <3>2 DEF buildCacheKey, TypeOK, Cache!TypeOK, Filing
    <3> QED BY <3>1, <3>2
  <2> QED BY <2>1, <2>2, <2>3, CacheEffect
<1> DEFINE Own == /\ \A r \in Request :
                       item'[r] # NoItem => CacheKeyOf[item'[r].value.feed] = CacheKeyOf[feed[r]]
                  /\ \A r \in Request : pc'[Serve(r)] = "check" => item'[r] # NoItem
<1>4. Own
  <2> USE Workers DEF TypeOK, Goto, Filing
  <2>1. ASSUME NEW r \in Request, GetRead(r) PROVE Own
    <3>1. cache[buildCacheKey(r)] # NoItem =>
            CacheKeyOf[cache[buildCacheKey(r)].value.feed] = CacheKeyOf[feed[r]]
      BY <1>1 DEF buildCacheKey
    <3>2. /\ item' = [item EXCEPT ![r] = cache[buildCacheKey(r)]]
          /\ pc' = [pc EXCEPT ![Serve(r)] = IF cache[buildCacheKey(r)] = NoItem
                                              THEN "stale" ELSE "check"]
      BY <2>1 DEF GetRead, Cache!Lookup
    <3> QED BY <3>1, <3>2
  <2>2. ASSUME NEW r \in Request, GetCheck(r) PROVE Own
    BY <2>2 DEF GetCheck
  <2>3. ASSUME UNCHANGED item, \A r \in Request : pc'[Serve(r)] = "check" => pc[Serve(r)] = "check"
        PROVE  Own
    BY <2>3
  <2>4. ASSUME NEW r \in Request,
               Arrive(r) \/ Reject(r) \/ StoreAndAnswer(r) \/ StoreRefreshed(r) \/ Fallback(r)
        PROVE  Own
    BY <2>3, <2>4 DEF Arrive, Reject, StoreAndAnswer, StoreRefreshed, Fallback
  <2>5. ASSUME NEW r \in Request, GetStale(r) PROVE Own
    BY <2>3, <2>5 DEF GetStale
  <2>6. ASSUME NEW w \in Worker, Scraping(w) PROVE Own
    BY <2>3, <2>6 DEF Scraping, Acquire, AcquireCancelled, VisitOk, VisitFails, ParseDone,
       AfterFailure
  <2>7. CASE CleanerDeletes \/ CleanerOrClock \/ Publish \/ UNCHANGED vars
    BY <2>3, <2>7 DEF CleanerDeletes, CleanerOrClock, Publish, vars, serviceVars
  <2> QED
    BY <2>1, <2>2, <2>4, <2>5, <2>6, <2>7 DEF Next, Handling
<1> QED
  BY <1>2, <1>3, <1>4 DEF Filing, params

\* Only the cleaner takes a document from a request in flight.
LEMMA GapStep ==
  ASSUME TypeOK, TypeOK', Control, Documents, GapRecorded, [Next]_vars
  PROVE  GapRecorded'
<1>0. UNCHANGED params
  BY DEF Next, Handling, Scraping, Arrive, Reject, GetRead, GetCheck, GetStale,
     StoreAndAnswer, StoreRefreshed, Fallback, Acquire, AcquireCancelled, VisitOk,
     VisitFails, ParseDone, CleanerDeletes, CleanerOrClock, Publish, vars, serviceVars
<1>1. \A r \in Request : buildCacheKey(r) \in Key /\ buildCacheKey(r)' = buildCacheKey(r)
  BY <1>0, CacheKeyAssumption DEF buildCacheKey, TypeOK, params
<1>2. ASSUME \A k \in Key : Cache!Has(k) => Cache!Has(k)',
             InFlight' \subseteq InFlight, gap \subseteq gap'
      PROVE  GapRecorded'
  BY <1>1, <1>2 DEF GapRecorded, InFlight
<1>3. CASE ~ CleanerDeletes
  <2>1. \A k \in Key : Cache!Has(k) => Cache!Has(k)'
    <3>1. CASE UNCHANGED cache
      BY <3>1 DEF Cache!Has
    <3>2. ASSUME NEW r \in Request, NEW v \in Content, NEW e \in Int,
                 cache' = [cache EXCEPT ![buildCacheKey(r)] = [value |-> v, expiresAt |-> e]]
          PROVE  \A k \in Key : Cache!Has(k) => Cache!Has(k)'
      <4>1. [value |-> v, expiresAt |-> e] # NoItem
        BY MissingAssumption DEF Item
      <4> QED BY <3>2, <4>1, <1>1 DEF Cache!Has, TypeOK, Cache!TypeOK
    <3> QED BY <1>3, <3>1, <3>2, CacheEffect
  <2>2. ASSUME NEW r \in Request, Arrive(r) PROVE GapRecorded'
    <3>1. gap' = IF Cache!Has(buildCacheKey(r)) THEN gap ELSE gap \cup {r}
      BY <2>2 DEF Arrive
    <3>2. InFlight' \subseteq InFlight \cup {r}
      BY <2>2, Workers DEF Arrive, Goto, InFlight, TypeOK
    <3> QED BY <1>1, <2>1, <3>1, <3>2 DEF GapRecorded, InFlight
  <2>3. ASSUME UNCHANGED gap, \A r \in Request : pc'[Serve(r)] \notin {"idle", "done"}
                                                   => pc[Serve(r)] \notin {"idle", "done"}
        PROVE  GapRecorded'
    <3>1. InFlight' \subseteq InFlight
      BY <2>3 DEF InFlight
    <3> QED BY <1>2, <2>1, <2>3, <3>1
  <2>4. ASSUME NEW r \in Request, Reject(r) \/ Handling(r)
        PROVE  GapRecorded'
    BY <2>3, <2>4, Workers DEF Reject, Handling, GetRead, GetCheck, GetStale, StoreAndAnswer,
       StoreRefreshed, Fallback, Goto, TypeOK
  <2>5. ASSUME NEW w \in Worker, Scraping(w) PROVE GapRecorded'
    BY <2>3, <2>5, Workers DEF Scraping, Acquire, AcquireCancelled, VisitOk, VisitFails,
       ParseDone, AfterFailure, Goto, TypeOK
  <2>6. CASE CleanerOrClock \/ Publish \/ UNCHANGED vars
    BY <2>3, <2>6 DEF CleanerOrClock, Publish, vars, serviceVars
  <2> QED
    BY <1>3, <2>2, <2>4, <2>5, <2>6 DEF Next
<1>4. CASE CleanerDeletes
  <2>1. /\ cache' = [k \in Key |-> IF k \in doomed THEN NoItem ELSE cache[k]]
        /\ gap' = gap \cup {r \in InFlight : buildCacheKey(r) \in doomed}
        /\ InFlight' = InFlight
    BY <1>4 DEF CleanerDeletes, Cache!Delete, InFlight
  <2> QED BY <1>1, <2>1 DEF GapRecorded, InFlight, Cache!Has
<1> QED BY <1>3, <1>4


\* What a step that answers request r with a document d must establish.
LEMMA AnswerStep ==
  ASSUME TypeOK, ServedOwnFeed, MissIsFresh, UNCHANGED params,
         NEW r \in Request, NEW l \in Label, NEW d \in Content \cup {NoContent},
         Answer(r, l, d), \A w \in Worker : since'[w] = since[w] \/ w[2] = "refresh",
         d # NoContent => /\ CacheKeyOf[d.feed] = CacheKeyOf[feed[r]]
                          /\ l = "MISS" => d.feed = feed[r],
         l = "MISS" => d.version >= since[Serve(r)],
         ttl[r] =< 0 => l \notin {"HIT", "STALE"}
  PROVE  ServedOwnFeed' /\ MissIsFresh'
<1>1. /\ response' = [response EXCEPT ![r] = [label |-> l, content |-> d]]
      /\ \A s \in Request : since'[Serve(s)] = since[Serve(s)]
      /\ feed' = feed /\ ttl' = ttl
  BY Workers DEF Answer, params
<1>2. /\ response'[r].label = l /\ response'[r].content = d
      /\ \A s \in Request \ {r} : response'[s] = response[s]
  BY <1>1 DEF TypeOK
<1>3. ServedOwnFeed'
  BY <1>1, <1>2 DEF ServedOwnFeed
<1>4. MissIsFresh'
  BY <1>1, <1>2 DEF MissIsFresh
<1> QED BY <1>3, <1>4

\* Documents reach clients that asked for a feed with their key, and a MISS is fresh.
LEMMA AnswersStep ==
  ASSUME TypeOK, Control, Documents, Filing, ServedOwnFeed, MissIsFresh, [Next]_vars
  PROVE  ServedOwnFeed' /\ MissIsFresh'
<1>0. UNCHANGED params
  BY DEF Next, Handling, Scraping, Arrive, Reject, GetRead, GetCheck, GetStale,
     StoreAndAnswer, StoreRefreshed, Fallback, Acquire, AcquireCancelled, VisitOk,
     VisitFails, ParseDone, CleanerDeletes, CleanerOrClock, Publish, vars, serviceVars
<1>a. \A r \in Request : ttl[r] \in Int /\ feed[r] \in Feed
  BY RequestTTLAssumption DEF TypeOK
<1>b. \A i \in Item : i.value \in Content
  BY DEF Item
<1>c. ASSUME NEW r \in Request, cache[buildCacheKey(r)] # NoItem
      PROVE  /\ cache[buildCacheKey(r)].value \in Content
             /\ CacheKeyOf[cache[buildCacheKey(r)].value.feed] = CacheKeyOf[feed[r]]
  <2>1. buildCacheKey(r) \in Key /\ buildCacheKey(r) = CacheKeyOf[feed[r]]
    BY <1>a, CacheKeyAssumption DEF buildCacheKey
  <2>2. cache[buildCacheKey(r)] \in Item
    BY <1>c, <2>1 DEF TypeOK, Cache!TypeOK, Cache!Item, Item
  <2> QED BY <1>a, <1>b, <1>c, <2>1, <2>2 DEF Filing
<1>1. ASSUME NEW r \in Request, Reject(r) PROVE ServedOwnFeed' /\ MissIsFresh'
  BY <1>0, <1>1, AnswerStep DEF Reject, Label
<1>2. ASSUME NEW r \in Request, GetCheck(r) PROVE ServedOwnFeed' /\ MissIsFresh'
  <2>1. /\ item[r].value \in Content /\ CacheKeyOf[item[r].value.feed] = CacheKeyOf[feed[r]]
        /\ ~ (ttl[r] =< 0)
        /\ UNCHANGED since
    BY <1>2, <1>b DEF GetCheck, Filing, TypeOK, Control
  <2>2. CASE UNCHANGED response
    BY <1>0, <2>1, <2>2 DEF ServedOwnFeed, MissIsFresh, params
  <2>3. CASE Answer(r, "HIT", item[r].value)
    BY <1>0, <2>1, <2>3, AnswerStep DEF Label
  <2> QED BY <1>2, <2>2, <2>3 DEF GetCheck
<1>3. ASSUME NEW r \in Request, GetStale(r) PROVE ServedOwnFeed' /\ MissIsFresh'
  <2>1. CASE cache[buildCacheKey(r)] = NoItem
    BY <1>0, <1>3, <2>1 DEF GetStale, Cache!Lookup, ServedOwnFeed, MissIsFresh, params
  <2>2. CASE cache[buildCacheKey(r)] # NoItem
    <3>1. /\ Answer(r, "STALE", cache[buildCacheKey(r)].value)
          /\ since' = [since EXCEPT ![Refresh(r)] = upstream]
          /\ ~ (ttl[r] =< 0)
      BY <1>3, <2>2 DEF GetStale, Cache!Lookup, Control
    <3>2. \A w \in Worker : since'[w] = since[w] \/ w[2] = "refresh"
      BY <3>1, Workers DEF TypeOK
    <3> QED BY <1>0, <1>c, <2>2, <3>1, <3>2, AnswerStep DEF Label
  <2> QED BY <2>1, <2>2
<1>4. ASSUME NEW r \in Request, StoreAndAnswer(r) PROVE ServedOwnFeed' /\ MissIsFresh'
  <2>1. /\ content[Serve(r)] \in Content /\ content[Serve(r)].feed = feed[r]
        /\ content[Serve(r)].version >= since[Serve(r)]
    BY <1>4, Workers DEF StoreAndAnswer, Documents
  <2> QED BY <1>0, <1>4, <2>1, AnswerStep DEF StoreAndAnswer, Label
<1>5. ASSUME NEW r \in Request, Fallback(r) PROVE ServedOwnFeed' /\ MissIsFresh'
  <2>1. CASE ttl[r] > 0 /\ cache[buildCacheKey(r)] # NoItem
    <3>1. ~ (ttl[r] =< 0)
      BY <1>a, <2>1
    <3> QED BY <1>0, <1>5, <1>c, <2>1, <3>1, AnswerStep DEF Fallback, Cache!Lookup, Label
  <2>2. CASE ~ (ttl[r] > 0 /\ cache[buildCacheKey(r)] # NoItem)
    BY <1>0, <1>5, <2>2, AnswerStep DEF Fallback, Cache!Lookup, Label
  <2> QED BY <2>1, <2>2
<1>6. ASSUME NEW r \in Request, Arrive(r) PROVE ServedOwnFeed' /\ MissIsFresh'
  <2>1. response[r] = NoResponse
    BY <1>6 DEF Arrive, Control
  <2>2. /\ UNCHANGED response
        /\ \A s \in Request \ {r} : since'[Serve(s)] = since[Serve(s)]
    BY <1>6, Workers DEF Arrive, TypeOK
  <2> QED BY <1>0, <2>1, <2>2 DEF ServedOwnFeed, MissIsFresh, NoResponse, params
<1>7. ASSUME NEW r \in Request, GetRead(r) \/ StoreRefreshed(r)
      PROVE  ServedOwnFeed' /\ MissIsFresh'
  BY <1>0, <1>7 DEF GetRead, StoreRefreshed, ServedOwnFeed, MissIsFresh, params
<1>8. ASSUME NEW w \in Worker, Scraping(w) PROVE ServedOwnFeed' /\ MissIsFresh'
  BY <1>0, <1>8 DEF Scraping, Acquire, AcquireCancelled, VisitOk, VisitFails, ParseDone,
     ServedOwnFeed, MissIsFresh, params
<1>9. CASE CleanerDeletes \/ CleanerOrClock \/ Publish \/ UNCHANGED vars
  BY <1>0, <1>9 DEF CleanerDeletes, CleanerOrClock, Publish, vars, serviceVars,
     ServedOwnFeed, MissIsFresh, params
<1> QED
  BY <1>1, <1>2, <1>3, <1>4, <1>5, <1>6, <1>7, <1>8, <1>9 DEF Next, Handling

\* A request whose entry is there when the handler looks is answered from it.
LEMMA InstantStep ==
  ASSUME TypeOK, Control, GapRecorded, InstantWhenCached, [Next]_vars
  PROVE  InstantWhenCached'
<1>0. UNCHANGED params /\ gap \subseteq gap' /\ \A r \in Request : ttl[r] \in Int
  BY RequestTTLAssumption
     DEF Next, Handling, Scraping, Arrive, Reject, GetRead, GetCheck, GetStale,
     StoreAndAnswer, StoreRefreshed, Fallback, Acquire, AcquireCancelled, VisitOk,
     VisitFails, ParseDone, CleanerDeletes, CleanerOrClock, Publish, vars, serviceVars, TypeOK
<1> DEFINE Waiting == {"acquire", "visit", "parse", "store", "fallback"}
<1>1. ASSUME NEW r \in Request, pc'[Serve(r)] \notin Waiting \/ pc[Serve(r)] \in Waiting,
             response'[r] = response[r] \/ response'[r].label \notin {"MISS", "ERROR"},
             ttl[r] > 0, r \notin gap
      PROVE  pc'[Serve(r)] \notin Waiting /\ response'[r].label \notin {"MISS", "ERROR"}
  BY <1>1 DEF InstantWhenCached
<1> SUFFICES ASSUME NEW r \in Request, ttl[r] > 0, r \notin gap
             PROVE  /\ pc'[Serve(r)] \notin Waiting \/ pc[Serve(r)] \in Waiting
                    /\ response'[r] = response[r] \/ response'[r].label \notin {"MISS", "ERROR"}
  BY <1>0, <1>1 DEF InstantWhenCached, params
<1> USE Workers DEF TypeOK, Goto, Answer
<1>2. pc[Serve(r)] \notin Waiting
  BY DEF InstantWhenCached
<1>3. ASSUME NEW s \in Request, Arrive(s)
      PROVE  /\ pc'[Serve(r)] \notin Waiting /\ response'[r] = response[r]
  BY <1>2, <1>3 DEF Arrive
<1>4. ASSUME NEW s \in Request, Reject(s) \/ GetRead(s) \/ GetCheck(s)
      PROVE  /\ pc'[Serve(r)] \notin Waiting
             /\ response'[r] = response[r] \/ response'[r].label \notin {"MISS", "ERROR"}
  BY <1>2, <1>4 DEF Reject, GetRead, GetCheck
<1>5. ASSUME NEW s \in Request, GetStale(s)
      PROVE  /\ pc'[Serve(r)] \notin Waiting
             /\ response'[r] = response[r] \/ response'[r].label \notin {"MISS", "ERROR"}
  <2>1. CASE s # r
    <3>1. pc'[Serve(r)] = pc[Serve(r)] /\ response'[r] = response[r]
      BY <1>5, <2>1 DEF GetStale
    <3> QED BY <1>2, <3>1
  <2>2. CASE s = r
    <3>1. cache[buildCacheKey(r)] # NoItem
      BY <1>5, <2>2 DEF GetStale, GapRecorded, InFlight, Cache!Has
    <3> QED BY <1>5, <2>2, <3>1 DEF GetStale, Cache!Lookup
  <2> QED BY <2>1, <2>2
<1>6. ASSUME NEW s \in Request, StoreAndAnswer(s) \/ StoreRefreshed(s) \/ Fallback(s)
      PROVE  pc'[Serve(r)] \notin Waiting /\ response'[r] = response[r]
  <2>1. s # r \/ StoreRefreshed(s)
    BY <1>2, <1>6 DEF StoreAndAnswer, Fallback
  <2> QED BY <1>2, <1>6, <2>1 DEF StoreAndAnswer, StoreRefreshed, Fallback
<1>7. ASSUME NEW w \in Worker, Scraping(w)
      PROVE  pc'[Serve(r)] \notin Waiting /\ response'[r] = response[r]
  <2>1. pc[w] \in Waiting
    BY <1>7 DEF Scraping, Acquire, AcquireCancelled, VisitOk, VisitFails, ParseDone
  <2>2. w # Serve(r)
    BY <1>2, <2>1
  <2> QED BY <1>2, <1>7, <2>2 DEF Scraping, Acquire, AcquireCancelled, VisitOk, VisitFails,
     ParseDone
<1>8. CASE CleanerDeletes \/ CleanerOrClock \/ Publish \/ UNCHANGED vars
  BY <1>2, <1>8 DEF CleanerDeletes, CleanerOrClock, Publish, vars, serviceVars
<1> QED
  BY <1>3, <1>4, <1>5, <1>6, <1>7, <1>8 DEF Next, Handling


------------------------------------------------------------------------------

LEMMA InitCorrect == Init => ServiceInv
<1> SUFFICES ASSUME Init PROVE ServiceInv
  OBVIOUS
<1> USE Workers DEF Init
<1>1. TypeOK
  BY CapacityPositive, BoundsAssumption DEF TypeOK, Cache!TypeOK, Cache!Init
<1>2. SlotAccounting
  <2>1. Holders = {}
    BY DEF Holders
  <2> QED BY <2>1, FS_EmptySet, CapacityPositive DEF SlotAccounting
<1>3. Control
  BY DEF Control
<1>4. Documents
  BY DEF Documents
<1>5. Filing
  BY CacheKeyAssumption DEF Filing, Cache!Init
<1>6. GapRecorded
  BY DEF GapRecorded, InFlight
<1>7. ServedOwnFeed /\ MissIsFresh /\ InstantWhenCached
  BY DEF ServedOwnFeed, MissIsFresh, InstantWhenCached, NoResponse
<1> QED BY <1>1, <1>2, <1>3, <1>4, <1>5, <1>6, <1>7 DEF ServiceInv

\* The safety of the request path, as one inductive invariant.
THEOREM ServiceCorrect == Spec => []ServiceInv
<1>1. ServiceInv /\ [Next]_vars => ServiceInv'
  BY TypeStep, SlotStep, ControlStep, DocumentsStep, FilingStep, GapStep, AnswersStep,
     InstantStep DEF ServiceInv
<1> QED
  BY InitCorrect, <1>1, PTL DEF Spec

\* Every variable keeps its type.
THEOREM ServiceTypes == Spec => []TypeOK
<1>1. ServiceInv => TypeOK
  BY DEF ServiceInv
<1> QED BY <1>1, ServiceCorrect, PTL

\* The semaphore (acquire, release): however scrapes start, fail, get cancelled
\* and end, as many tokens are out as scrapes are under way, within the limit.
THEOREM SlotsAccounted == Spec => []SlotAccounting
<1>1. ServiceInv => SlotAccounting
  BY DEF ServiceInv
<1> QED BY <1>1, ServiceCorrect, PTL

\* getChannelFeed answers with a document of a feed that has the key of the one
\* asked for, and of that one itself if it scraped it or no other has the key.
THEOREM OwnFeedServed == Spec => []ServedOwnFeed
<1>1. ServiceInv => ServedOwnFeed
  BY DEF ServiceInv
<1> QED BY <1>1, ServiceCorrect, PTL

\* What getChannelFeed calls a MISS was scraped for this request, and with
\* cache_ttl=0 there is no other answer than that or an error.
THEOREM MissesAreFresh == Spec => []MissIsFresh
<1>1. ServiceInv => MissIsFresh
  BY DEF ServiceInv
<1> QED BY <1>1, ServiceCorrect, PTL

\* tryCache and tryStaleCache: a cached feed is served without scraping.
THEOREM CachedIsInstant == Spec => []InstantWhenCached
<1>1. ServiceInv => InstantWhenCached
  BY DEF ServiceInv
<1> QED BY <1>1, ServiceCorrect, PTL

\* tryStaleFallback: no 500 while there is a document to serve.
THEOREM DegradesGracefully == Spec => ErrorOnlyWithoutCopy
<1> DEFINE Degrades ==
      \A r \in Request :
        response'[r].label = "ERROR" /\ response[r].label # "ERROR" /\ ttl[r] > 0
          => ~ Cache!Has(buildCacheKey(r))
<1>1. ServiceInv /\ [Next]_vars => [Degrades]_vars
  <2> SUFFICES ASSUME ServiceInv, Next, NEW r \in Request,
                      response'[r].label = "ERROR", response[r].label # "ERROR", ttl[r] > 0
               PROVE  ~ Cache!Has(buildCacheKey(r))
    OBVIOUS
  <2> USE DEF ServiceInv, TypeOK, Answer
  <2>1. ASSUME NEW s \in Request, Fallback(s) PROVE ~ Cache!Has(buildCacheKey(r))
    <3>1. s = r
      BY <2>1 DEF Fallback
    <3> QED BY <2>1, <3>1 DEF Fallback, Cache!Has, Cache!Lookup
  <2>2. ASSUME NEW s \in Request,
               Arrive(s) \/ Reject(s) \/ GetRead(s) \/ GetCheck(s) \/ GetStale(s)
                 \/ StoreAndAnswer(s) \/ StoreRefreshed(s)
        PROVE  FALSE
    BY <2>2 DEF Arrive, Reject, GetRead, GetCheck, GetStale, StoreAndAnswer, StoreRefreshed
  <2>3. UNCHANGED response => FALSE
    OBVIOUS
  <2>4. ASSUME NEW w \in Worker, Scraping(w) PROVE FALSE
    BY <2>3, <2>4 DEF Scraping, Acquire, AcquireCancelled, VisitOk, VisitFails, ParseDone
  <2>5. CASE CleanerDeletes \/ CleanerOrClock \/ Publish
    BY <2>3, <2>5 DEF CleanerDeletes, CleanerOrClock, Publish, serviceVars
  <2> QED BY <2>1, <2>2, <2>4, <2>5 DEF Next, Handling
<1> QED
  BY <1>1, ServiceCorrect, PTL DEF Spec, ErrorOnlyWithoutCopy

\* refreshCache never stores a document older than the answer that started it.
THEOREM RefreshesAreFresh == Spec => RefreshIsFresh
<1> DEFINE Fresh ==
      \A r \in Request :
        pc[Refresh(r)] = "store" /\ pc'[Refresh(r)] = "done" =>
          cache'[buildCacheKey(r)].value.version >= since[Refresh(r)]
<1>1. ServiceInv /\ [Next]_vars => [Fresh]_vars
  <2> SUFFICES ASSUME ServiceInv, Next, NEW r \in Request,
                      pc[Refresh(r)] = "store", pc'[Refresh(r)] = "done"
               PROVE  cache'[buildCacheKey(r)].value.version >= since[Refresh(r)]
    OBVIOUS
  <2> USE Workers DEF ServiceInv, TypeOK, Goto
  <2>1. ASSUME NEW s \in Request, StoreRefreshed(s)
        PROVE  cache'[buildCacheKey(r)].value.version >= since[Refresh(r)]
    <3>1. s = r
      BY <2>1 DEF StoreRefreshed
    <3>2. /\ content[Refresh(r)] \in Content
          /\ content[Refresh(r)].version >= since[Refresh(r)]
      BY DEF Documents
    <3>3. buildCacheKey(r) \in Key /\ ttl[r] \in TTL /\ ttl[r] > 0
      BY CacheKeyAssumption DEF buildCacheKey, Control
    <3>4. Cache!Set(buildCacheKey(r), content[Refresh(r)], ttl[r])
      BY <2>1, <3>1 DEF StoreRefreshed
    <3>5. cache' = [cache EXCEPT ![buildCacheKey(r)] =
                      [value |-> content[Refresh(r)], expiresAt |-> now + ttl[r]]]
      BY <3>2, <3>3, <3>4, SetStores
    <3> QED BY <3>2, <3>3, <3>5 DEF Cache!TypeOK
  <2>2. ASSUME NEW s \in Request,
               Arrive(s) \/ Reject(s) \/ GetRead(s) \/ GetCheck(s) \/ GetStale(s)
                 \/ StoreAndAnswer(s) \/ Fallback(s)
        PROVE  FALSE
    BY <2>2 DEF Arrive, Reject, GetRead, GetCheck, GetStale, StoreAndAnswer, Fallback
  <2>3. UNCHANGED pc => FALSE
    OBVIOUS
  <2>4. ASSUME NEW w \in Worker, Scraping(w) PROVE FALSE
    BY <2>3, <2>4 DEF Scraping, Acquire, AcquireCancelled, VisitOk, VisitFails, ParseDone
  <2>5. CASE CleanerDeletes \/ CleanerOrClock \/ Publish
    BY <2>3, <2>5 DEF CleanerDeletes, CleanerOrClock, Publish, serviceVars
  <2> QED BY <2>1, <2>2, <2>4, <2>5 DEF Next, Handling
<1> QED
  BY <1>1, ServiceCorrect, PTL DEF Spec, RefreshIsFresh

------------------------------------------------------------------------------
(* The metrics.                                                              *)

\* n counts the elements of S.
Counted(S, n) == IsFiniteSet(S) /\ n = Cardinality(S)

CountersInv ==
  /\ Counted(Answered("HIT"), cacheHitsTotal)
  /\ Counted(Answered("STALE"), staleResponsesTotal)
  /\ Counted(Asked, cacheHitsTotal + cacheMissesTotal)
  /\ cacheMissesTotal \in Nat

LEMMA CountedNone == Counted({}, 0)
BY FS_EmptySet DEF Counted

LEMMA CountedOneMore ==
  ASSUME NEW S, NEW n, Counted(S, n), NEW x, x \notin S
  PROVE  Counted(S \cup {x}, n + 1) /\ n \in Nat
BY FS_AddElement, FS_CardinalityType DEF Counted

LEMMA CountedOneLess ==
  ASSUME NEW S, NEW n, Counted(S, n), NEW x \in S
  PROVE  Counted(S \ {x}, n - 1) /\ n \in Nat
BY FS_RemoveElement, FS_CardinalityType DEF Counted

\* The metrics change nothing of what the request path does.
LEMMA MetricsStep == [MetricsNext]_metricsVars => [Next]_vars
<1>1. ASSUME NEW r \in Request,
             MeteredArrive(r) \/ MeteredLookup(r) \/ MeteredStale(r) \/ MeteredFallback(r)
      PROVE  Next
  BY <1>1 DEF MeteredArrive, MeteredLookup, MeteredStale, MeteredFallback, Next, Handling
<1>2. ASSUME NEW x \in Worker, MeteredScrape(x) PROVE Next
  BY <1>2 DEF MeteredScrape, Next
<1>3. CASE Unmetered
  BY <1>3 DEF Unmetered, Next, Handling
<1>4. CASE UNCHANGED metricsVars
  BY <1>4 DEF metricsVars
<1> QED BY <1>1, <1>2, <1>3, <1>4 DEF MetricsNext

THEOREM OnlyWatches == MetricsSpec => Spec
<1>1. MetricsInit => Init
  BY DEF MetricsInit
<1> QED BY <1>1, MetricsStep, PTL DEF MetricsSpec, Spec

------------------------------------------------------------------------------
(* The gauge.                                                                *)

LEMMA GaugeStep ==
  ASSUME ServiceInv, GaugeBalanced, [MetricsNext]_metricsVars
  PROVE  GaugeBalanced'
<1> DEFINE Inside == {"acquire", "visit", "parse"}
<1> USE DEF ServiceInv
<1>1. ASSUME InScrape' = InScrape, activeScrapes' = activeScrapes PROVE GaugeBalanced'
  BY <1>1 DEF GaugeBalanced
<1>2. ASSUME NEW x, x \notin InScrape, InScrape' = InScrape \cup {x},
             activeScrapes' = activeScrapes + 1
      PROVE  GaugeBalanced'
  BY <1>2, CountedOneMore DEF GaugeBalanced, Counted
<1>3. ASSUME NEW x \in InScrape, InScrape' = InScrape \ {x},
             activeScrapes' = activeScrapes - 1
      PROVE  GaugeBalanced'
  BY <1>3, CountedOneLess DEF GaugeBalanced, Counted
<1>4. activeScrapes \in Nat
  BY FS_CardinalityType DEF GaugeBalanced
<1>5. ASSUME NEW x \in Worker, NEW label, pc' = [pc EXCEPT ![x] = label]
      PROVE  /\ pc[x] \notin Inside /\ label \in Inside =>
                  x \notin InScrape /\ InScrape' = InScrape \cup {x}
             /\ pc[x] \in Inside /\ label \notin Inside =>
                  x \in InScrape /\ InScrape' = InScrape \ {x}
             /\ (pc[x] \in Inside <=> label \in Inside) => InScrape' = InScrape
  BY <1>5 DEF InScrape, TypeOK
<1>6. ASSUME NEW r \in Request, MeteredArrive(r) PROVE GaugeBalanced'
  <2>1. /\ pc[Serve(r)] = "idle" /\ Serve(r) \in Worker
        /\ pc' = [pc EXCEPT ![Serve(r)] = IF ttl[r] > 0 THEN "get" ELSE "acquire"]
        /\ activeScrapes' = activeScrapes
             + (IF pc'[Serve(r)] = "acquire" THEN 1 ELSE 0) - (IF FALSE THEN 1 ELSE 0)
    BY <1>6, Workers DEF MeteredArrive, Arrive, Goto, RecordScrape
  <2>2. pc'[Serve(r)] = IF ttl[r] > 0 THEN "get" ELSE "acquire"
    BY <2>1 DEF TypeOK
  <2>3. CASE ttl[r] > 0
    <3>1. InScrape' = InScrape
      BY <2>1, <2>3, <1>5
    <3> QED BY <1>1, <1>4, <2>1, <2>2, <2>3, <3>1
  <2>4. CASE ~ (ttl[r] > 0)
    <3>1. Serve(r) \notin InScrape /\ InScrape' = InScrape \cup {Serve(r)}
      BY <2>1, <2>4, <1>5
    <3> QED BY <1>2, <1>4, <2>1, <2>2, <2>4, <3>1
  <2> QED BY <2>3, <2>4
<1>7. ASSUME NEW r \in Request, MeteredLookup(r) \/ MeteredFallback(r) PROVE GaugeBalanced'
  <2>1. PICK label \in {"stale", "check", "done"} :
          /\ pc[Serve(r)] \notin Inside /\ pc' = [pc EXCEPT ![Serve(r)] = label]
          /\ activeScrapes' = activeScrapes
    BY <1>7 DEF MeteredLookup, MeteredFallback, GetRead, GetCheck, Fallback, Goto
  <2>2. InScrape' = InScrape
    BY <2>1, <1>5, Workers
  <2> QED BY <1>1, <2>1, <2>2
<1>8. ASSUME NEW r \in Request, MeteredStale(r) PROVE GaugeBalanced'
  <2>1. pc[Serve(r)] = "stale" /\ activeScrapes' = activeScrapes + 1 /\ GetStale(r)
    BY <1>8, <1>4 DEF MeteredStale, GetStale, RecordScrape
  <2>2. CASE pc' = [pc EXCEPT ![Serve(r)] = "acquire"]
    BY <1>2, <1>5, <2>1, <2>2, Workers
  <2>3. CASE pc' = [pc EXCEPT ![Serve(r)] = "done", ![Refresh(r)] = "acquire"]
    <3>1. pc[Refresh(r)] = "idle"
      BY <2>1 DEF Control
    <3>2. Refresh(r) \notin InScrape /\ InScrape' = InScrape \cup {Refresh(r)}
      BY <2>1, <2>3, <3>1, Workers DEF InScrape, TypeOK
    <3> QED BY <1>2, <2>1, <3>2
  <2> QED BY <2>1, <2>2, <2>3 DEF GetStale, Goto
<1>9. ASSUME NEW x \in Worker, MeteredScrape(x) PROVE GaugeBalanced'
  <2>1. PICK label \in {"visit", "parse", "store", "fallback", "done"} :
          pc[x] \in Inside /\ pc' = [pc EXCEPT ![x] = label]
    BY <1>9 DEF MeteredScrape, Scraping, Acquire, AcquireCancelled, VisitOk, VisitFails,
       ParseDone, AfterFailure, Goto
  <2>2. activeScrapes' = activeScrapes - (IF label \notin {"visit", "parse"} THEN 1 ELSE 0)
    <3>1. pc'[x] = label
      BY <2>1 DEF TypeOK
    <3> QED BY <1>4, <1>9, <3>1 DEF MeteredScrape, RecordScrape
  <2>3. CASE label \in {"visit", "parse"}
    <3>1. InScrape' = InScrape
      BY <1>5, <2>1, <2>3
    <3> QED BY <1>1, <1>4, <2>2, <2>3, <3>1
  <2>4. CASE label \notin {"visit", "parse"}
    <3>1. x \in InScrape /\ InScrape' = InScrape \ {x}
      BY <1>5, <2>1, <2>4
    <3> QED BY <1>3, <1>4, <2>2, <2>4, <3>1
  <2> QED BY <2>3, <2>4
<1>10. CASE Unmetered
  <2>1. activeScrapes' = activeScrapes
    BY <1>10 DEF Unmetered
  <2>2. ASSUME NEW r \in Request, Reject(r) \/ StoreAndAnswer(r) \/ StoreRefreshed(r)
        PROVE  InScrape' = InScrape
    <3>1. PICK x \in Worker : pc[x] \notin Inside /\ pc' = [pc EXCEPT ![x] = "done"]
      BY <2>2, Workers DEF Reject, StoreAndAnswer, StoreRefreshed, Goto
    <3> QED BY <3>1, <1>5
  <2>3. ASSUME CleanerDeletes \/ CleanerOrClock \/ Publish
        PROVE  InScrape' = InScrape
    BY <2>3 DEF CleanerDeletes, CleanerOrClock, Publish, serviceVars, InScrape
  <2> QED BY <1>1, <1>10, <2>1, <2>2, <2>3 DEF Unmetered
<1>11. CASE UNCHANGED metricsVars
  BY <1>1, <1>11 DEF metricsVars, vars, serviceVars, InScrape
<1> QED
  BY <1>6, <1>7, <1>8, <1>9, <1>10, <1>11 DEF MetricsNext

\* The gauge always is the number of scrapes under way (RecordScrapeStart and
\* RecordScrapeEnd around Scrape): it never drifts.
THEOREM GaugeExact == MetricsSpec => []GaugeBalanced
<1>1. MetricsInit => GaugeBalanced
  <2>1. MetricsInit => InScrape = {}
    BY DEF MetricsInit, Init, InScrape
  <2> QED BY <2>1, FS_EmptySet DEF MetricsInit, GaugeBalanced
<1> QED
  BY <1>1, GaugeStep, OnlyWatches, ServiceCorrect, PTL DEF MetricsSpec

------------------------------------------------------------------------------
(* The counters.                                                             *)

\* A request without an answer gets one: it joins those with that label.
LEMMA AnswerJoins ==
  ASSUME ServiceInv, NEW r \in Request, pc[Serve(r)] # "done", NEW label, NEW doc,
         Answer(r, label, doc)
  PROVE  /\ response[r].label = "none"
         /\ response'[r].label = label
         /\ \A q \in Request \ {r} : response'[q] = response[q]
         /\ Answered(label)' = Answered(label) \cup {r}
         /\ \A other : other \notin {label, "none"} => Answered(other)' = Answered(other)
<1>1. response[r] = NoResponse
  BY DEF ServiceInv, Control
<1>2. /\ response[r].label = "none"
      /\ response'[r].label = label
      /\ \A q \in Request \ {r} : response'[q] = response[q]
  BY <1>1 DEF Answer, NoResponse, ServiceInv, TypeOK
<1> QED BY <1>2 DEF Answered

\* A step that leaves the lookups, the answers and the counters alone.
LEMMA CountersFrame ==
  ASSUME CountersInv, UNCHANGED counters, Answered("HIT")' = Answered("HIT"),
         Answered("STALE")' = Answered("STALE"), Asked' = Asked
  PROVE  CountersInv'
BY DEF CountersInv, counters

\* A step that only moves one goroutine, inside or outside the lookup.
LEMMA MovesOnly ==
  ASSUME ServiceInv, CountersInv, UNCHANGED <<counters, params, response>>,
         NEW x \in Worker, NEW label, pc' = [pc EXCEPT ![x] = label],
         \/ x[2] = "refresh"
         \/ pc[x] \in {"idle", "get", "check"} <=> label \in {"idle", "get", "check"}
         \/ ~ (ttl[x[1]] > 0)
  PROVE  CountersInv'
<1>1. Answered("HIT")' = Answered("HIT") /\ Answered("STALE")' = Answered("STALE")
  BY DEF Answered
<1>2. \A q \in Request : Serve(q) # x => pc'[Serve(q)] = pc[Serve(q)]
  BY Workers DEF ServiceInv, TypeOK
<1>3. ASSUME NEW q \in Request, ttl[q] > 0
      PROVE  pc'[Serve(q)] \in {"idle", "get", "check"}
               <=> pc[Serve(q)] \in {"idle", "get", "check"}
  <2>1. CASE Serve(q) # x
    BY <1>2, <2>1
  <2>2. CASE Serve(q) = x
    <3>1. x[1] = q /\ x[2] = "serve" /\ pc'[x] = label
      BY <2>2, Workers DEF ServiceInv, TypeOK
    <3> QED BY <1>3, <2>2, <3>1
  <2> QED BY <2>1, <2>2
<1>4. Asked' = Asked
  BY <1>3 DEF Asked, params
<1> QED BY <1>1, <1>4, CountersFrame

\* A request that is looking its feed up is one that asked for caching.
LEMMA AsksCached ==
  ASSUME ServiceInv, NEW r \in Request, pc[Serve(r)] \in {"get", "check", "stale"}
  PROVE  ttl[r] > 0
<1>1. ttl[r] \in Int
  BY RequestTTLAssumption DEF ServiceInv, TypeOK
<1>2. ~ (ttl[r] =< 0)
  BY DEF ServiceInv, Control
<1> QED BY <1>1, <1>2

\* A lookup is over: its request is counted among those that asked.
LEMMA LookupOver ==
  ASSUME ServiceInv, NEW r \in Request, pc[Serve(r)] \in {"get", "check"},
         NEW label \in {"stale", "done"}, pc' = [pc EXCEPT ![Serve(r)] = label],
         UNCHANGED params, response'[r].label # "BADREQUEST",
         \A q \in Request \ {r} : response'[q] = response[q]
  PROVE  r \notin Asked /\ Asked' = Asked \cup {r}
<1>1. ttl[r] > 0 /\ ttl' = ttl
  BY AsksCached DEF params
<1>2. pc'[Serve(r)] = label /\ \A q \in Request \ {r} : pc'[Serve(q)] = pc[Serve(q)]
  BY Workers DEF ServiceInv, TypeOK, Serve
<1> QED BY <1>1, <1>2 DEF Asked

LEMMA LookupStep ==
  ASSUME ServiceInv, CountersInv, NEW r \in Request, MeteredLookup(r)
  PROVE  CountersInv'
<1> USE DEF ServiceInv
<1>1. /\ cacheHitsTotal' = IF pc'[Serve(r)] = "done" THEN cacheHitsTotal + 1
                                                    ELSE cacheHitsTotal
      /\ cacheMissesTotal' = IF pc'[Serve(r)] = "stale" THEN cacheMissesTotal + 1
                                                       ELSE cacheMissesTotal
      /\ staleResponsesTotal' = staleResponsesTotal
      /\ UNCHANGED params
  BY DEF MeteredLookup, RecordLookup, GetRead, GetCheck
<1>2. cacheHitsTotal \in Nat /\ cacheMissesTotal \in Nat
  BY FS_CardinalityType DEF CountersInv, Counted
<1>3. ASSUME pc[Serve(r)] \in {"get", "check"}, pc' = [pc EXCEPT ![Serve(r)] = "stale"],
             UNCHANGED response
      PROVE  CountersInv'
  <2>1. pc'[Serve(r)] = "stale"
    BY <1>3, Workers DEF TypeOK
  <2>2. response[r].label = "none"
    BY <1>3 DEF Control, NoResponse
  <2>3. r \notin Asked /\ Asked' = Asked \cup {r}
    BY <1>1, <1>3, <2>2, LookupOver
  <2>4. Counted(Asked', cacheHitsTotal + cacheMissesTotal + 1)
    BY <2>3, CountedOneMore DEF CountersInv
  <2>5. /\ cacheHitsTotal' = cacheHitsTotal /\ cacheMissesTotal' = cacheMissesTotal + 1
        /\ cacheHitsTotal' + cacheMissesTotal' = cacheHitsTotal + cacheMissesTotal + 1
    BY <1>1, <1>2, <2>1
  <2>6. Answered("HIT")' = Answered("HIT") /\ Answered("STALE")' = Answered("STALE")
    BY <1>3 DEF Answered
  <2> QED BY <1>1, <1>2, <2>4, <2>5, <2>6 DEF CountersInv
<1>4. ASSUME pc[Serve(r)] = "check", pc' = [pc EXCEPT ![Serve(r)] = "done"],
             NEW doc, Answer(r, "HIT", doc)
      PROVE  CountersInv'
  <2>1. pc'[Serve(r)] = "done"
    BY <1>4, Workers DEF TypeOK
  <2>2. /\ response[r].label = "none" /\ response'[r].label = "HIT"
        /\ \A q \in Request \ {r} : response'[q] = response[q]
        /\ Answered("HIT")' = Answered("HIT") \cup {r}
        /\ Answered("STALE")' = Answered("STALE")
    BY <1>4, AnswerJoins
  <2>3. r \notin Answered("HIT")
    BY <2>2 DEF Answered
  <2>4. r \notin Asked /\ Asked' = Asked \cup {r}
    BY <1>1, <1>4, <2>2, LookupOver
  <2>5. /\ Counted(Asked', cacheHitsTotal + cacheMissesTotal + 1)
        /\ Counted(Answered("HIT")', cacheHitsTotal + 1)
    BY <2>2, <2>3, <2>4, CountedOneMore DEF CountersInv
  <2>6. /\ cacheHitsTotal' = cacheHitsTotal + 1 /\ cacheMissesTotal' = cacheMissesTotal
        /\ cacheHitsTotal' + cacheMissesTotal' = cacheHitsTotal + cacheMissesTotal + 1
    BY <1>1, <1>2, <2>1
  <2> QED BY <1>1, <2>2, <2>5, <2>6 DEF CountersInv
<1>5. ASSUME pc' = [pc EXCEPT ![Serve(r)] = "check"], pc[Serve(r)] = "get",
             UNCHANGED response
      PROVE  CountersInv'
  <2>1. pc'[Serve(r)] = "check"
    BY <1>5, Workers DEF TypeOK
  <2>2. UNCHANGED counters
    BY <1>1, <2>1 DEF counters
  <2> QED BY <1>1, <1>5, <2>2, Workers, MovesOnly
<1> QED
  BY <1>3, <1>4, <1>5 DEF MeteredLookup, GetRead, GetCheck, Goto

\* An answer after the lookup: whether its request asked the cache does not
\* change any more.
LEMMA AnswerCounts ==
  ASSUME ServiceInv, CountersInv, NEW r \in Request,
         pc[Serve(r)] \in {"stale", "store", "fallback"},
         NEW label \in {"MISS", "STALE", "ERROR"}, NEW doc, Answer(r, label, doc),
         UNCHANGED params, pc'[Serve(r)] = "done",
         \A q \in Request \ {r} : pc'[Serve(q)] = pc[Serve(q)],
         UNCHANGED <<cacheHitsTotal, cacheMissesTotal>>,
         staleResponsesTotal' =
           IF label = "STALE" THEN staleResponsesTotal + 1 ELSE staleResponsesTotal
  PROVE  CountersInv'
<1>1. /\ response[r].label = "none" /\ response'[r].label = label
      /\ \A q \in Request \ {r} : response'[q] = response[q]
      /\ Answered(label)' = Answered(label) \cup {r}
      /\ \A other : other \notin {label, "none"} => Answered(other)' = Answered(other)
  BY AnswerJoins
<1>2. Asked' = Asked
  BY <1>1 DEF Asked, params
<1>3. Answered("HIT")' = Answered("HIT")
  BY <1>1
<1>4. Counted(Answered("STALE")', staleResponsesTotal')
  <2>1. CASE label = "STALE"
    <3>1. r \notin Answered("STALE")
      BY <1>1 DEF Answered
    <3> QED BY <1>1, <2>1, <3>1, CountedOneMore DEF CountersInv
  <2>2. CASE label # "STALE"
    BY <1>1, <2>2 DEF CountersInv
  <2> QED BY <2>1, <2>2
<1> QED BY <1>2, <1>3, <1>4 DEF CountersInv

LEMMA StaleStep ==
  ASSUME ServiceInv, CountersInv, NEW r \in Request, MeteredStale(r)
  PROVE  CountersInv'
<1> USE DEF ServiceInv
<1> DEFINE found == Cache!Lookup(buildCacheKey(r))
<1>1. /\ pc[Serve(r)] = "stale" /\ UNCHANGED <<params, cacheHitsTotal, cacheMissesTotal>>
      /\ staleResponsesTotal' = IF response'[r].label = "STALE" THEN staleResponsesTotal + 1
                                                                 ELSE staleResponsesTotal
      /\ \/ /\ pc' = [pc EXCEPT ![Serve(r)] = "acquire"]
            /\ UNCHANGED response
         \/ /\ pc' = [pc EXCEPT ![Serve(r)] = "done", ![Refresh(r)] = "acquire"]
            /\ Answer(r, "STALE", found.value)
  BY DEF MeteredStale, GetStale, RecordStaleResponse, Goto
<1>2. CASE pc' = [pc EXCEPT ![Serve(r)] = "acquire"] /\ UNCHANGED response
  <2>1. response'[r].label # "STALE"
    BY <1>1, <1>2 DEF Control, NoResponse
  <2>2. UNCHANGED counters
    BY <1>1, <2>1 DEF counters
  <2> QED BY <1>1, <1>2, <2>2, Workers, MovesOnly
<1>3. CASE /\ pc' = [pc EXCEPT ![Serve(r)] = "done", ![Refresh(r)] = "acquire"]
           /\ Answer(r, "STALE", found.value)
  <2>1. /\ pc'[Serve(r)] = "done"
        /\ \A q \in Request \ {r} : pc'[Serve(q)] = pc[Serve(q)]
    BY <1>3, Workers DEF TypeOK, Serve, Refresh
  <2>2. response'[r].label = "STALE"
    BY <1>1, <1>3, AnswerJoins
  <2> QED BY <1>1, <1>3, <2>1, <2>2, AnswerCounts
<1> QED BY <1>1, <1>2, <1>3

\* The answer that ends a handler after its scrape.
LEMMA LastAnswerStep ==
  ASSUME ServiceInv, CountersInv, NEW r \in Request,
         MeteredFallback(r) \/ (StoreAndAnswer(r) /\ UNCHANGED counters)
  PROVE  CountersInv'
<1> USE DEF ServiceInv
<1>1. PICK label \in {"MISS", "STALE", "ERROR"}, doc \in {response'[r].content} :
        /\ pc[Serve(r)] \in {"store", "fallback"} /\ Answer(r, label, doc)
        /\ pc' = [pc EXCEPT ![Serve(r)] = "done"]
        /\ UNCHANGED <<params, cacheHitsTotal, cacheMissesTotal>>
        /\ StoreAndAnswer(r) => label = "MISS"
  <2>1. CASE MeteredFallback(r)
    <3>1. PICK label \in {"STALE", "ERROR"} : \E doc : Answer(r, label, doc)
      BY <2>1 DEF MeteredFallback, Fallback
    <3>2. PICK doc : Answer(r, label, doc)
      BY <3>1
    <3>3. response'[r].content = doc
      BY <3>2 DEF Answer, TypeOK
    <3>4. /\ pc[Serve(r)] = "fallback" /\ pc' = [pc EXCEPT ![Serve(r)] = "done"]
          /\ UNCHANGED <<params, cacheHitsTotal, cacheMissesTotal>>
      BY <2>1 DEF MeteredFallback, Fallback, RecordStaleResponse, Goto
    <3>5. ~ StoreAndAnswer(r)
      BY <3>4 DEF StoreAndAnswer
    <3> QED BY <3>1, <3>2, <3>3, <3>4, <3>5
  <2>2. CASE StoreAndAnswer(r) /\ UNCHANGED counters
    <3>1. Answer(r, "MISS", content[Serve(r)])
      BY <2>2 DEF StoreAndAnswer
    <3>2. response'[r].content = content[Serve(r)]
      BY <3>1 DEF Answer, TypeOK
    <3>3. /\ pc[Serve(r)] = "store" /\ pc' = [pc EXCEPT ![Serve(r)] = "done"]
          /\ UNCHANGED <<params, cacheHitsTotal, cacheMissesTotal>>
      BY <2>2 DEF StoreAndAnswer, Goto, counters
    <3> QED BY <3>1, <3>2, <3>3
  <2> QED BY <2>1, <2>2
<1>2. response'[r].label = label
  BY <1>1, AnswerJoins
<1>3. staleResponsesTotal' =
        IF label = "STALE" THEN staleResponsesTotal + 1 ELSE staleResponsesTotal
  BY <1>1, <1>2 DEF MeteredFallback, RecordStaleResponse, counters
<1>4. /\ pc'[Serve(r)] = "done"
      /\ \A q \in Request \ {r} : pc'[Serve(q)] = pc[Serve(q)]
  BY <1>1, Workers DEF TypeOK, Serve
<1> QED BY <1>1, <1>3, <1>4, AnswerCounts

LEMMA RejectStep ==
  ASSUME ServiceInv, CountersInv, NEW r \in Request, Reject(r), UNCHANGED counters
  PROVE  CountersInv'
<1>1. /\ pc[Serve(r)] = "idle" /\ Answer(r, "BADREQUEST", NoContent) /\ UNCHANGED params
      /\ pc' = [pc EXCEPT ![Serve(r)] = "done"]
  BY DEF Reject, Goto
<1>2. /\ response'[r].label = "BADREQUEST"
      /\ \A q \in Request \ {r} : response'[q] = response[q]
      /\ \A other : other \notin {"BADREQUEST", "none"} => Answered(other)' = Answered(other)
  BY <1>1, AnswerJoins
<1>3. \A q \in Request \ {r} : pc'[Serve(q)] = pc[Serve(q)]
  BY <1>1, Workers DEF Serve, ServiceInv, TypeOK
<1>4. Asked' = Asked
  BY <1>1, <1>2, <1>3 DEF Asked, params
<1> QED BY <1>2, <1>4, CountersFrame

LEMMA CountersStep ==
  ASSUME ServiceInv, CountersInv, [MetricsNext]_metricsVars
  PROVE  CountersInv'
<1>1. ASSUME NEW r \in Request, MeteredArrive(r) PROVE CountersInv'
  <2>1. /\ UNCHANGED <<counters, params, response>> /\ pc[Serve(r)] = "idle"
        /\ pc' = [pc EXCEPT ![Serve(r)] = IF ttl[r] > 0 THEN "get" ELSE "acquire"]
    BY <1>1 DEF MeteredArrive, Arrive, Goto
  <2>2. Serve(r) \in Worker /\ Serve(r)[1] = r
    BY Workers
  <2>3. CASE ttl[r] > 0
    BY <2>1, <2>2, <2>3, MovesOnly
  <2>4. CASE ~ (ttl[r] > 0)
    BY <2>1, <2>2, <2>4, MovesOnly
  <2> QED BY <2>3, <2>4
<1>2. ASSUME NEW x \in Worker, MeteredScrape(x) PROVE CountersInv'
  <2>1. PICK label \in {"visit", "parse", "store", "fallback", "done"} :
          /\ pc[x] \in {"acquire", "visit", "parse"} /\ pc' = [pc EXCEPT ![x] = label]
          /\ UNCHANGED <<counters, params, response>>
    BY <1>2 DEF MeteredScrape, Scraping, Acquire, AcquireCancelled, VisitOk, VisitFails,
       ParseDone, AfterFailure, Goto
  <2> QED BY <2>1, MovesOnly
<1>3. ASSUME NEW r \in Request, StoreRefreshed(r), UNCHANGED counters PROVE CountersInv'
  <2>1. /\ UNCHANGED <<counters, params, response>>
        /\ pc' = [pc EXCEPT ![Refresh(r)] = "done"]
    BY <1>3 DEF StoreRefreshed, Goto
  <2> QED BY <2>1, Workers, MovesOnly
<1>4. ASSUME CleanerDeletes \/ CleanerOrClock \/ Publish \/ UNCHANGED vars,
             UNCHANGED counters
      PROVE  CountersInv'
  <2>1. UNCHANGED <<pc, params, response>>
    BY <1>4 DEF CleanerDeletes, CleanerOrClock, Publish, vars, serviceVars
  <2>2. /\ Answered("HIT")' = Answered("HIT") /\ Answered("STALE")' = Answered("STALE")
        /\ Asked' = Asked
    BY <2>1 DEF Answered, Asked, params
  <2> QED BY <1>4, <2>2, CountersFrame
<1>5. CASE Unmetered
  BY <1>3, <1>4, <1>5, RejectStep, LastAnswerStep DEF Unmetered
<1>6. CASE UNCHANGED metricsVars
  BY <1>4, <1>6 DEF metricsVars
<1> QED
  BY <1>1, <1>2, <1>5, <1>6, LookupStep, StaleStep, LastAnswerStep DEF MetricsNext

\* The counters are what clients were answered: every HIT, every STALE, and one
\* hit or miss for each request that asked the cache (tryCache, tryStaleCache,
\* tryStaleFallback).
THEOREM CountersExact == MetricsSpec => []CountersAgree
<1>1. MetricsInit => CountersInv
  <2>1. MetricsInit => Answered("HIT") = {} /\ Answered("STALE") = {} /\ Asked = {}
    <3> SUFFICES ASSUME Init
                 PROVE  \A r \in Request : /\ response[r].label = "none"
                                          /\ pc[Serve(r)] = "idle"
      BY DEF MetricsInit, Answered, Asked
    <3> QED BY Workers DEF Init, NoResponse
  <2> QED BY <2>1, CountedNone DEF MetricsInit, CountersInv
<1>2. CountersInv => CountersAgree
  BY DEF CountersInv, Counted, CountersAgree
<1> QED
  BY <1>1, <1>2, CountersStep, OnlyWatches, ServiceCorrect, PTL DEF MetricsSpec

==============================================================================
