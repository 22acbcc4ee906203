------------------------------ MODULE FeedService ------------------------------
(***************************************************************************)
(* The request path of tg2rss: getChannelFeed and its background refresh   *)
(* (internal/api/rest/telegram.go), the scraper with its semaphore         *)
(* (internal/feed/scraper.go), and the in-memory cache they share, with    *)
(* its cleaner, as specified in MemoryCache.                               *)
(*                                                                         *)
(* Every request has two potential goroutines: the handler ("serve") and   *)
(* the refresh that the handler starts when it answers from an expired     *)
(* entry ("refresh").  An action is what a goroutine does between two      *)
(* points where others can interfere: a critical section of the cache, a   *)
(* semaphore operation, the answer of Telegram.                            *)
(*                                                                         *)
(* A document is the feed it belongs to and the version of the channel it  *)
(* was made from; a response is its X-CACHE-STATUS and the document the    *)
(* client ends up with (the body of a 200, its own copy after a 304).      *)
(***************************************************************************)
EXTENDS Integers, FiniteSets

CONSTANTS
  Request,       \* requests; each arrives at most once
  Feed,          \* feeds: channel, format and exclusions of a request
  Key,           \* cache keys
  CacheKeyOf,    \* the cache key of each feed
  TTL,           \* cache lifetimes requests ask for, in clock units
  StaleBuffer,   \* how long the cache keeps an expired entry
  NoItem,        \* stands for a key that is not cached
  MaxConcurrent, \* MAX_CONCURRENT_SCRAPES
  NoContent,     \* stands for "no document"
  MaxTime,       \* bound on the clock
  MaxVersion     \* bound on what the channels publish

Content == [feed : Feed, version : 0..MaxVersion]
Item    == [value : Content, expiresAt : Int]

ASSUME RequestTTLAssumption    == TTL \subseteq Int
ASSUME BufferAssumption        == StaleBuffer \in Nat
ASSUME MaxConcurrentAssumption == MaxConcurrent \in Int
ASSUME BoundsAssumption        == MaxTime \in Nat /\ MaxVersion \in Nat
ASSUME MissingAssumption       == NoItem \notin Item /\ NoContent \notin Content

\* Feeds may share a key: buildCacheKey joins its fields with colons, and any
\* segment of a path is taken for a username (KeyDetermines in FeedContents says
\* which feeds do not share one).
ASSUME CacheKeyAssumption == CacheKeyOf \in [Feed -> Key]

VARIABLES
  cache, now, sweep, sweepAt, doomed, rewritten, life, \* see MemoryCache
  pc,        \* where each goroutine is
  feed,      \* what each request asks for
  ttl,       \* the lifetime it asks for
  item,      \* what Get read for it
  content,   \* what each goroutine has scraped
  slots,     \* tokens in the semaphore's channel
  upstream,  \* version of the channels on Telegram
  response,  \* what each request was answered with
  since,     \* upstream when each goroutine started (history)
  gap        \* requests whose entry was absent at some instant (history)

cacheVars   == <<cache, now, sweep, sweepAt, doomed, rewritten, life>>
params      == <<feed, ttl>>
serviceVars == <<pc, params, item, content, slots, upstream, response, since, gap>>
vars        == <<cacheVars, serviceVars>>

Cache == INSTANCE MemoryCache WITH Value <- Content

Worker == Request \X {"serve", "refresh"}

Serve(r)   == <<r, "serve">>
Refresh(r) == <<r, "refresh">>

Label == {"HIT", "MISS", "STALE", "ERROR", "BADREQUEST"}

Response == [label : Label, content : Content \cup {NoContent}]

NoResponse == [label |-> "none", content |-> NoContent]

\* NewScraper falls back to three slots.
Capacity == IF MaxConcurrent =< 0 THEN 3 ELSE MaxConcurrent

buildCacheKeyConstant(r) == CacheKeyOf[CHOOSE f \in Feed : TRUE]
buildCacheKey(r)         == CacheKeyOf[feed[r]]

TypeOK ==
  /\ Cache!TypeOK
  /\ pc \in [Worker -> {"idle", "get", "check", "stale", "acquire", "visit",
                        "parse", "store", "fallback", "done"}]
  /\ feed \in [Request -> Feed]
  /\ ttl \in [Request -> TTL]
  /\ item \in [Request -> Item \cup {NoItem}]
  /\ content \in [Worker -> Content \cup {NoContent}]
  /\ slots \in 0..Capacity
  /\ upstream \in 0..MaxVersion
  /\ response \in [Request -> Response \cup {NoResponse}]
  /\ since \in [Worker -> 0..MaxVersion]
  /\ gap \subseteq Request

Init ==
  /\ Cache!Init
  /\ pc = [w \in Worker |-> "idle"]
  /\ feed \in [Request -> Feed]
  /\ ttl \in [Request -> TTL]
  /\ item = [r \in Request |-> NoItem]
  /\ content = [w \in Worker |-> NoContent]
  /\ slots = 0
  /\ upstream = 0
  /\ response = [r \in Request |-> NoResponse]
  /\ since = [w \in Worker |-> 0]
  /\ gap = {}

Goto(w, label) == pc' = [pc EXCEPT ![w] = label]

Answer(r, label, doc) ==
  response' = [response EXCEPT ![r] = [label |-> label, content |-> doc]]

------------------------------------------------------------------------------
(* The handler, up to the scrape.                                            *)

ArriveZeroCached(r) ==
  /\ pc[Serve(r)] = "idle"
  /\ Goto(Serve(r), IF ttl[r] >= 0 THEN "get" ELSE "acquire")
  /\ since' = [since EXCEPT ![Serve(r)] = upstream]
  /\ gap' = IF Cache!Has(buildCacheKey(r)) THEN gap ELSE gap \cup {r}
  /\ UNCHANGED <<cacheVars, params, item, content, slots, upstream, response>>

\* Parameters are valid; caching is skipped unless the lifetime is positive.
Arrive(r) ==
  /\ pc[Serve(r)] = "idle"
  /\ Goto(Serve(r), IF ttl[r] > 0 THEN "get" ELSE "acquire")
  /\ since' = [since EXCEPT ![Serve(r)] = upstream]
  /\ gap' = IF Cache!Has(buildCacheKey(r)) THEN gap ELSE gap \cup {r}
  /\ UNCHANGED <<cacheVars, params, item, content, slots, upstream, response>>

\* NewFeedParamFromRequest fails.
Reject(r) ==
  /\ pc[Serve(r)] = "idle"
  /\ Goto(Serve(r), "done")
  /\ Answer(r, "BADREQUEST", NoContent)
  /\ UNCHANGED <<cacheVars, params, item, content, slots, upstream, since, gap>>

\* Get, under the read lock.
GetRead(r) ==
  LET found == Cache!Lookup(buildCacheKey(r)) IN
    /\ pc[Serve(r)] = "get"
    /\ item' = [item EXCEPT ![r] = found]
    /\ Goto(Serve(r), IF found = NoItem THEN "stale" ELSE "check")
    /\ UNCHANGED <<cacheVars, params, content, slots, upstream, response, since, gap>>

GetCheckEvicting(r) ==
  /\ pc[Serve(r)] = "check"
  /\ \/ /\ Cache!Expired(item[r], now)
        /\ Goto(Serve(r), "stale")
        /\ cache' = [cache EXCEPT ![buildCacheKey(r)] = NoItem]
        /\ UNCHANGED response
     \/ /\ ~ Cache!Expired(item[r], now)
        /\ Goto(Serve(r), "done")
        /\ Answer(r, "HIT", item[r].value)
        /\ UNCHANGED cache
  /\ item' = [item EXCEPT ![r] = NoItem]
  /\ UNCHANGED <<now, sweep, sweepAt, doomed, rewritten, life, params, content, slots,
                 upstream, since, gap>>

\* Get, after the lock is released: the expiry test on the copy it read.
GetCheck(r) ==
  /\ pc[Serve(r)] = "check"
  /\ \/ /\ Cache!Expired(item[r], now)
        /\ Goto(Serve(r), "stale")
        /\ UNCHANGED response
     \/ /\ ~ Cache!Expired(item[r], now)
        /\ Goto(Serve(r), "done")
        /\ Answer(r, "HIT", item[r].value)
  /\ item' = [item EXCEPT ![r] = NoItem]
  /\ UNCHANGED <<cacheVars, params, content, slots, upstream, since, gap>>

GetStaleNarrow(r) ==
  LET found == Cache!Lookup(buildCacheKey(r)) IN
    /\ pc[Serve(r)] = "stale"
    /\ IF found = NoItem \/ Cache!LongExpired(found, now)
         THEN /\ Goto(Serve(r), "acquire")
              /\ UNCHANGED <<response, since>>
         ELSE /\ pc' = [pc EXCEPT ![Serve(r)] = "done", ![Refresh(r)] = "acquire"]
              /\ Answer(r, "STALE", found.value)
              /\ since' = [since EXCEPT ![Refresh(r)] = upstream]
    /\ UNCHANGED <<cacheVars, params, item, content, slots, upstream, gap>>

\* tryStaleCache: answer with whatever the cache holds by now and start the
\* refresh, or go on to the scrape.
GetStale(r) ==
  LET found == Cache!Lookup(buildCacheKey(r)) IN
    /\ pc[Serve(r)] = "stale"
    /\ \/ /\ found = NoItem
          /\ Goto(Serve(r), "acquire")
          /\ UNCHANGED <<response, since>>
       \/ /\ found # NoItem
          /\ pc' = [pc EXCEPT ![Serve(r)] = "done", ![Refresh(r)] = "acquire"]
          /\ Answer(r, "STALE", found.value)
          /\ since' = [since EXCEPT ![Refresh(r)] = upstream]
    /\ UNCHANGED <<cacheVars, params, item, content, slots, upstream, gap>>

------------------------------------------------------------------------------
(* scrapeAndGenerate, in either goroutine.                                   *)

\* Where a failed scrape leads: the handler looks for a stale document, the
\* refresh only logs.
AfterFailure(w) == IF w[2] = "serve" THEN "fallback" ELSE "done"

AcquireUnbounded(w) ==
  /\ pc[w] = "acquire"
  /\ slots =< Capacity
  /\ slots' = slots + 1
  /\ Goto(w, "visit")
  /\ UNCHANGED <<cacheVars, params, item, content, upstream, response, since, gap>>

\* The send on the semaphore's channel.
Acquire(w) ==
  /\ pc[w] = "acquire"
  /\ slots < Capacity
  /\ slots' = slots + 1
  /\ Goto(w, "visit")
  /\ UNCHANGED <<cacheVars, params, item, content, upstream, response, since, gap>>

\* The context ends first: the client left, the server is shutting down, or
\* the sixty seconds of a refresh are over.  No slot is taken.
AcquireCancelled(w) ==
  /\ pc[w] = "acquire"
  /\ Goto(w, AfterFailure(w))
  /\ UNCHANGED <<cacheVars, params, item, content, slots, upstream, response, since, gap>>

\* Telegram answers with the channel as it is now.
VisitOk(w) ==
  /\ pc[w] = "visit"
  /\ content' = [content EXCEPT ![w] = [feed |-> feed[w[1]], version |-> upstream]]
  /\ Goto(w, "parse")
  /\ UNCHANGED <<cacheVars, params, item, slots, upstream, response, since, gap>>

VisitFailsLeaking(w) ==
  /\ pc[w] = "visit"
  /\ Goto(w, AfterFailure(w))
  /\ UNCHANGED <<cacheVars, params, item, content, slots, upstream, response, since, gap>>

\* A network error, a bad status, a timeout, or the context ends; the deferred
\* release gives the slot back.
VisitFails(w) ==
  /\ pc[w] = "visit"
  /\ slots' = slots - 1
  /\ Goto(w, AfterFailure(w))
  /\ UNCHANGED <<cacheVars, params, item, content, upstream, response, since, gap>>

ParseDoneKeeping(w) ==
  /\ pc[w] = "parse"
  /\ slots' = slots - 1
  /\ Goto(w, "store") \/ Goto(w, AfterFailure(w))
  /\ UNCHANGED <<cacheVars, params, item, content, upstream, response, since, gap>>

\* The posts are extracted (with a request per image, which no context
\* cancels), the slot is released, and Generate succeeds or not.
ParseDone(w) ==
  /\ pc[w] = "parse"
  /\ slots' = slots - 1
  /\ \/ /\ Goto(w, "store")
        /\ UNCHANGED content
     \/ /\ Goto(w, AfterFailure(w))
        /\ content' = [content EXCEPT ![w] = NoContent]
  /\ UNCHANGED <<cacheVars, params, item, upstream, response, since, gap>>

------------------------------------------------------------------------------
(* What follows the scrape.                                                  *)

\* cacheContent, then the answer.
StoreAndAnswer(r) ==
  /\ pc[Serve(r)] = "store"
  /\ \/ ttl[r] > 0 /\ Cache!Set(buildCacheKey(r), content[Serve(r)], ttl[r])
     \/ ttl[r] =< 0 /\ UNCHANGED cacheVars
  /\ Answer(r, "MISS", content[Serve(r)])
  /\ content' = [content EXCEPT ![Serve(r)] = NoContent]
  /\ Goto(Serve(r), "done")
  /\ UNCHANGED <<params, item, slots, upstream, since, gap>>

StoreRefreshedTouch(r) ==
  LET held == Cache!Lookup(buildCacheKey(r)) IN
    /\ pc[Refresh(r)] = "store"
    /\ Cache!Set(buildCacheKey(r),
                 IF held = NoItem THEN content[Refresh(r)] ELSE held.value, ttl[r])
    /\ content' = [content EXCEPT ![Refresh(r)] = NoContent]
    /\ Goto(Refresh(r), "done")
    /\ UNCHANGED <<params, item, slots, upstream, response, since, gap>>

\* The end of refreshCache.
StoreRefreshed(r) ==
  /\ pc[Refresh(r)] = "store"
  /\ Cache!Set(buildCacheKey(r), content[Refresh(r)], ttl[r])
  /\ content' = [content EXCEPT ![Refresh(r)] = NoContent]
  /\ Goto(Refresh(r), "done")
  /\ UNCHANGED <<params, item, slots, upstream, response, since, gap>>

FallbackNever(r) ==
  /\ pc[Serve(r)] = "fallback"
  /\ Answer(r, "ERROR", NoContent)
  /\ Goto(Serve(r), "done")
  /\ UNCHANGED <<cacheVars, params, item, content, slots, upstream, since, gap>>

\* tryStaleFallback, else a 500.
Fallback(r) ==
  LET found == Cache!Lookup(buildCacheKey(r)) IN
    /\ pc[Serve(r)] = "fallback"
    /\ IF ttl[r] > 0 /\ found # NoItem
         THEN Answer(r, "STALE", found.value)
         ELSE Answer(r, "ERROR", NoContent)
    /\ Goto(Serve(r), "done")
    /\ UNCHANGED <<cacheVars, params, item, content, slots, upstream, since, gap>>

------------------------------------------------------------------------------
(* The rest of the world.                                                    *)

InFlight == {r \in Request : pc[Serve(r)] \notin {"idle", "done"}}

\* The cleaner deletes; requests in flight may lose their entry.
CleanerDeletes ==
  /\ Cache!Delete
  /\ gap' = gap \cup {r \in InFlight : buildCacheKey(r) \in doomed}
  /\ UNCHANGED <<pc, params, item, content, slots, upstream, response, since>>

CleanerOrClock ==
  /\ Cache!StartCleanup \/ Cache!Scan \/ Cache!Tick
  /\ UNCHANGED serviceVars

Publish ==
  /\ upstream < MaxVersion
  /\ upstream' = upstream + 1
  /\ UNCHANGED <<cacheVars, pc, params, item, content, slots, response, since, gap>>

------------------------------------------------------------------------------

Scraping(w) == Acquire(w) \/ AcquireCancelled(w) \/ VisitOk(w) \/ VisitFails(w) \/ ParseDone(w)

Handling(r) ==
  \/ GetRead(r) \/ GetCheck(r) \/ GetStale(r)
  \/ StoreAndAnswer(r) \/ StoreRefreshed(r) \/ Fallback(r)

Next ==
  \/ \E r \in Request : Arrive(r) \/ Reject(r) \/ Handling(r)
  \/ \E w \in Worker : Scraping(w)
  \/ CleanerDeletes
  \/ CleanerOrClock
  \/ Publish

Spec == Init /\ [][Next]_vars

\* Goroutines run; Telegram and the image hosts answer or time out; a sender
\* waiting on a Go channel is served in order, so it is not overtaken for
\* ever; the context of a refresh ends after a minute.  The context of a
\* request need not end: nothing is assumed about clients.
Fairness ==
  /\ \A r \in Request : WF_vars(Handling(r))
  /\ \A w \in Worker : WF_vars(VisitOk(w) \/ VisitFails(w) \/ ParseDone(w))
  /\ \A w \in Worker : SF_vars(Acquire(w))
  /\ \A r \in Request : WF_vars(AcquireCancelled(Refresh(r)))

FairSpec == Spec /\ Fairness

------------------------------------------------------------------------------
(* Properties.                                                               *)

Holders == {w \in Worker : pc[w] \in {"visit", "parse"}}

\* The semaphore counts exactly the scrapes that hold it, on every path out of
\* Scrape, and there are never more of them than configured.
SlotAccounting ==
  /\ IsFiniteSet(Holders)
  /\ slots = Cardinality(Holders)
  /\ Cardinality(Holders) =< Capacity

\* Whatever way a document reaches a client - scraped, cached by this request,
\* by another one or by a refresh - it is the document of the feed asked for, or
\* of one with the same key; and if the handler scraped it, of no other.
ServedOwnFeed ==
  \A r \in Request :
    response[r].content # NoContent =>
      /\ CacheKeyOf[response[r].content.feed] = CacheKeyOf[feed[r]]
      /\ response[r].label = "MISS" => response[r].content.feed = feed[r]

\* A MISS carries the channel as it was after the request arrived, and a
\* request that turns caching off (cache_ttl=0) gets that or an error.
MissIsFresh ==
  \A r \in Request :
    /\ response[r].label = "MISS" => response[r].content.version >= since[Serve(r)]
    /\ ttl[r] =< 0 => response[r].label \notin {"HIT", "STALE"}

\* A request whose feed stays cached throughout is answered from the cache: it
\* never waits for a scrape, let alone for a failing one.
InstantWhenCached ==
  \A r \in Request :
    ttl[r] > 0 /\ r \notin gap =>
      /\ pc[Serve(r)] \notin {"acquire", "visit", "parse", "store", "fallback"}
      /\ response[r].label \notin {"MISS", "ERROR"}

\* Graceful degradation: a request with caching on is answered with an error
\* only while the cache in memory holds nothing at all for its feed.
ErrorOnlyWithoutCopy ==
  [][\A r \in Request :
       response'[r].label = "ERROR" /\ response[r].label # "ERROR" /\ ttl[r] > 0
         => ~ Cache!Has(buildCacheKey(r))]_vars

\* A refresh never replaces a document by one that was already out of date
\* when the STALE answer that started it was given: a slow refresh can undo
\* a newer one, but not go back before its own start.
RefreshIsFresh ==
  [][\A r \in Request :
       pc[Refresh(r)] = "store" /\ pc'[Refresh(r)] = "done" =>
         cache'[buildCacheKey(r)].value.version >= since[Refresh(r)]]_vars

\* What the properties above rest on: where each goroutine can be, ...
Control ==
  \A r \in Request :
    /\ ttl[r] =< 0 => pc[Serve(r)] \notin {"get", "check", "stale"}
    /\ pc[Refresh(r)] \notin {"get", "check", "stale", "fallback"}
    /\ pc[Refresh(r)] # "idle" => ttl[r] > 0 /\ pc[Serve(r)] = "done"
    /\ response[r] # NoResponse => pc[Serve(r)] = "done"

\* ... what it carries, ...
Documents ==
  /\ \A w \in Worker :
       IF pc[w] \in {"parse", "store"}
         THEN /\ content[w] \in Content
              /\ content[w].feed = feed[w[1]]
              /\ content[w].version >= since[w]
         ELSE content[w] = NoContent
  /\ \A w \in Worker : since[w] =< upstream

\* ... that documents are filed under their own feed's key, ...
Filing ==
  /\ \A k \in Key : cache[k] # NoItem => CacheKeyOf[cache[k].value.feed] = k
  /\ \A r \in Request : item[r] # NoItem => CacheKeyOf[item[r].value.feed] = CacheKeyOf[feed[r]]
  /\ \A r \in Request : pc[Serve(r)] = "check" => item[r] # NoItem

\* ... and that only the cleaner takes a document from a request in flight.
GapRecorded ==
  \A r \in InFlight \ gap : Cache!Has(buildCacheKey(r))

ServiceInv ==
  /\ TypeOK /\ SlotAccounting /\ Control /\ Documents /\ Filing /\ GapRecorded
  /\ ServedOwnFeed /\ MissIsFresh /\ InstantWhenCached

\* Every goroutine ends: no request waits for ever, no slot is lost.
EveryoneFinishes ==
  \A w \in Worker : pc[w] # "idle" ~> pc[w] = "done"

\* The README says STALE means "served from expired cache": the document a
\* STALE answer carries is expired when it is taken from the cache.
StaleMeansExpired ==
  [][\A r \in Request :
       response'[r].label = "STALE" /\ response[r].label # "STALE" =>
         Cache!Expired(cache[buildCacheKey(r)], now)]_vars

==============================================================================
