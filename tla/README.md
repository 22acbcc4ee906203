# A TLA+ verification of tg2rss

tg2rss is an HTTP service that turns public Telegram channels into RSS and Atom
feeds: a request names a channel, the service scrapes the channel's page on
t.me, generates the feed, and caches it. It is a small program, but almost
everything in it happens concurrently: handlers, background refreshes, a cache
cleaner, a rate limiter shared by all requests, pooled compressors and a signal
handler.

This directory holds TLA+ models of it, TLC configurations that check them on
small instances, and TLAPS proofs of the properties that matter most for all
instances. Paths below are relative to `src/`; `PROJECT.json` maps every
definition to the lines it models.

## 1. Inventory

### Components, their state and their operations

| Component | Source | State | Operations |
|---|---|---|---|
| In-memory cache | `internal/cache/memory.go`, `cache.go` | a map from keys to items with an expiry, guarded by `c.mu`; the cleaner goroutine | `Get`, `GetStale`, `Set`, `cleanup` (two critical sections), `Close` |
| Redis cache | `internal/cache/redis.go` | two Redis keys per entry, the second one living 24 h longer | `Get`, `GetStale` (two reads), `Set` (a pipeline of two writes), `Close` |
| Feed handler | `internal/api/rest/telegram.go` | none of its own; the steps of each handler and of the refresh it may start | `getChannelFeed`, `tryCache`, `tryStaleCache`, `tryStaleFallback`, `scrapeAndGenerate`, `cacheContent`, `refreshCache`, `handleETag`, `buildCacheKey` |
| Scraper | `internal/feed/scraper.go`, `http.go` | a counting semaphore (a buffered channel) | `acquire`, `release`, `Scrape` |
| Extraction | `internal/feed/extract.go` | none | posts, titles, images, previews out of HTML |
| Generator | `internal/feed/generator.go`, `internal/entity/channel.go` | none | `Generate`, `shouldExcludePost`, `appendGallery` |
| Request parameters | `internal/entity/params.go` | the default lifetime | `NewFeedParamFromRequest`, `SetDefaultCacheTTL` |
| Rate limiter | `internal/api/rest/ratelimit.go` | a map from addresses to token buckets, guarded by `rl.mu`; the buckets | `getLimiter` (double-checked), `RateLimitMiddleware` |
| Gzip middleware | `internal/api/rest/compress.go` | a pool of `gzip.Writer`s; per response a buffer, a status and a mode | `WriteHeader`, `Write`, `startCompression`, `Close` |
| Access control | `internal/api/rest/ip.go`, `firewall.go`, `middleware.go` | the allow list | `extractClientIP`, `IsAllowed`, the middlewares |
| Metrics, logging | `internal/api/rest/metrics.go`, `internal/app/logger.go` | counters, a gauge; output | recording |
| Server and lifecycle | `internal/api/rest/server.go`, `cmd/tg2rss/main.go` | the root context, the signal channel, the listener, `errCh` | `main` and its `setup` functions, `Run`, `Shutdown`, `setupSignalHandler` |

### How they interact

`Run` nests the middlewares: logging, metrics, gzip, rate limiting, access
control, then the handlers. A feed handler reads the cache with `Get`; on a miss
with `GetStale`, and if that finds something it answers `STALE` and starts
`refreshCache` in a goroutine of its own; otherwise it scrapes, stores and
answers `MISS`; when the scrape fails it tries `GetStale` once more and answers
500 only if that misses too. Handlers and refreshes share the semaphore and the
cache, and count what they do in the metrics. Handlers run under the process' context, refreshes under a fresh one of
60 seconds, cache writes under 5 seconds. The first signal cancels the process'
context; `Run` then calls `Shutdown` and `main` closes the cache.

### What is hard, and what makes each component correct

* **In-memory cache.** `cleanup` collects keys under a read lock and deletes them
  under a write lock, and anything may happen in between; expiry is tested on a
  copy after the lock is released. *Correct if* only entries past the stale
  buffer are lost, they are all reclaimed, and `Close` ends the cleaner.
* **Redis cache.** The two writes are one pipeline but no transaction; the client
  library repeats it after errors; the two reads see different moments. *Correct
  if* an acknowledged document has its stale copy, outlives its lifetime by the
  buffer, and is never followed by a document it replaced.
* **Feed handler and scraper.** Any number of handlers and refreshes of the same
  feed, in any order, with failures at each step. *Correct if* each client gets
  its own feed, a `MISS` is fresh, cached feeds are answered at once, errors are
  given only with nothing to fall back on, refreshes do not go back in time, the
  semaphore is exact on every path, and everyone finishes.
* **Rate limiter.** First requests of one address race to create its bucket.
  *Correct if* no address exceeds burst and rate over any stretch of time and
  none is refused before that.
* **Gzip middleware.** Status, header, buffer and compressor in any order around
  a threshold; pooled writers change hands. *Correct if* the client decodes what
  the handler wrote, logs agree with it, and no writer is shared.
* **Access control.** The limiter and the list each find the client's address
  again in headers, which clients set and proxies overwrite, complete or pass on.
  *Correct if* both decide about the same address, which is the place the request
  comes from wherever its headers tell that, the list admits exactly whom it
  names, and the allowance holds per place on the network.
* **Lifecycle.** A signal during startup, before, while or after the server
  listens; two ready cases of one `select`; handlers longer than the shutdown
  timeout. *Correct if* nothing uses the cache after `Close`, exit status 0 is
  honest, and a signal always ends the process.
* **Metrics.** Counted in functions that share no state, on every way through
  them. *Correct if* the counters agree with the answers given and the gauge with
  the scrapes under way.
* **Parameters.** Missing, zero and malformed values, an `int` multiplied into
  nanoseconds, words joined into a key. *Correct if* a document is kept as long as
  asked and no longer, and served only to requests that ask for the same (which
  usernames with a colon can defeat, see section 5).
* **Contents** (extraction, titles, generator). Messages that quote and nest, skips
  half way, parallel size requests, boundaries of the title limit. *Correct if* the
  feed has exactly the posts it should, each with its own text, images and sizes,
  and titles that are cut where they may be.

`PROJECT.json` lists these hazards one by one, at their lines, each with the
properties that cover it.

## 2. Modules

| Module | Models | Checked with | Proofs |
|---|---|---|---|
| `MemoryCache` | the in-memory cache and its cleaner | `MCMemoryCache` | `MemoryCacheProofs` |
| `FeedService` | handlers, refreshes, semaphore, over `MemoryCache` (INSTANCE) | `MCFeedService` | `FeedServiceProofs` |
| `ServiceMetrics` | `FeedService` with the metrics it keeps | `MCServiceMetrics` | `FeedServiceProofs` |
| `RedisCache` | the Redis cache, one key | `MCRedisCache` | `RedisCacheProofs` |
| `RateLimiter` | limiter map, buckets, middleware | through `AccessControl` | `AccessControlProofs` |
| `RateAllowance` | what the limiter promises, without buckets (abstract) | through `RateLimiter` (INSTANCE) | `AccessControlProofs` |
| `AccessControl` | client address, allow list, over `RateLimiter` (EXTENDS) | `MCAccessControl` | `AccessControlProofs` |
| `GzipWriter` | the gzip middleware and the writers below it | `MCGzipWriter` | `GzipWriterProofs` |
| `ServerLifecycle` | startup, signals, `Run`, `Shutdown`, exit | `MCServerLifecycle` | `ServerLifecycleProofs` |
| `FeedParams` | the parameters, key and lifetime of a request: operators only | through `FeedContents` | `FeedContentsProofs` |
| `PostTitle` | how a title is made from a text: operators only | through `FeedContents` | `PostTitleProofs` |
| `Subsequences` | what a loop keeps of a slice: one operator | through `FeedContents` | `PostTitleProofs` |
| `FeedContents` | from the request to the page, the posts, the items, the stored document | `MCFeedContents` | `FeedContentsProofs` |

Operators whose name extends that of an action or helper (`ScanUnbuffered`,
`AcquireUnbounded`, ...) and that precede it are variants with a plausible bug.
No specification uses them; substituting them shows that the properties notice.

### MemoryCache

`cache` is the map; `sweep`, `sweepAt` and `doomed` are the program counter and
the locals of the cleaner; `life` follows `Close`. An action is one critical
section of `c.mu`: `Set`, `Scan` (the read-locked half of `cleanup`), `Delete`
(the write-locked half), `Clear`; `Stop` closes the channel. `Get` and
`GetStale` change nothing and are the operators `Lookup`, `Expired` and `Has`,
which `FeedService` uses one by one because `Get` tests the expiry after
releasing the lock. `rewritten` is a history variable: the keys stored since the
sweep under way collected its own.

`LosesOnlyCondemned` is the exact guarantee: an open cache loses only entries
past the buffer, *or* entries stored while the cleaner that had condemned their
key was waiting for the lock. The second half is a defect, see section 5.

### FeedService

One program counter per goroutine, `<<request, "serve">>` and
`<<request, "refresh">>`; one action per step between two points where others
can interfere. `GetRead` is `Get`'s critical section and `GetCheck` the expiry
test after it. `Acquire`, `VisitOk`, `VisitFails`, `ParseDone` and
`AcquireCancelled` are the semaphore, the visit and the ways out of `Scrape`;
`StoreAndAnswer`, `StoreRefreshed` and `Fallback` are the ends of a goroutine.
The cache is an instance of `MemoryCache` over the same variables, so the
cleaner runs in between; the service never calls `Close`. `upstream` is the
version of the channels on Telegram, which lets a document's age be told.
A document is a feed and a version; a response is the `X-CACHE-STATUS` and the
document the client ends up with, so a 304 counts as the document it stands for.

Feeds may share a cache key, as two of the feeds in the runs do: which requests
do is a question about the text of keys, which `FeedParams` has. `ServedOwnFeed`
says what follows for clients.

### ServiceMetrics

Each action of `FeedService` together with the `Record` calls of its goroutine.
The gauge is decremented when `Scrape` returns, on every way out, so it counts
the scrapes that wait for a slot as well as those that have one. A request counts
as one hit or one miss when it asks the cache; an expired entry is a miss, and a
stale response too if it is served.

### RedisCache

`main` and `stale` are the two Redis keys. `ExecMain` and `ExecStale` are what
Redis does with the pipeline, in any interleaving with other clients; `Drop`
loses the rest of a pipeline or its replies; `Retry` is the client library
sending it again while the first copy may still arrive; `Reply` and `GiveUp` are
the two ends of `Exec`. `ReadMain` goes on to the stale key whatever the reason,
as the code does. The history variables `before` and `outdated` record which
calls were over when another began.

### RateLimiter

`FindLimiter` and `FindOrCreate` are the two critical sections of `getLimiter`,
`Allow` the bucket's own atomic decision. Rates are fractions: a token is `Cost`
units, and a tick adds `Rate` of them. `RateAllowance` is what this is for: it
remembers every request that passed, and lets one pass if and only if with it
its address stays within its allowance over *every* stretch of time that ends now.
`ImplementsAllowance` says that the limiter decides no differently.

### AccessControl

Extends the limiter's actions: `Receive` is a request's arrival with the headers
it has by then, `Limit` adds the 429, `Filter` is `IPFilterMiddleware`, which comes
behind the limiter. `client` is what `extractClientIP` makes of the headers. An
address is a value and a network a set of them.

What becomes of the headers a client sends depends on the way its request comes
(`Ways`): straight, or through a proxy that sets `X-Real-IP` or passes it on, and
that sets `X-Forwarded-For`, appends to it or passes it on. Nothing in the code
rules any of them out, and the repository has several: `README.md`'s nginx
configuration sets the one and appends to the other for `/` (lines 221-222) but
passes both on for `/health` (226-230), and the proxies of `firewall_test.go`
(256-272) know `X-Forwarded-For` only. A request may also come past the proxy, or
through one while `REVERSE_PROXY` is off.

`Tells` is when the headers tell where the request comes from: the proxy names it
in the header that is read first, or, without a proxy, no header is read or none
that is names anybody. `origin` is that place then, and `Untold` otherwise. The
program knows neither; the properties claim that limiter and list decide about the
origin where it is told, and only about the address that the headers state where
it is not.

### GzipWriter

`w` is the `gzipResponseWriter`, `reply` what reaches the client, `gzip` the
state of every `gzip.Writer`, `pool` the idle ones. A chunk knows its request,
its number and how many times it has been compressed, so lost, repeated, foreign
and doubly compressed bytes can all be told. Handlers are records: which status
they set, how many chunks they write, and whether they compress by themselves,
as the metrics handler does.

### ServerLifecycle

Three goroutines - the one that receives signals, the one that listens, the main
one - and the handlers and refreshes they leave behind. The main goroutine sets
up the filter, the cache and the numbers of the configuration, and exits on the
spot if one of them fails. A signal that finds the channel full is lost, as in Go.
`Exit` ends everything that still runs.

### FeedParams, PostTitle and FeedContents

`FeedParams` is `NewFeedParamFromRequest`, `buildCacheKey` and the two places that
compute with the lifetime. Words are values, but keys spell them out, so that keys
that collide can be found. A Go `int` has `IntWidth` bits, a minute `Minute` units:
the real 64 bits and 60,000,000,000 ns are scaled down, so that lifetimes on both
sides of the overflow are a few dozen. `Character` is what keys are made of; which
characters there are matters only as far as `CharacterAssumption` says.

`PostTitle` is `extractTitle` and `formatTitle` over sequences of runes. Runes
are told apart as far as the code does: a letter, a space, the parentheses, a
full stop, a colon, a line break. `Subsequences` has the loops that append some
elements of a slice to another, by a function of the place they have come to.

`FeedContents` is one request that the cache does not answer. `Parse` refuses it
or goes on; the scraper's loop (`SkipMessage`, `StartPost`, `FetchSize`,
`FinishPost`), in which one goroutine per image writes that image's size by its
index; the generator's loop (`Exclude`, `Add`); `Respond`, which stores and sends
the document. The size of an image is named by the image, so mixed up sizes show.
A message has text containers, each nested in another one or not, quoted or not;
of their HTML only the words that requests exclude are kept, each with its
spelling. A visit that fails is in `FeedService`.

## 3. Runs

| Run | Question | Bounds |
|---|---|---|
| `cache` | what can be lost, what is reclaimed, does the cleaner end | 2 keys, 1 document, lifetimes -1..2, clock to 4 |
| `cache_stale_window` | *violation*: "Items within the stale buffer are kept" | 1 key |
| `service` | all safety properties of the request path and its metrics | 2 requests and their refreshes, 3 feeds of which 2 share a key, lifetimes 0 and 1, 1 slot, clock to 4, 3 versions |
| `service_liveness` | does everyone finish | 2 requests and their refreshes, 1 feed, 1 slot, clock to 3, 2 contents |
| `service_stale_label` | *violation*: "STALE (served from expired cache)" | 2 requests, 1 feed |
| `redis` | acknowledged writes against retries, losses and readers | 2 writers, 1 reader, 2 attempts, lifetimes 0 and 1, buffer 1, clock to 3 |
| `limiter` | the allowance of each address, refinement of `RateAllowance`, whom the list admits | 3 requests, 2 clients, the proxy and an unparsable address, any headers of theirs, 4 ways, with and without `REVERSE_PROXY`; 5 lists without `RATE_LIMIT`, and with it one that leaves out a client; rate 2/3, burst 2, clock to 2 |
| `gzip` | what clients receive, who holds which writer | 2 requests, 2 writers, 5 kinds of handlers, 2 sizes |
| `gzip_metrics` | *violation*: "Exposes Prometheus-compatible metrics" | 1 request |
| `lifecycle` | order of startup and shutdown, exit status, does a signal end it | 2 requests, 3 signals |
| `feed` | which posts the feed has, their texts, dates, images, sizes and titles; under which key and how long it is stored | every text of up to 6 runes with a limit of 3; every page of up to 2 of 8 kinds of messages with every 2 exclusions; every arrangement of 3 containers; keys of 4 usernames (one with a colon), 4 formats and 15 lists of exclusions; lifetimes up to 40 minutes of 12 units in 7 bits |
| `feed_parens` | *violation*: "removes parenthetical text that crosses the character limit" | texts of up to 5 runes |

**Why these bounds are enough.** Each one lets every branch of the code and every
conflict between two actors occur. A lifetime, the buffer and the clock leave
room for an entry to be fresh, expired and past the buffer, and to be stored
again. Two requests and two refreshes are four goroutines on one slot: one holds
it, one waits, one is cancelled while waiting. Two feeds tell whether documents
are mixed up, a third one with the key of the first what happens to feeds that
share one; three versions whether they go back. A third attempt of a Redis
call or a second reader brings no new pair of overlapping commands. Three
requests of one address overdraw a bucket of two tokens; two ticks at rate 2/3
leave a fraction of a token, carry it over and fill the bucket to its cap; two
requests race for a bucket. The automatic burst, never below 5, is left to the
proofs. The lists have every kind of entry, and the one that the limiter's runs
use names one client, by its address, and the proxy, by a network, but not the
other client. The ways are those that the repository shows, and the straight one;
the proofs cover the others.
A title limit of 3 and texts of twice that length put every kind of rune on both
sides of it; two messages suffice for order, dates and exclusion, three
containers for two siblings in or beside a quotation and for nesting twice. With
7 bits a lifetime overflows from 6 minutes on, and 40 minutes wrap around several
times. One word is spelled like two others in a row, so that keys collide without
their separator, and one username like another with a format, so that keys
collide as the code has it; the words posts exclude are told from those that share a key. The clocks,
`MaxVersion`, `MaxSignals` and `Tries` bound only the model. Symmetry is used
where requests, calls or writers are interchangeable, and in no run with a
liveness property. Where the system stops once every request is over, deadlock is
not checked.

**Fairness.** `MemoryCache`: the cleaner goroutine is never blocked for good.
`FeedService`: goroutines run (weak fairness of a handler's own steps), Telegram
answers or the HTTP client times out after two minutes (weak fairness of the
visit), and `Acquire` is strongly fair because Go serves the senders waiting on a
channel in order, so none is overtaken for ever; the refreshes' own 60-second
context ends (`AcquireCancelled` of a refresh), while nothing is assumed about a
client's. `ServerLifecycle`: the signal goroutine and the main goroutine run, Redis
answers the ping at startup or the client library's timeout fires, and so does
Shutdown's ten-second timer; nothing is assumed about signals, the network,
clients, or how long handlers and refreshes take.

## 4. Proofs

All theorems hold for any number of requests, keys, feeds, addresses and slots,
any clock, any page, text and title limit, any width of an `int`. They assume only
the named `ASSUME`s of the modules:

* that constants are numbers where the code has numbers, and that the values
  standing for "absent" are not real values;
* for the keys, `SpellingAssumption`: words contain no bar (at which the query is
  split), and words that are spelled alike are the same word. Of usernames nothing
  is assumed, and neither does the service assume that feeds have different keys;
* for access control, `ProxyAssumption`: a way without a proxy changes no header;
* for the contents, `NestingAssumption`: a container comes after the one it is nested
  in, as in any document; for lifetimes, `WidthAssumption`: a `Duration` counts units
  shorter than a second; and `PowerAssumption`, that a power of two is positive, of
  which the provers know only that it is a number.

* **MemoryCacheProofs.** `CacheInv` says of the cleaner's `doomed` set that what
  it holds was long expired when collected and still is unless stored since. It
  is inductive because expiry is monotonic in time (`LongExpiredMonotonic`) and
  `rewritten` records every store. `LosesOnlyCondemned` follows step by step:
  only `Delete` empties a slot of an open cache.
* **FeedServiceProofs.** `ServiceInv` strengthens the client-visible properties
  with what they rest on: where a goroutine can be (`Control`), that what it
  carries is its own feed's and not older than its start (`Documents`), that the
  cache files each document under its own feed's key (`Filing`; several feeds may
  have the same), that the semaphore equals the number of scrapes
  under way (`SlotAccounting`), and that only the cleaner can take a document
  away from a request in flight (`GapRecorded`). Every conjunct has a lemma with
  a step per action. From it follow the invariants `ServedOwnFeed`,
  `MissIsFresh`, `InstantWhenCached`, the action properties
  `ErrorOnlyWithoutCopy` and `RefreshIsFresh`. The metrics only watch: every behaviour of
  `ServiceMetrics` is one of `FeedService` (`OnlyWatches`), so `ServiceInv` holds of
  it. `GaugeBalanced` is inductive with it, since a goroutine enters and leaves
  `InScrape` once (that a request's refresh is idle when the handler starts it is
  part of `Control`). `CountersInv` adds to `CountersAgree` that the sets which are
  counted are finite; a request joins each of them at most once, because it is
  answered once.
* **RedisCacheProofs.** `RedisInv` rests on one fact: a call that was over when
  another began writes no more (`BeforeOver`; the retries of a call end with it, and
  what its broken connections lost is lost). So what a call has written under a key
  is not overwritten by a call that was over before it began, and what is there
  expires no earlier than its writer's lifetime, and under the stale key the buffer,
  after that writer began (`KeysFresh`); the
  stale key is never ahead of the main one (`MainFirst`), and whatever no longer
  counts for a reader was over before an acknowledged call began
  (`ReadersBehind`). `AcknowledgedWins`, `CopiesTogether` and `StaleKept` follow.
* **AccessControlProofs.** First the limiter. "No more than burst and rate allow over
  *any* stretch of time" is not inductive. `LimitInv` adds, for each bucket, that
  what it gave since any moment plus what it holds is within the allowance since
  that moment (`Allowance`), and that for some moment - when it was last full - the
  two are equal (`Exhausted`). The first gives `WithinRate`, the second
  `RefusedOnlyWhenSpent`: a refusal proves that the address spent its allowance.
  The two together are the refinement: each `Allow` is a `Pass` or a `Refuse` of
  `RateAllowance`, the rest of `getLimiter` a stutter (`BucketsImplementAllowance`).
  Then the chain. Every behaviour of `AccessControl` is one of `RateLimiter`
  (`UsesLimiter`), so the limiter's theorems hold of it. Where a request's
  headers tell its origin, `extractClientIP` finds it, whatever else they say
  (`ExtractsOrigin`, a case for each disjunct of `Tells`), and both middlewares
  decide about what it finds (`OneClient`): that is `AccessInv`, and with it the list
  admits exactly the addresses it names (`ListDecides`) and the allowance holds per
  origin (`OriginLimited`), for any set of ways that requests may come by.
* **GzipWriterProofs.** `GzipInv` holds that a `gzip.Writer` in use is in one
  response's hands and not in the pool (`WritersExclusive`), that each buffer,
  and each writer since its last `Reset`, has chunks of the response that holds
  it only (`ChunksSeparate`), and that no chunk is compressed before it leaves
  (`KeptAsWritten`, which the types need). The first makes the second inductive:
  a write to one's own writer cannot touch another's. `OwnBytes` follows. For
  `RecordedIsSent`, `StatusInv` adds that nothing has been sent while a body is
  buffered, so that the status that is recorded is the first and only one. For
  `Delivered`, `DeliveryInv` follows the body: until it grows, all that was written
  is in the wrapper and nothing was sent (`Buffered`); then it is in the
  `gzip.Writer`, under a header that says so (`Compressing`); then with the client
  (`Complete`). Each stage holds the handler's chunks by number, and a step of one
  request leaves the stages of the others alone (`OthersKept`).
* **ServerLifecycleProofs.** `LifeInv` ties what was stopped, closed and cut off
  to the place of the main goroutine: `Shutdown` closes the listener before it
  waits, so once it is over no handler is active and none can begin, and only
  then come `Close` and the return from `main` (`ShutdownOrder`); status 0 is that
  of the return, at which nobody is active and so nobody is cut off
  (`ExitJustified`). `HandlersFinishFirst` and `CleanExit` follow at once.

* **PostTitleProofs.** What the loops over runes and containers compute, for texts of
  any length. A loop is a function of the number of rounds, and what it is after a
  round an induction over the *set* of numbers for which it is right
  (`NatSetInduction`), with which `RoundsExist` shows that such a function exists and
  `PickLoop` and `FlattenLoop` that it obeys its recursion. `MinPlace` and
  `FoundPlace` say of the searches, which are folds, what they find. So
  `truncateAtWordBoundary` gives the text or a beginning of it within the limit, which
  ends where a word does unless none ends there (`TruncateCuts`), `removeIncompleteParens` leaves a text without parentheses alone
  (`WithoutParensUntouched`), and `TitleOfText` follows for any text and limit.
* **FeedContentsProofs.** `ContentInv` has three parts, each inductive with those
  before it. `FlowInv` says where the loops are, that the sizes being fetched belong
  to the photos of the message at hand, in their places whatever the order of the
  answers, and what was stored. `PostsInv` says that there is a post for each numbered
  and dated message the scraper has passed and no other, in their order, made of
  that message (`PostRight`). `ItemsInv` says the same of the items and the posts that
  are not excluded, and that the feed's date is the youngest so far. Without the
  order, in which both loops append, "no message twice" would be lost on the way. With
  what `extractHTMLAndTitle` finds among nested containers (`OwnTextFound`) and with
  `TitleOfText`, all invariants of the run follow. That keys determine what they are
  asked for is taken apart from the outside: the username is the same, or ends at
  the first colon if it has none itself (`FirstMarkTold`), the format and the flag have their lengths, and between them
  the words are told from the last bar backwards (`LastMarkTold`, `SpelledTold`).
  `KeptAsAsked` rests on what a multiplication that wraps around is when it does
  not (`Wrapping`).

**Only model-checked.** Liveness, which needs fairness and ENABLED: `Reclaimed`,
`CleanerExits`, `EveryoneFinishes` and `Stops`. Every invariant and every action
property of a passing run is proved; the remaining runs show properties that the
code does not have.

## 5. What the models show about the code

* **An entry inside the stale buffer can be deleted** (`cache_stale_window`).
  `cleanup` deletes the keys it collected without looking at them again, so a
  document stored between its two critical sections is lost, however fresh it is
  (`memory.go:119`), against the comment that items within the buffer are kept.
* **STALE does not always mean expired** (`service_stale_label`). A document that
  another goroutine stores between a request's `Get` and its `GetStale` is served
  as `STALE`, with `X-Data-Stale: true`, and refreshed again (`telegram.go:128`).
* **The metrics endpoint is compressed twice** (`gzip_metrics`). promhttp
  negotiates gzip itself; the middleware above compresses its output again and
  sends one `Content-Encoding` (`compress.go:80`).
* **Titles lose parentheses but for the closing one** (`feed_parens`). In a text
  that is too long `removeIncompleteParens` drops what is inside parentheses but
  writes their `)`, unless the rune behind the limit is still inside: with a limit
  of 3 "aa()", which closes right behind it, becomes "aa)", and the same branch
  makes "a (b) c", which closes before it, "a ) c" (`extract.go:191`).

Seen while modelling, without a run of their own: each request that finds an
entry expired starts a refresh, so one feed may be refreshed several times at
once; the first signal cancels the context that requests in flight derive theirs
from (`server.go:131`, `Cancel` in `ServerLifecycle`), so their scrapes fail
while `Shutdown` waits for them; two overlapping `Set`s on Redis can leave
different documents under the two keys, although the comment calls the pipeline
atomic; `GetStale` can miss a key that was stored, once the cleaner has removed
it, although its comment says otherwise; a refresh that is still running when
`main` returns is cut off; a slow refresh overwrites the newer document of a fast
one, which `RefreshIsFresh` bounds but does not rule out.

Others are the reason for a condition in a property.

*Keys.* `buildCacheKey` joins username, format and words with colons, and
`params.go:46` takes any path segment for a username. So `/telegram/channel/a:rss`
and `/telegram/channel/a?exclude=rss:` have the key `telegram:channel:a:rss:rss::0`
both, and either is served what the other one stored (`telegram.go:264`).
`KeyDetermines` says that this cannot happen between requests for one username, nor
between two whose usernames have no colon; `ServedOwnFeed`, that a client is served
from its own key, and a `MISS` from its own channel, in any case.

*Headers.* With `REVERSE_PROXY`, `extractClientIP` believes `X-Real-IP` and then the
first entry of `X-Forwarded-For`, whoever wrote them. Behind a proxy that passes
them on - as `/health` of the nginx configuration in `README.md` does - or that
appends to the client's `X-Forwarded-For` and sets no `X-Real-IP`, the limiter and
the list decide about an address that the client may have written; without
`REVERSE_PROXY` behind a proxy, about the proxy's. `ListDecides` says then what is
left, that the list is applied to the address stated, and `OriginLimited` does not
count those requests. With them, `WithinRate` holds of the addresses that are stated.

*The rest.* An IPv4 address written as
IPv6 in `ALLOWED_IPS` is completed with "/32", which allows another network and
not the address (`firewall.go:120`; `PlainList` in `ListDecides`). A list of blanks
only admits everyone. A request counts against the rate before the list is asked.
Lifetimes are not checked for overflow: `KeptAsAsked` holds exactly up to there,
beyond it a document is kept for a shorter time or not at all in memory - and in
Redis, whose client takes a negative lifetime for none, for ever. `DEFAULT_CACHE_TTL`
is not checked either; a negative one turns caching off. Only in a message whose
every text is quoted, and by several quotations of equal depth, do a post's HTML and
its title come from different containers (`OwnText` is about the others). Among several
innermost containers `OwnText` accepts any, although `extract.go:95` prefers the later. The HTTP
counter has a series for every path that is asked for. A page without messages
counts as a successful scrape of an empty channel, and replaces the last copy.

## 6. Order of the work

The modules were written in this order, each with its runs before its proofs: the
caches and the request path, which carry the program; the rate limiter,
compression and the lifecycle, where goroutines meet; the feed's contents and the
parameters; access control, composed with the limiter; the metrics, composed with
the request path. The proofs followed in the same order, those of the contents last. What could come next: `FeedService` over an abstract cache that
`MemoryCache` and `RedisCache` both implement - their different failures (a Redis
`Get` may fail) make it more than an INSTANCE of the one in place of the other.

## 7. Not modelled

* The HTML selectors and regular expressions of `extract.go` and the emoji
  replacement in `scraper.go`: goquery and colly do the work. Messages are what is
  left of the page after it.
* The XML the feeds library writes, and the author it gives Atom items.
* HTTP parsing, routing, the base path, the health answer, the timeouts of server
  and transport, which are settings of net/http.
* ETags: a 304 stands for the document the client has already, whose hash is that
  of the one it would get.
* The Redis protocol below single commands.
* Log output (`logger.go` chooses a format once), the two histograms and the HTTP
  counter, which record what passes by and are never read.
* Requests that begin during `Shutdown` on connections that were accepted before it:
  net/http either waits for them as for the others or closes the connection first.
* How soon a second signal ends the process. `SecondSignal` is modelled, but
  Shutdown's timer ends the process as well, and `Stops` does not tell them apart.
* Handlers over Redis. `FeedService` has the cache in memory, so that
  `ErrorOnlyWithoutCopy` and `InstantWhenCached` are about that; a read from Redis
  may fail although there is a copy.
* What environment variables other than the numbers, the list and the hosts say:
  texts that are copied into the output.
