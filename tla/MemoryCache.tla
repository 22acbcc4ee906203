----------------------------- MODULE MemoryCache -----------------------------
(***************************************************************************)
(* The in-memory feed cache (internal/cache/memory.go): a map from cache   *)
(* keys to items with an expiry time, kept for StaleBuffer after expiry so *)
(* that GetStale can still answer, and a cleaner goroutine that removes    *)
(* what expired longer ago than that.                                      *)
(*                                                                         *)
(* One action is one critical section of c.mu (or one channel operation):  *)
(* the lock is never held across two of them, so the lock itself needs no  *)
(* variable.  The cleaner takes the lock twice - a read lock to collect    *)
(* the expired keys, then a write lock to delete them - and anything may   *)
(* happen between the two.                                                 *)
(***************************************************************************)
EXTENDS Integers

CONSTANTS
  Key,          \* cache keys
  Value,        \* cached documents
  TTL,          \* lifetimes Set is called with, in clock units
  StaleBuffer,  \* staleBufferDuration: how long an expired item is kept
  NoItem,       \* stands for a key that is not in the map
  MaxTime       \* bound on the clock

Item == [value : Value, expiresAt : Int]

ASSUME TTLAssumption         == TTL \subseteq Int
ASSUME StaleBufferAssumption == StaleBuffer \in Nat
ASSUME MaxTimeAssumption     == MaxTime \in Nat
ASSUME NoItemAssumption      == NoItem \notin Item

VARIABLES
  cache,     \* the map, NoItem for an absent key
  now,       \* time.Now()
  sweep,     \* where the cleaner goroutine is
  sweepAt,   \* the time cleanup was called with
  doomed,    \* expiredKeys, the result of its first critical section
  rewritten, \* keys stored since that section (history, read by properties only)
  life       \* "open", "stopping" (channel closed), "closed" (map cleared)

cacheVars == <<cache, now, sweep, sweepAt, doomed, rewritten, life>>

TypeOK ==
  /\ cache \in [Key -> Item \cup {NoItem}]
  /\ now \in Nat
  /\ sweep \in {"sleep", "scan", "delete", "exited"}
  /\ sweepAt \in Nat
  /\ doomed \subseteq Key
  /\ rewritten \subseteq Key
  /\ life \in {"open", "stopping", "closed"}

Init ==
  /\ cache = [k \in Key |-> NoItem]
  /\ now = 0
  /\ sweep = "sleep"
  /\ sweepAt = 0
  /\ doomed = {}
  /\ rewritten = {}
  /\ life = "open"

------------------------------------------------------------------------------
(* Reading.  Get reads the item under the read lock and compares its expiry  *)
(* with the clock afterwards; the two halves are separate for that reason.   *)

Has(k)    == cache[k] # NoItem
Lookup(k) == cache[k]

Expired(item, t)     == item.expiresAt < t
LongExpired(item, t) == item.expiresAt + StaleBuffer < t

------------------------------------------------------------------------------
(* Writing.                                                                  *)

Set(k, v, t) ==
  \/ t = 0 /\ UNCHANGED cacheVars
  \/ /\ t # 0
     /\ cache' = [cache EXCEPT ![k] = [value |-> v, expiresAt |-> now + t]]
     /\ rewritten' = IF sweep = "delete" THEN rewritten \cup {k} ELSE rewritten
     /\ UNCHANGED <<now, sweep, sweepAt, doomed, life>>

------------------------------------------------------------------------------
(* The cleaner goroutine.                                                    *)

\* The minute timer fires.  A goroutine parked in the select is woken by the
\* first of its two channels to become ready, so not after close(stop).
StartCleanup ==
  /\ sweep = "sleep"
  /\ life = "open"
  /\ sweep' = "scan"
  /\ sweepAt' = now
  /\ UNCHANGED <<cache, now, doomed, rewritten, life>>

ScanThenReturn ==
  LET expired == {k \in Key : Has(k) /\ LongExpired(cache[k], sweepAt)} IN
    /\ sweep = "scan"
    /\ doomed' = expired
    /\ sweep' = IF expired = {} THEN "exited" ELSE "delete"
    /\ sweepAt' = 0
    /\ UNCHANGED <<cache, now, rewritten, life>>

ScanUnbuffered ==
  LET expired == {k \in Key : Has(k) /\ Expired(cache[k], sweepAt)} IN
    /\ sweep = "scan"
    /\ doomed' = expired
    /\ sweep' = IF expired = {} THEN "sleep" ELSE "delete"
    /\ sweepAt' = 0
    /\ UNCHANGED <<cache, now, rewritten, life>>

\* First critical section of cleanup: collect the keys, release the lock.
Scan ==
  LET expired == {k \in Key : Has(k) /\ LongExpired(cache[k], sweepAt)} IN
    /\ sweep = "scan"
    /\ doomed' = expired
    /\ sweep' = IF expired = {} THEN "sleep" ELSE "delete"
    /\ sweepAt' = 0
    /\ UNCHANGED <<cache, now, rewritten, life>>

DeleteExpired ==
  /\ sweep = "delete"
  /\ cache' = [k \in Key |-> IF Has(k) /\ Expired(cache[k], now) THEN NoItem ELSE cache[k]]
  /\ sweep' = "sleep"
  /\ doomed' = {}
  /\ rewritten' = {}
  /\ UNCHANGED <<now, sweepAt, life>>

\* Second critical section: delete the collected keys, whatever they hold now.
Delete ==
  /\ sweep = "delete"
  /\ cache' = [k \in Key |-> IF k \in doomed THEN NoItem ELSE cache[k]]
  /\ sweep' = "sleep"
  /\ doomed' = {}
  /\ rewritten' = {}
  /\ UNCHANGED <<now, sweepAt, life>>

ExitWithoutReturn ==
  /\ sweep = "sleep"
  /\ life # "open"
  /\ sweep' = "sleep"
  /\ UNCHANGED <<cache, now, sweepAt, doomed, rewritten, life>>

\* The stop channel is closed: the goroutine returns.
Exit ==
  /\ sweep = "sleep"
  /\ life # "open"
  /\ sweep' = "exited"
  /\ UNCHANGED <<cache, now, sweepAt, doomed, rewritten, life>>

------------------------------------------------------------------------------
(* Close: close(c.stop), then clear the map under the lock.                  *)

Stop ==
  /\ life = "open"
  /\ life' = "stopping"
  /\ UNCHANGED <<cache, now, sweep, sweepAt, doomed, rewritten>>

Clear ==
  /\ life = "stopping"
  /\ life' = "closed"
  /\ cache' = [k \in Key |-> NoItem]
  /\ UNCHANGED <<now, sweep, sweepAt, doomed, rewritten>>

Tick ==
  /\ now < MaxTime
  /\ now' = now + 1
  /\ UNCHANGED <<cache, sweep, sweepAt, doomed, rewritten, life>>

------------------------------------------------------------------------------

Cleaner == StartCleanup \/ Scan \/ Delete \/ Exit

Next ==
  \/ \E k \in Key, v \in Value, t \in TTL : Set(k, v, t)
  \/ Cleaner
  \/ Stop
  \/ Clear
  \/ Tick

Spec == Init /\ [][Next]_cacheVars

\* The goroutine is never blocked for good: its two channels are its own and
\* every holder of c.mu releases it.  Callers and the clock promise nothing.
FairSpec == Spec /\ WF_cacheVars(Cleaner)

------------------------------------------------------------------------------
(* Properties.                                                               *)

\* What cleanup is about to delete was long expired when it looked, and still
\* is unless somebody stored the key (or closed the cache) in between.
DoomedJustified ==
  \A k \in doomed \ rewritten :
    Has(k) => LongExpired(cache[k], now)

\* A key is stored between the two halves of cleanup only while it runs.
SweepBookkeeping ==
  sweep # "delete" => doomed = {} /\ rewritten = {}

\* The clock the sweep works with is never ahead of the real one, so a sweep
\* can keep an item too long but not call it expired too early.
SweepNotAhead == sweepAt =< now

CacheInv == TypeOK /\ DoomedJustified /\ SweepBookkeeping /\ SweepNotAhead

Vanishes(k) == Has(k) /\ cache'[k] = NoItem

\* While the cache is open an entry is lost only if it is expired for longer
\* than the stale buffer, or if it was stored while a sweep that had already
\* condemned its key was waiting for the write lock (cleanup, Set).
LosesOnlyCondemned ==
  [][\A k \in Key :
       Vanishes(k) /\ life = "open" =>
         LongExpired(cache[k], now) \/ k \in doomed \cap rewritten]_cacheVars

\* memory.go says of cleanup that "items within the stale buffer are kept for
\* GetStale to use": an entry that vanishes is expired past the buffer.
StaleWindowKept ==
  [][\A k \in Key :
       Vanishes(k) /\ life = "open" => LongExpired(cache[k], now)]_cacheVars

\* Entries past the stale buffer do not pile up: the cleaner reclaims each of
\* them, unless it is stored again or the cache is closed.
Reclaimed ==
  \A k \in Key :
    (Has(k) /\ LongExpired(cache[k], now))
      ~> (~ Has(k) \/ ~ LongExpired(cache[k], now) \/ life # "open")

\* Close ends the cleaner goroutine.
CleanerExits == life # "open" ~> sweep = "exited"

==============================================================================
