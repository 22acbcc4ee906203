-------------------------- MODULE MemoryCacheProofs --------------------------
(***************************************************************************)
(* What MemoryCache guarantees for every set of keys, documents and        *)
(* lifetimes and every stale buffer: its types, the invariant that what    *)
(* the cleaner is about to delete was rightly condemned, and that an open  *)
(* cache loses no other entry.                                             *)
(***************************************************************************)
EXTENDS MemoryCache, TLAPS

\* The map, the clock and the cleaner keep their types.
THEOREM TypeCorrect == Spec => []TypeOK
<1>1. Init => TypeOK
  BY DEF Init, TypeOK
<1>2. TypeOK /\ [Next]_cacheVars => TypeOK'
  <2> SUFFICES ASSUME TypeOK, [Next]_cacheVars PROVE TypeOK'
    OBVIOUS
  <2> USE DEF TypeOK
  <2>1. ASSUME NEW k \in Key, NEW v \in Value, NEW t \in TTL, Set(k, v, t)
        PROVE  TypeOK'
    <3>1. [value |-> v, expiresAt |-> now + t] \in Item
      BY TTLAssumption DEF Item
    <3>2. CASE t = 0
      BY <2>1, <3>2 DEF Set, cacheVars
    <3>3. CASE t # 0
      BY <2>1, <3>1, <3>3 DEF Set
    <3> QED BY <3>2, <3>3
  <2>2. CASE StartCleanup
    BY <2>2 DEF StartCleanup
  <2>3. CASE Scan
    BY <2>3 DEF Scan
  <2>4. CASE Delete
    BY <2>4 DEF Delete
  <2>5. CASE Exit
    BY <2>5 DEF Exit
  <2>6. CASE Stop
    BY <2>6 DEF Stop
  <2>7. CASE Clear
    BY <2>7 DEF Clear
  <2>8. CASE Tick
    BY <2>8 DEF Tick
  <2>9. CASE UNCHANGED cacheVars
    BY <2>9 DEF cacheVars
  <2> QED
    BY <2>1, <2>2, <2>3, <2>4, <2>5, <2>6, <2>7, <2>8, <2>9 DEF Next, Cleaner
<1> QED
  BY <1>1, <1>2, PTL DEF Spec

\* Time only makes an item older.
LEMMA LongExpiredMonotonic ==
  ASSUME NEW i \in Item, NEW s \in Int, NEW t \in Int, s =< t, LongExpired(i, s)
  PROVE  LongExpired(i, t)
BY StaleBufferAssumption DEF LongExpired, Item

\* Whatever the cleaner is about to delete was long expired when it looked,
\* and still is unless its key was stored again since (cleanup's two locks).
THEOREM CacheCorrect == Spec => []CacheInv
<1>1. Init => CacheInv
  BY DEF Init, CacheInv, TypeOK, DoomedJustified, SweepBookkeeping, SweepNotAhead
<1>2. CacheInv /\ TypeOK' /\ [Next]_cacheVars => CacheInv'
  <2> SUFFICES ASSUME CacheInv, TypeOK', [Next]_cacheVars PROVE CacheInv'
    OBVIOUS
  <2> USE DEF CacheInv, DoomedJustified, SweepBookkeeping, SweepNotAhead, Has
  <2>1. ASSUME NEW k \in Key, NEW v \in Value, NEW t \in TTL, Set(k, v, t)
        PROVE  CacheInv'
    <3>1. CASE t = 0
      BY <2>1, <3>1 DEF Set, cacheVars, LongExpired
    <3>2. CASE t # 0
      <4>1. /\ rewritten' = IF sweep = "delete" THEN rewritten \cup {k} ELSE rewritten
            /\ \A j \in Key \ {k} : cache'[j] = cache[j]
            /\ UNCHANGED <<now, sweep, sweepAt, doomed, life>>
        BY <2>1, <3>2 DEF Set, TypeOK
      <4>2. DoomedJustified'
        BY <4>1 DEF TypeOK, LongExpired
      <4> QED BY <4>1, <4>2
    <3> QED BY <3>1, <3>2
  <2>2. CASE StartCleanup
    BY <2>2 DEF StartCleanup, TypeOK, LongExpired
  <2>3. CASE Scan
    <3>1. ASSUME NEW k \in doomed' PROVE Has(k) /\ LongExpired(cache[k], now)
      <4>1. Has(k) /\ LongExpired(cache[k], sweepAt) /\ k \in Key
        BY <2>3, <3>1 DEF Scan
      <4> QED
        BY <4>1, LongExpiredMonotonic DEF TypeOK
    <3>2. UNCHANGED <<cache, now, rewritten>> /\ sweepAt' = 0 /\ now >= 0
      BY <2>3 DEF Scan, TypeOK
    <3>3. DoomedJustified'
      BY <3>1, <3>2 DEF LongExpired
    <3>4. SweepBookkeeping'
      BY <2>3 DEF Scan
    <3> QED BY <3>2, <3>3, <3>4
  <2>4. CASE Delete
    BY <2>4 DEF Delete
  <2>5. CASE Exit
    BY <2>5 DEF Exit, LongExpired
  <2>6. CASE Stop
    BY <2>6 DEF Stop, LongExpired
  <2>7. CASE Clear
    BY <2>7 DEF Clear, TypeOK
  <2>8. CASE Tick
    <3>1. now' = now + 1 /\ UNCHANGED <<cache, sweep, sweepAt, doomed, rewritten>>
      BY <2>8 DEF Tick
    <3>2. DoomedJustified'
      <4> SUFFICES ASSUME NEW k \in doomed \ rewritten, cache[k] # NoItem
                   PROVE  LongExpired(cache[k], now + 1)
        BY <3>1 DEF LongExpired
      <4>1. cache[k] \in Item /\ LongExpired(cache[k], now)
        BY DEF TypeOK
      <4> QED
        BY <4>1, LongExpiredMonotonic DEF TypeOK
    <3> QED BY <3>1, <3>2 DEF TypeOK
  <2>9. CASE UNCHANGED cacheVars
    BY <2>9 DEF cacheVars, LongExpired
  <2> QED
    BY <2>1, <2>2, <2>3, <2>4, <2>5, <2>6, <2>7, <2>8, <2>9 DEF Next, Cleaner
<1> QED
  BY <1>1, <1>2, TypeCorrect, PTL DEF Spec

\* While the cache is open, the only entries it loses are long expired ones
\* and those stored between the two halves of a sweep that condemned them.
THEOREM LossIsJustified == Spec => LosesOnlyCondemned
<1> DEFINE Justified ==
      \A k \in Key : Vanishes(k) /\ life = "open" =>
        LongExpired(cache[k], now) \/ k \in doomed \cap rewritten
<1>1. CacheInv /\ [Next]_cacheVars => [Justified]_cacheVars
  <2> SUFFICES ASSUME CacheInv, Next, NEW k \in Key, Vanishes(k), life = "open"
               PROVE  LongExpired(cache[k], now) \/ k \in doomed \cap rewritten
    OBVIOUS
  <2> USE DEF Vanishes, Has, CacheInv, TypeOK
  <2>1. ASSUME NEW j \in Key, NEW v \in Value, NEW t \in TTL, Set(j, v, t)
        PROVE  FALSE
    <3>1. [value |-> v, expiresAt |-> now + t] \in Item
      BY TTLAssumption DEF Item
    <3> QED
      BY <2>1, <3>1, NoItemAssumption DEF Set, cacheVars
  <2>2. ~ (Cleaner /\ ~ Delete) /\ ~ Stop /\ ~ Clear /\ ~ Tick
    BY DEF Cleaner, StartCleanup, Scan, Exit, Stop, Clear, Tick
  <2>3. CASE Delete
    <3>1. k \in doomed
      BY <2>3 DEF Delete
    <3> QED BY <3>1 DEF DoomedJustified
  <2> QED BY <2>1, <2>2, <2>3 DEF Next
<1> QED
  BY <1>1, CacheCorrect, PTL DEF Spec, LosesOnlyCondemned

==============================================================================
