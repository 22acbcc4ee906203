------------------------------ MODULE RateLimiter ------------------------------
(***************************************************************************)
(* Rate limiting (internal/api/rest/ratelimit.go): a map from client       *)
(* addresses to token buckets, created on first use by a double-checked    *)
(* lookup, and the middleware that asks the bucket of a request's address. *)
(*                                                                         *)
(* An action is a critical section of rl.mu or a call of the bucket's      *)
(* Allow, taken as one step.  The bucket is golang.org/x/time/rate's,      *)
(* modelled from its use: full when created, refilled continuously up to   *)
(* the burst, one token per request.  Rates are fractions: a token is Cost *)
(* units and every tick of the clock, a second, adds Rate of them, so      *)
(* RATE_LIMIT is Rate / Cost.                                              *)
(***************************************************************************)
EXTENDS Integers, FiniteSets

CONSTANTS
  Request,   \* requests; each arrives at most once
  Address,   \* client addresses
  NoAddress, \* what mustExtractClientIP returns when it finds none
  Rate,      \* units added to a bucket per tick
  Cost,      \* units a request takes
  RateBurst, \* RATE_BURST
  NoBucket,  \* stands for an address without a limiter
  MaxTime    \* bound on the clock

ASSUME RateAssumption   == Rate \in Nat \ {0} /\ Cost \in Nat \ {0} /\ RateBurst \in Int
ASSUME TimeAssumption   == MaxTime \in Nat
ASSUME AbsentAssumption == NoAddress \notin Address /\ NoBucket \notin Request

VARIABLES
  limiters, \* rl.limiters: a bucket is named by the request that created it
  tokens,   \* units in each bucket when it was last used
  last,     \* when that was
  now,      \* the clock
  pc,       \* where each request is
  address,  \* the client address of each request
  limiter,  \* the bucket it was given
  at        \* when it was admitted (history)

limitVars == <<limiters, tokens, last, now, pc, address, limiter, at>>

Burst ==
  IF RateBurst > 0 THEN RateBurst
  ELSE LET twice == 2 * (Rate \div Cost) IN IF twice < 5 THEN 5 ELSE twice

\* The units of a full bucket.
Full == Burst * Cost

TypeOK ==
  /\ limiters \in [Address -> Request \cup {NoBucket}]
  /\ tokens \in [Request -> 0..Full]
  /\ last \in [Request -> Nat]
  /\ now \in Nat
  /\ pc \in [Request -> {"idle", "read", "write", "allow", "next", "refused"}]
  /\ address \in [Request -> Address \cup {NoAddress}]
  /\ limiter \in [Request -> Request \cup {NoBucket}]
  /\ at \in [Request -> Nat]

Init ==
  /\ limiters = [a \in Address |-> NoBucket]
  /\ tokens = [b \in Request |-> 0]
  /\ last = [b \in Request |-> 0]
  /\ now = 0
  /\ pc = [r \in Request |-> "idle"]
  /\ address = [r \in Request |-> NoAddress]
  /\ limiter = [r \in Request |-> NoBucket]
  /\ at = [r \in Request |-> 0]

Goto(r, label) == pc' = [pc EXCEPT ![r] = label]

\* A request whose address cannot be told passes.
Arrive(r) ==
  /\ pc[r] = "idle"
  /\ \E a \in Address \cup {NoAddress} :
       /\ address' = [address EXCEPT ![r] = a]
       /\ Goto(r, IF a = NoAddress THEN "next" ELSE "read")
  /\ at' = [at EXCEPT ![r] = now]
  /\ UNCHANGED <<limiters, tokens, last, now, limiter>>

\* getLimiter, under the read lock.
FindLimiter(r) ==
  LET found == limiters[address[r]] IN
    /\ pc[r] = "read"
    /\ limiter' = [limiter EXCEPT ![r] = found]
    /\ Goto(r, IF found = NoBucket THEN "write" ELSE "allow")
    /\ UNCHANGED <<limiters, tokens, last, now, address, at>>

CreateUnchecked(r) ==
  /\ pc[r] = "write"
  /\ limiter' = [limiter EXCEPT ![r] = r]
  /\ limiters' = [limiters EXCEPT ![address[r]] = r]
  /\ tokens' = [tokens EXCEPT ![r] = Full]
  /\ last' = [last EXCEPT ![r] = now]
  /\ Goto(r, "allow")
  /\ UNCHANGED <<now, address, at>>

\* getLimiter, under the write lock: look again, create if still absent.
FindOrCreate(r) ==
  LET found == limiters[address[r]] IN
    /\ pc[r] = "write"
    /\ \/ /\ found # NoBucket
          /\ limiter' = [limiter EXCEPT ![r] = found]
          /\ UNCHANGED <<limiters, tokens, last>>
       \/ /\ found = NoBucket
          /\ limiter' = [limiter EXCEPT ![r] = r]
          /\ limiters' = [limiters EXCEPT ![address[r]] = r]
          /\ tokens' = [tokens EXCEPT ![r] = Full]
          /\ last' = [last EXCEPT ![r] = now]
    /\ Goto(r, "allow")
    /\ UNCHANGED <<now, address, at>>

RefilledUncapped(b) == tokens[b] + Rate * (now - last[b])

RefilledWhole(b) ==
  LET filled == tokens[b] + Cost * ((Rate * (now - last[b])) \div Cost) IN
    IF filled > Full THEN Full ELSE filled

\* What the bucket holds by now; it never holds more than the burst.
Refilled(b) ==
  LET filled == tokens[b] + Rate * (now - last[b]) IN
    IF filled > Full THEN Full ELSE filled

\* limiter.Allow, and the middleware's decision.  A refusal leaves the bucket
\* as it was.
Allow(r) ==
  /\ pc[r] = "allow"
  /\ \/ /\ Refilled(limiter[r]) >= Cost
        /\ tokens' = [tokens EXCEPT ![limiter[r]] = Refilled(limiter[r]) - Cost]
        /\ last' = [last EXCEPT ![limiter[r]] = now]
        /\ at' = [at EXCEPT ![r] = now]
        /\ Goto(r, "next")
     \/ /\ Refilled(limiter[r]) < Cost
        /\ Goto(r, "refused")
        /\ UNCHANGED <<tokens, last, at>>
  /\ UNCHANGED <<limiters, now, address, limiter>>

Tick ==
  /\ now < MaxTime
  /\ now' = now + 1
  /\ UNCHANGED <<limiters, tokens, last, pc, address, limiter, at>>

Next ==
  \/ \E r \in Request : Arrive(r) \/ FindLimiter(r) \/ FindOrCreate(r) \/ Allow(r)
  \/ Tick

Spec == Init /\ [][Next]_limitVars

------------------------------------------------------------------------------
(* Properties.                                                               *)

\* The requests of an address admitted since time s.
AdmittedSince(a, s) ==
  {r \in Request : pc[r] = "next" /\ address[r] = a /\ at[r] >= s}

\* No address gets more than the burst and the rate allow, over any stretch of
\* time up to now, however its first requests race to create its bucket.
WithinRate ==
  \A a \in Address, s \in 0..now :
    Cardinality(AdmittedSince(a, s)) * Cost =< Full + Rate * (now - s)

\* A request is refused only when its own address has used up its allowance:
\* with this request it would have exceeded it over some stretch of time.
RefusedOnlyWhenSpent ==
  [][\A r \in Request :
       pc[r] # "refused" /\ pc'[r] = "refused" =>
         \E s \in 0..now :
           (Cardinality(AdmittedSince(address[r], s)) + 1) * Cost > Full + Rate * (now - s)
    ]_limitVars

\* A request passes exactly if with it its address stays within its allowance
\* over every stretch of time: the buckets decide as if they remembered when each
\* request passed, and racing to create them changes nothing.
Allowed == INSTANCE RateAllowance WITH
  verdict <- [r \in Request |-> IF pc[r] \in {"read", "write", "allow"} THEN "asked" ELSE pc[r]]

ImplementsAllowance == Allowed!Spec

\* All requests of an address draw from one bucket, and no other address does.
OneBucketPerAddress ==
  \A r \in Request :
    limiter[r] # NoBucket =>
      /\ address[r] # NoAddress
      /\ limiter[r] = limiters[address[r]]
      /\ address[limiter[r]] = address[r]

\* What they rest on: who has a bucket when, ...
Control ==
  \A r \in Request :
    /\ pc[r] \in {"read", "write", "allow", "refused"} => address[r] # NoAddress
    /\ pc[r] \in {"idle", "read", "write"} => limiter[r] = NoBucket
    /\ pc[r] = "allow" => limiter[r] # NoBucket
    /\ pc[r] = "next" /\ address[r] # NoAddress => limiter[r] # NoBucket

\* ... that a bucket is used by the request that created it, ...
BucketsOwned ==
  \A a \in Address :
    limiters[a] # NoBucket => address[limiters[a]] = a /\ limiter[limiters[a]] = limiters[a]

\* ... that a bucket was last used no earlier than its last admission, ...
LastUsed ==
  /\ \A b \in Request : last[b] =< now
  /\ \A r \in Request :
       pc[r] = "next" /\ address[r] # NoAddress => at[r] =< last[limiter[r]]

\* ... that what a bucket gave and still holds is within the allowance, ...
Allowance ==
  \A a \in Address :
    /\ IsFiniteSet(AdmittedSince(a, 0))
    /\ limiters[a] # NoBucket =>
         \A s \in 0..last[limiters[a]] :
           Cardinality(AdmittedSince(a, s)) * Cost + tokens[limiters[a]]
             =< Full + Rate * (last[limiters[a]] - s)

\* ... and equals it since the bucket was full for the last time.
Exhausted ==
  \A a \in Address :
    limiters[a] # NoBucket =>
      \E s \in 0..last[limiters[a]] :
        Cardinality(AdmittedSince(a, s)) * Cost + tokens[limiters[a]]
          = Full + Rate * (last[limiters[a]] - s)

LimitInv ==
  /\ TypeOK /\ Control /\ OneBucketPerAddress /\ BucketsOwned /\ LastUsed
  /\ Allowance /\ Exhausted

==============================================================================
