----------------------------- MODULE RateAllowance -----------------------------
(***************************************************************************)
(* What rate limiting promises (internal/api/rest/ratelimit.go), without   *)
(* buckets, without the map they are kept in and without the race to       *)
(* create them: a request passes if and only if with it its address stays  *)
(* within burst and rate over every stretch of time that ends now.         *)
(*                                                                         *)
(* RateLimiter implements it (ImplementsAllowance there), which remembers  *)
(* one number and one time per address instead of all past requests.       *)
(***************************************************************************)
EXTENDS Integers, FiniteSets

CONSTANTS Request, Address, NoAddress, Rate, Cost, MaxTime, \* see RateLimiter
          Full \* the units of an address that has not used any yet

VARIABLES
  verdict, \* "idle", "asked", or the answer: "next", "refused"
  address, \* the client address of each request
  at,      \* when it came, or was admitted
  now      \* the clock

vars == <<verdict, address, at, now>>

Init ==
  /\ verdict = [r \in Request |-> "idle"]
  /\ address = [r \in Request |-> NoAddress]
  /\ at = [r \in Request |-> 0]
  /\ now = 0

\* A request whose address cannot be told passes.
Ask(r) ==
  /\ verdict[r] = "idle"
  /\ \E a \in Address \cup {NoAddress} :
       /\ address' = [address EXCEPT ![r] = a]
       /\ verdict' = [verdict EXCEPT ![r] = IF a = NoAddress THEN "next" ELSE "asked"]
  /\ at' = [at EXCEPT ![r] = now]
  /\ UNCHANGED now

PassedSince(a, s) ==
  {r \in Request : verdict[r] = "next" /\ address[r] = a /\ at[r] >= s}

\* One more request of a is within the allowance over any stretch of time.
Fits(a) ==
  \A s \in 0..now : (Cardinality(PassedSince(a, s)) + 1) * Cost =< Full + Rate * (now - s)

Pass(r) ==
  /\ verdict[r] = "asked"
  /\ verdict' = [verdict EXCEPT ![r] = "next"]
  /\ Fits(address[r])
  /\ at' = [at EXCEPT ![r] = now]
  /\ UNCHANGED <<address, now>>

Refuse(r) ==
  /\ verdict[r] = "asked"
  /\ verdict' = [verdict EXCEPT ![r] = "refused"]
  /\ ~ Fits(address[r])
  /\ UNCHANGED <<address, at, now>>

Tick ==
  /\ now < MaxTime
  /\ now' = now + 1
  /\ UNCHANGED <<verdict, address, at>>

Next == (\E r \in Request : Ask(r) \/ Pass(r) \/ Refuse(r)) \/ Tick

Spec == Init /\ [][Next]_vars

==============================================================================
