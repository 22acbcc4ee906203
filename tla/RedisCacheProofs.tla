---------------------------- MODULE RedisCacheProofs ----------------------------
(***************************************************************************)
(* What the two copies in Redis promise, for any number of calls, readers, *)
(* lifetimes and attempts: an acknowledged Set wins over what was over     *)
(* before it began, its copies are there together, and it can be read as   *)
(* stale for the whole buffer.  RedisInv is inductive because a call that  *)
(* is over writes no more.                                                 *)
(***************************************************************************)
EXTENDS RedisCache, TLAPS

FlightState == {"none", "both", "second", "executed"}

\* Changing what one attempt has in flight.
LEMMA FlightUpdate ==
  ASSUME TypeOK, NEW c \in Call, NEW i \in Attempt, NEW state \in FlightState,
         flight' = [flight EXCEPT ![c][i] = state]
  PROVE  /\ flight' \in [Call -> [Attempt -> FlightState]]
         /\ \A d \in Call, j \in Attempt :
              flight'[d][j] = IF d = c /\ j = i THEN state ELSE flight[d][j]
<1> USE DEF TypeOK, FlightState
<1>1. flight' = [flight EXCEPT ![c] = [flight[c] EXCEPT ![i] = state]]
  OBVIOUS
<1>2. [flight[c] EXCEPT ![i] = state] \in [Attempt -> FlightState]
  OBVIOUS
<1> QED
  BY <1>1, <1>2

\* What each action does to the flights.
LEMMA Flights ==
  ASSUME TypeOK, NEW c \in Call, NEW i \in Attempt
  PROVE  /\ ExecMain(c, i) => \A d \in Call, j \in Attempt :
              flight'[d][j] = IF d = c /\ j = i THEN "second" ELSE flight[d][j]
         /\ ExecStale(c, i) => \A d \in Call, j \in Attempt :
              flight'[d][j] = IF d = c /\ j = i THEN "executed" ELSE flight[d][j]
         /\ Drop(c, i) => \A d \in Call, j \in Attempt :
              flight'[d][j] = IF d = c /\ j = i THEN "none" ELSE flight[d][j]
         /\ ExecMain(c, i) \/ ExecStale(c, i) \/ Drop(c, i)
              => flight' \in [Call -> [Attempt -> FlightState]]
<1>1. \A state \in FlightState : flight' = [flight EXCEPT ![c][i] = state] =>
         /\ flight' \in [Call -> [Attempt -> FlightState]]
         /\ \A d \in Call, j \in Attempt :
              flight'[d][j] = IF d = c /\ j = i THEN state ELSE flight[d][j]
  BY FlightUpdate
<1>2. "none" \in FlightState /\ "second" \in FlightState /\ "executed" \in FlightState
  BY DEF FlightState
<1> QED
  BY <1>1, <1>2 DEF ExecMain, ExecStale, Drop

LEMMA CallFlights ==
  ASSUME TypeOK, NEW c \in Call, CallSet(c)
  PROVE  /\ flight' \in [Call -> [Attempt -> FlightState]]
         /\ \A d \in Call \ {c}, j \in Attempt : flight'[d][j] = flight[d][j]
         /\ ttl[c] # 0 => \A j \in Attempt :
              flight'[c][j] = IF j = 1 THEN "both" ELSE flight[c][j]
         /\ ttl[c] = 0 => flight' = flight
<1>1. 1 \in Attempt /\ "both" \in FlightState
  BY RedisBoundsAssumption DEF Attempt, FlightState
<1>2. CASE ttl[c] = 0
  BY <1>2 DEF CallSet, TypeOK, FlightState
<1>3. CASE ttl[c] # 0
  <2>1. flight' = [flight EXCEPT ![c][1] = "both"]
    BY <1>3 DEF CallSet
  <2> QED
    BY <1>1, <1>3, <2>1, FlightUpdate
<1> QED
  BY <1>2, <1>3

LEMMA RetryFlights ==
  ASSUME TypeOK, NEW c \in Call, Retry(c)
  PROVE  /\ flight' \in [Call -> [Attempt -> FlightState]]
         /\ attempt' \in [Call -> Attempt]
         /\ \A d \in Call, j \in Attempt :
              flight'[d][j] = IF d = c /\ j = attempt[c] + 1 THEN "both" ELSE flight[d][j]
<1>1. attempt[c] + 1 \in Attempt /\ "both" \in FlightState
  BY RedisBoundsAssumption DEF Attempt, FlightState, TypeOK, Retry
<1>2. flight' = [flight EXCEPT ![c][attempt[c] + 1] = "both"]
  BY DEF Retry
<1>3. attempt' = [attempt EXCEPT ![c] = attempt[c] + 1]
  BY DEF Retry
<1>4. PICK k \in Attempt : k = attempt[c] + 1
  BY <1>1
<1>5. /\ flight' \in [Call -> [Attempt -> FlightState]]
      /\ \A d \in Call, j \in Attempt :
           flight'[d][j] = IF d = c /\ j = k THEN "both" ELSE flight[d][j]
  BY <1>1, <1>2, <1>4, FlightUpdate
<1>6. attempt' \in [Call -> Attempt]
  BY <1>1, <1>3 DEF TypeOK
<1> QED
  BY <1>4, <1>5, <1>6

LEMMA ReplyFlights ==
  ASSUME TypeOK, NEW c \in Call, Reply(c)
  PROVE  /\ flight' \in [Call -> [Attempt -> FlightState]]
         /\ \A d \in Call, j \in Attempt :
              flight'[d][j] = IF d = c /\ j = attempt[c] THEN "none" ELSE flight[d][j]
<1>1. attempt[c] \in Attempt /\ "none" \in FlightState
  BY DEF TypeOK, FlightState
<1>2. flight' = [flight EXCEPT ![c][attempt[c]] = "none"]
  BY DEF Reply
<1> QED
  BY <1>1, <1>2, FlightUpdate

\* What the two commands leave under the keys.
LEMMA Writers ==
  ASSUME TypeOK, NEW d \in Call, NEW i \in Attempt
  PROVE  /\ ExecMain(d, i) =>
              main' \in Item /\ main' # NoItem /\ main'.by = d /\ flight[d][i] # "none"
         /\ ExecStale(d, i) =>
              /\ stale' \in Item /\ stale' # NoItem /\ stale'.by = d /\ flight[d][i] # "none"
              /\ stale'.expiresAt = now + ttl[d] + StaleBuffer
<1>0. now \in Nat /\ StaleBuffer \in Nat /\ ttl[d] \in Nat
  BY RedisTTLAssumption, RedisBoundsAssumption DEF TypeOK
<1>1. now + ttl[d] \in Nat /\ now + ttl[d] + StaleBuffer \in Nat
  BY <1>0
<1>2. /\ [by |-> d, expiresAt |-> now + ttl[d]] \in Item
      /\ [by |-> d, expiresAt |-> now + ttl[d] + StaleBuffer] \in Item
  BY <1>1 DEF Item
<1> QED
  BY <1>2, RedisNamesAssumption DEF ExecMain, ExecStale

\* Every step keeps the types.
LEMMA TypeStep ==
  ASSUME TypeOK, [Next]_redisVars
  PROVE  TypeOK'
<1> USE DEF TypeOK, FlightState
<1>1. ASSUME NEW c \in Call, CallSet(c)
      PROVE  TypeOK'
  <2>1. flight' \in [Call -> [Attempt -> FlightState]]
    BY <1>1, CallFlights
  <2>2. pc' \in [Call -> {"idle", "waiting", "ok", "failed"}]
    BY <1>1 DEF CallSet
  <2>3. before' \in [Call -> SUBSET Call] /\ startAt' \in [Call -> Nat]
    BY <1>1 DEF CallSet
  <2> QED
    BY <1>1, <2>1, <2>2, <2>3 DEF CallSet
<1>2. ASSUME NEW c \in Call, Reply(c) \/ GiveUp(c)
      PROVE  TypeOK'
  <2>1. flight' \in [Call -> [Attempt -> FlightState]]
    BY <1>2, ReplyFlights DEF GiveUp
  <2>2. pc' \in [Call -> {"idle", "waiting", "ok", "failed"}]
    BY <1>2 DEF Reply, GiveUp
  <2> QED
    BY <1>2, <2>1, <2>2 DEF Reply, GiveUp
<1>3. ASSUME NEW c \in Call, Retry(c)
      PROVE  TypeOK'
  BY <1>3, RetryFlights DEF Retry
<1>4. ASSUME NEW c \in Call, NEW i \in Attempt, ExecMain(c, i)
      PROVE  TypeOK'
  <2>1. main' \in Item
    BY <1>4, Writers
  <2> QED
    BY <1>4, <2>1, Flights DEF ExecMain
<1>5. ASSUME NEW c \in Call, NEW i \in Attempt, ExecStale(c, i)
      PROVE  TypeOK'
  <2>1. stale' \in Item
    BY <1>5, Writers
  <2> QED
    BY <1>5, <2>1, Flights DEF ExecStale
<1>6. ASSUME NEW c \in Call, NEW i \in Attempt, Drop(c, i)
      PROVE  TypeOK'
  BY <1>6, Flights DEF Drop
<1>7. ASSUME NEW r \in Reader, CallGetStale(r)
      PROVE  TypeOK'
  BY <1>7 DEF CallGetStale
<1>8. ASSUME NEW r \in Reader, ReadMain(r)
      PROVE  TypeOK'
  BY <1>8 DEF ReadMain, Return, Live, Item
<1>9. ASSUME NEW r \in Reader, ReadStale(r)
      PROVE  TypeOK'
  BY <1>9 DEF ReadStale, Return, Live, Item
<1>10. CASE Tick
  BY <1>10 DEF Tick
<1>11. CASE UNCHANGED redisVars
  BY <1>11 DEF redisVars
<1> QED
  BY <1>1, <1>2, <1>3, <1>4, <1>5, <1>6, <1>7, <1>8, <1>9, <1>10, <1>11 DEF Next

\* Once over or acknowledged, a call stays so, and what was over before it
\* began is settled when it begins.
LEMMA Settled ==
  ASSUME TypeOK, BeforeOver, [Next]_redisVars, NEW c \in Call
  PROVE  /\ Over(c) => Over(c)'
         /\ Acknowledged(c) => Acknowledged(c)'
         /\ pc[c] # "idle" => before'[c] = before[c] /\ startAt'[c] = startAt[c]
<1> DEFINE Kept == /\ Over(c) => Over(c)'
                   /\ Acknowledged(c) => Acknowledged(c)'
                   /\ pc[c] # "idle" => before'[c] = before[c] /\ startAt'[c] = startAt[c]
<1> USE DEF TypeOK, Over, Acknowledged
<1>1. ASSUME NEW d \in Call, CallSet(d)
      PROVE  Kept
  BY <1>1, CallFlights DEF CallSet
<1>2. ASSUME NEW d \in Call, Reply(d) \/ GiveUp(d)
      PROVE  Kept
  BY <1>2, ReplyFlights DEF Reply, GiveUp
<1>3. ASSUME NEW d \in Call, Retry(d)
      PROVE  Kept
  BY <1>3, RetryFlights DEF Retry
<1>4. ASSUME NEW d \in Call, NEW i \in Attempt, ExecMain(d, i) \/ ExecStale(d, i) \/ Drop(d, i)
      PROVE  Kept
  <2>1. flight[d][i] # "none" /\ UNCHANGED <<ttl, pc, before, startAt>>
    BY <1>4 DEF ExecMain, ExecStale, Drop
  <2>2. \A e \in Call, j \in Attempt : e # d => flight'[e][j] = flight[e][j]
    BY <1>4, Flights
  <2> QED
    BY <2>1, <2>2
<1>5. CASE UNCHANGED <<pc, flight, ttl, before, startAt>>
  BY <1>5
<1> QED
  BY <1>1, <1>2, <1>3, <1>4, <1>5
  DEF Next, CallGetStale, ReadMain, ReadStale, Return, Tick, redisVars

\* Only the executions of the two commands write the keys, and the attempt they
\* belong to is then in flight, so that its call is over for nobody.
LEMMA KeyWrites ==
  ASSUME TypeOK, BeforeOver, [Next]_redisVars
  PROVE  /\ \/ main' = main
            \/ \E d \in Call, i \in Attempt : ExecMain(d, i)
         /\ \/ stale' = stale
            \/ \E d \in Call, i \in Attempt : ExecStale(d, i)
         /\ \A d \in Call, i \in Attempt : flight[d][i] # "none" =>
              /\ pc[d] # "idle"
              /\ \A c \in Call : d \notin before[c]
<1>1. /\ \/ main' = main
         \/ \E d \in Call, i \in Attempt : ExecMain(d, i)
      /\ \/ stale' = stale
         \/ \E d \in Call, i \in Attempt : ExecStale(d, i)
  BY DEF Next, CallSet, Reply, Retry, GiveUp, Drop, ExecMain, ExecStale, CallGetStale,
         ReadMain, ReadStale, Tick, redisVars
<1>2. ASSUME NEW d \in Call, NEW i \in Attempt, flight[d][i] # "none"
      PROVE  pc[d] # "idle" /\ \A c \in Call : d \notin before[c]
  BY <1>2 DEF BeforeOver, Over
<1> QED
  BY <1>1, <1>2

\* How far a call has written grows only by the executions and the reply.
LEMMA WroteStep ==
  ASSUME TypeOK, BeforeOver, [Next]_redisVars, NEW c \in Call
  PROVE  /\ Wrote(c, {"second", "executed"})' =>
              \/ Wrote(c, {"second", "executed"})
              \/ \E i \in Attempt : ExecMain(c, i)
         /\ Wrote(c, {"executed"})' =>
              \/ Wrote(c, {"executed"})
              \/ \E i \in Attempt : ExecStale(c, i)
         /\ Wrote(c, {"second", "executed"})' => pc[c] # "idle"
<1> DEFINE Grows == /\ Wrote(c, {"second", "executed"})' =>
                         \/ Wrote(c, {"second", "executed"})
                         \/ \E i \in Attempt : ExecMain(c, i)
                    /\ Wrote(c, {"executed"})' =>
                         \/ Wrote(c, {"executed"})
                         \/ \E i \in Attempt : ExecStale(c, i)
                    /\ Wrote(c, {"second", "executed"})' => pc[c] # "idle"
<1>0. Wrote(c, {"second", "executed"}) => pc[c] # "idle"
  BY DEF Wrote, Acknowledged, BeforeOver
<1> USE DEF TypeOK, Wrote, Acknowledged
<1>1. ASSUME NEW d \in Call, CallSet(d)
      PROVE  Grows
  BY <1>0, <1>1, CallFlights DEF CallSet, BeforeOver
<1>2. ASSUME NEW d \in Call, Reply(d)
      PROVE  Grows
  BY <1>0, <1>2, ReplyFlights DEF Reply
<1>3. ASSUME NEW d \in Call, Retry(d)
      PROVE  Grows
  BY <1>0, <1>3, RetryFlights DEF Retry
<1>4. ASSUME NEW d \in Call, GiveUp(d)
      PROVE  Grows
  BY <1>0, <1>4 DEF GiveUp
<1>5. ASSUME NEW d \in Call, NEW i \in Attempt, ExecMain(d, i)
      PROVE  Grows
  <2>1. flight[d][i] = "both" /\ pc[d] # "idle" /\ UNCHANGED <<pc, ttl>>
    BY <1>5 DEF ExecMain, BeforeOver
  <2>2. \A e \in Call, j \in Attempt :
          flight'[e][j] = IF e = d /\ j = i THEN "second" ELSE flight[e][j]
    BY <1>5, Flights
  <2>3. CASE c = d
    <3>1. \E j \in Attempt : ExecMain(c, j)
      BY <1>5, <2>3
    <3> QED
      BY <2>1, <2>2, <2>3, <3>1
  <2>4. CASE c # d
    BY <1>0, <2>1, <2>2, <2>4
  <2> QED
    BY <2>3, <2>4
<1>6. ASSUME NEW d \in Call, NEW i \in Attempt, ExecStale(d, i)
      PROVE  Grows
  <2>1. flight[d][i] = "second" /\ pc[d] # "idle" /\ UNCHANGED <<pc, ttl>>
    BY <1>6 DEF ExecStale, BeforeOver
  <2>2. \A e \in Call, j \in Attempt :
          flight'[e][j] = IF e = d /\ j = i THEN "executed" ELSE flight[e][j]
    BY <1>6, Flights
  <2>3. CASE c = d
    <3>1. \E j \in Attempt : ExecStale(c, j)
      BY <1>6, <2>3
    <3> QED
      BY <2>1, <2>2, <2>3, <3>1
  <2>4. CASE c # d
    BY <1>0, <2>1, <2>2, <2>4
  <2> QED
    BY <2>3, <2>4
<1>7. ASSUME NEW d \in Call, NEW i \in Attempt, Drop(d, i)
      PROVE  Grows
  BY <1>0, <1>7, Flights DEF Drop
<1>8. CASE UNCHANGED <<pc, flight, ttl>>
  BY <1>0, <1>8
<1> QED
  BY <1>1, <1>2, <1>3, <1>4, <1>5, <1>6, <1>7, <1>8
  DEF Next, CallGetStale, ReadMain, ReadStale, Return, Tick, redisVars

------------------------------------------------------------------------------
(* One lemma per part of the invariant.                                      *)

LEMMA BeforeOverStep ==
  ASSUME TypeOK, BeforeOver, [Next]_redisVars
  PROVE  BeforeOver'
<1>1. ASSUME NEW c \in Call
      PROVE  /\ pc'[c] = "idle" => \A i \in Attempt : flight'[c][i] = "none"
             /\ \A d \in before'[c] : Over(d)'
             /\ startAt'[c] =< now'
  <2> DEFINE Kept == /\ pc'[c] = "idle" => \A i \in Attempt : flight'[c][i] = "none"
                     /\ \A d \in before'[c] : Over(d)'
                     /\ startAt'[c] =< now'
  <2>0. /\ pc[c] = "idle" => \A i \in Attempt : flight[c][i] = "none"
        /\ \A d \in before[c] : Over(d)
        /\ startAt[c] =< now
        /\ \A d \in Call : Over(d) => Over(d)'
        /\ before[c] \subseteq Call /\ startAt[c] \in Nat /\ now \in Nat
    BY Settled DEF BeforeOver, TypeOK
  <2>1. ASSUME NEW d \in Call, CallSet(d)
        PROVE  Kept
    <3>1. (c # d => pc'[c] = pc[c]) /\ pc'[d] # "idle"
      BY <2>1 DEF CallSet, TypeOK
    <3>2. before'[c] = before[c] \/ before'[c] = {e \in Call : Over(e)}
      BY <2>1 DEF CallSet, TypeOK
    <3>3. (startAt'[c] = startAt[c] \/ startAt'[c] = now) /\ now' = now
      BY <2>1 DEF CallSet, TypeOK
    <3>4. c # d => \A i \in Attempt : flight'[c][i] = flight[c][i]
      BY <2>1, CallFlights
    <3> HIDE DEF Over
    <3> QED
      BY <2>0, <3>1, <3>2, <3>3, <3>4
  <2>2. ASSUME UNCHANGED <<before, startAt>>, now' \in {now, now + 1},
               pc'[c] = "idle" =>
                 pc[c] = "idle" /\ \A i \in Attempt : flight[c][i] = "none" => flight'[c][i] = "none"
        PROVE  Kept
    BY <2>0, <2>2
  <2>3. ASSUME NEW d \in Call, Reply(d)
        PROVE  Kept
    <3>1. pc'[c] = "idle" => pc[c] = "idle" /\ c # d
      BY <2>3 DEF Reply, TypeOK
    <3>2. c # d => \A i \in Attempt : flight'[c][i] = flight[c][i]
      BY <2>3, ReplyFlights
    <3> QED
      BY <2>2, <2>3, <3>1, <3>2 DEF Reply
  <2>4. ASSUME NEW d \in Call, Retry(d)
        PROVE  Kept
    <3>1. pc' = pc /\ pc[d] # "idle"
      BY <2>4 DEF Retry
    <3>2. c # d => \A i \in Attempt : flight'[c][i] = flight[c][i]
      BY <2>4, RetryFlights
    <3> QED
      BY <2>2, <2>4, <3>1, <3>2 DEF Retry
  <2>5. ASSUME NEW d \in Call, GiveUp(d)
        PROVE  Kept
    <3>1. (pc'[c] = "idle" => pc[c] = "idle") /\ flight' = flight
      BY <2>5 DEF GiveUp, TypeOK
    <3> QED
      BY <2>2, <2>5, <3>1 DEF GiveUp
  <2>6. ASSUME NEW d \in Call, NEW i \in Attempt, ExecMain(d, i) \/ ExecStale(d, i) \/ Drop(d, i)
        PROVE  Kept
    <3>1. pc' = pc /\ pc[d] # "idle"
      BY <2>6, KeyWrites DEF ExecMain, ExecStale, Drop
    <3>2. c # d => \A j \in Attempt : flight'[c][j] = flight[c][j]
      BY <2>6, Flights
    <3> QED
      BY <2>2, <2>6, <3>1, <3>2 DEF ExecMain, ExecStale, Drop
  <2>7. CASE UNCHANGED <<before, startAt, pc, flight>> /\ now' \in {now, now + 1}
    BY <2>2, <2>7
  <2> QED
    BY <2>1, <2>3, <2>4, <2>5, <2>6, <2>7
    DEF Next, CallGetStale, ReadMain, ReadStale, Return, Tick, redisVars
<1> QED
  BY <1>1 DEF BeforeOver

\* A command that is executed belongs to a call that is over for nobody, and a
\* call has begun no later than now.
LEMMA KeysFreshStep ==
  ASSUME TypeOK, BeforeOver, KeysFresh, [Next]_redisVars
  PROVE  KeysFresh'
<1>1. ASSUME NEW c \in Call, Wrote(c, {"second", "executed"})'
      PROVE  main' # NoItem /\ main'.by \notin before'[c]
  <2>1. before'[c] = before[c]
    BY <1>1, WroteStep, Settled
  <2>2. ASSUME NEW d \in Call, NEW i \in Attempt, ExecMain(d, i)
        PROVE  main' # NoItem /\ main'.by \notin before[c]
    <3>1. main' # NoItem /\ main'.by = d /\ flight[d][i] # "none"
      BY <2>2, Writers
    <3> QED
      BY <3>1, KeyWrites
  <2>3. CASE ~ \E d \in Call, i \in Attempt : ExecMain(d, i)
    <3>1. main' = main
      BY <2>3, KeyWrites
    <3>2. Wrote(c, {"second", "executed"})
      BY <1>1, <2>3, WroteStep
    <3> QED
      BY <2>1, <3>1, <3>2 DEF KeysFresh
  <2> QED
    BY <2>1, <2>2, <2>3
<1>2. ASSUME NEW c \in Call, Wrote(c, {"executed"})'
      PROVE  /\ stale' # NoItem /\ stale'.by \notin before'[c]
             /\ stale'.expiresAt >= startAt'[c] + ttl'[stale'.by] + StaleBuffer
  <2>0. Wrote(c, {"second", "executed"})'
    BY <1>2 DEF Wrote
  <2>1. before'[c] = before[c] /\ startAt'[c] = startAt[c] /\ ttl' = ttl
    <3>1. ttl' = ttl
      BY DEF Next, CallSet, Reply, Retry, GiveUp, Drop, ExecMain, ExecStale, CallGetStale,
             ReadMain, ReadStale, Tick, redisVars
    <3> QED
      BY <2>0, <3>1, WroteStep, Settled
  <2>2. ASSUME NEW d \in Call, NEW i \in Attempt, ExecStale(d, i)
        PROVE  /\ stale' # NoItem /\ stale'.by \notin before[c]
               /\ stale'.expiresAt >= startAt[c] + ttl[stale'.by] + StaleBuffer
    <3>1. /\ stale' # NoItem /\ stale'.by = d /\ flight[d][i] # "none"
          /\ stale'.expiresAt = now + ttl[d] + StaleBuffer
      BY <2>2, Writers
    <3>2. now \in Nat /\ ttl[d] \in Nat /\ startAt[c] \in Nat /\ startAt[c] =< now
      BY RedisTTLAssumption DEF TypeOK, BeforeOver
    <3>3. now + ttl[d] + StaleBuffer >= startAt[c] + ttl[d] + StaleBuffer
      BY <3>2, RedisBoundsAssumption
    <3> QED
      BY <3>1, <3>3, KeyWrites
  <2>3. CASE ~ \E d \in Call, i \in Attempt : ExecStale(d, i)
    <3>1. stale' = stale
      BY <2>3, KeyWrites
    <3>2. Wrote(c, {"executed"})
      BY <1>2, <2>3, WroteStep
    <3> QED
      BY <2>1, <3>1, <3>2 DEF KeysFresh
  <2> QED
    BY <2>1, <2>2, <2>3
<1> QED
  BY <1>1, <1>2 DEF KeysFresh

LEMMA MainFirstStep ==
  ASSUME TypeOK, BeforeOver, KeysFresh, MainFirst, [Next]_redisVars
  PROVE  MainFirst'
<1> SUFFICES ASSUME stale' # NoItem
             PROVE  main' # NoItem /\ main'.by \notin before'[stale'.by] /\ pc'[stale'.by] # "idle"
  BY DEF MainFirst
<1>0. ASSUME NEW d \in Call, pc[d] # "idle"
      PROVE  before'[d] = before[d] /\ pc'[d] # "idle"
  <2>1. pc'[d] # "idle"
    BY <1>0 DEF Next, CallSet, Reply, Retry, GiveUp, Drop, ExecMain, ExecStale, CallGetStale,
                ReadMain, ReadStale, Tick, redisVars, TypeOK
  <2> QED
    BY <1>0, <2>1, Settled
<1>1. ASSUME NEW d \in Call, NEW i \in Attempt, ExecMain(d, i)
      PROVE  MainFirst'
  <2>1. main' # NoItem /\ main'.by = d /\ flight[d][i] # "none" /\ stale' = stale
    BY <1>1, Writers DEF ExecMain
  <2>3. stale.by \in Call /\ pc[stale.by] # "idle"
    BY <2>1 DEF MainFirst, TypeOK, Item
  <2>4. before'[stale.by] = before[stale.by] /\ pc'[stale.by] # "idle"
    BY <1>0, <2>3
  <2>5. d \notin before[stale.by]
    BY <2>1, <2>3, KeyWrites
  <2> QED
    BY <2>1, <2>4, <2>5 DEF MainFirst
<1>2. ASSUME NEW d \in Call, NEW i \in Attempt, ExecStale(d, i)
      PROVE  MainFirst'
  <2>1. stale'.by = d /\ flight[d][i] = "second" /\ main' = main
    BY <1>2, Writers DEF ExecStale
  <2>2. Wrote(d, {"second", "executed"}) /\ pc[d] # "idle"
    BY <2>1, KeyWrites DEF Wrote
  <2>3. before'[d] = before[d] /\ pc'[d] # "idle"
    BY <1>0, <2>2
  <2> QED
    BY <2>1, <2>2, <2>3 DEF KeysFresh, MainFirst
<1>3. CASE main' = main /\ stale' = stale
  <2>1. stale.by \in Call /\ pc[stale.by] # "idle"
    BY <1>3 DEF MainFirst, TypeOK, Item
  <2>2. before'[stale.by] = before[stale.by] /\ pc'[stale.by] # "idle"
    BY <1>0, <2>1
  <2> QED
    BY <1>3, <2>2 DEF MainFirst
<1> QED
  BY <1>1, <1>2, <1>3, KeyWrites DEF MainFirst

\* The readers' side.
LEMMA ReadersStep ==
  ASSUME TypeOK, BeforeOver, KeysFresh, ReadersBehind, AcknowledgedWins, [Next]_redisVars
  PROVE  ReadersBehind' /\ AcknowledgedWins'
<1> SUFFICES ASSUME NEW r \in Reader
             PROVE  /\ \A d \in outdated'[r] : \E c \in Call : Acknowledged(c)' /\ d \in before'[c]
                    /\ reading'[r] = "idle" => result'[r] = Failure
                    /\ result'[r] \notin outdated'[r]
  BY DEF ReadersBehind, AcknowledgedWins
<1> DEFINE Behind == /\ \A d \in outdated'[r] : \E c \in Call : Acknowledged(c) /\ d \in before[c]
                     /\ reading'[r] = "idle" => result'[r] = Failure
                     /\ result'[r] \notin outdated'[r]
<1>0. ASSUME NEW c \in Call, Acknowledged(c)
      PROVE  /\ Acknowledged(c)' /\ before'[c] = before[c]
             /\ main # NoItem => main.by \notin before[c]
             /\ stale # NoItem => stale.by \notin before[c]
  BY <1>0, Settled DEF Acknowledged, KeysFresh, Wrote
<1>1. /\ \A d \in outdated[r] : \E c \in Call : Acknowledged(c) /\ d \in before[c]
      /\ reading[r] = "idle" => result[r] = Failure
      /\ result[r] \notin outdated[r]
      /\ outdated[r] \subseteq Call
  BY DEF ReadersBehind, AcknowledgedWins, TypeOK
<1>2. main # NoItem => main.by \notin outdated[r]
  BY <1>0, <1>1
<1>3. stale # NoItem => stale.by \notin outdated[r]
  BY <1>0, <1>1
<1>4. Missing \notin outdated[r] /\ Failure \notin Call
  BY <1>1, RedisNamesAssumption
<1>5. ASSUME NEW q \in Reader, CallGetStale(q)
      PROVE  Behind
  <2>1. CASE q = r
    <3>1. /\ outdated'[r] = UNION {before[c] : c \in {d \in Call : Acknowledged(d)}}
          /\ reading[r] = "idle" /\ reading'[r] = "main" /\ result' = result
      BY <1>5, <2>1 DEF CallGetStale, TypeOK
    <3>2. outdated'[r] \subseteq Call
      BY <3>1 DEF TypeOK
    <3>3. \A d \in outdated'[r] : \E c \in Call : Acknowledged(c) /\ d \in before[c]
      BY <3>1
    <3> QED
      BY <1>1, <1>4, <3>1, <3>2, <3>3
  <2>2. CASE q # r
    BY <1>1, <1>5, <2>2 DEF CallGetStale, TypeOK
  <2> QED
    BY <2>1, <2>2
<1>6. ASSUME NEW q \in Reader, ReadMain(q)
      PROVE  Behind
  <2>1. /\ outdated' = outdated
        /\ reading'[r] = "idle" => reading[r] = "idle" /\ result'[r] = result[r]
        /\ result'[r] = result[r] \/ (main # NoItem /\ result'[r] = main.by)
    BY <1>6 DEF ReadMain, Return, Live, TypeOK
  <2> QED
    BY <1>1, <1>2, <2>1
<1>7. ASSUME NEW q \in Reader, ReadStale(q)
      PROVE  Behind
  <2>1. /\ outdated' = outdated
        /\ reading'[r] = "idle" => reading[r] = "idle" /\ result'[r] = result[r]
        /\ \/ result'[r] = result[r]
           \/ stale # NoItem /\ result'[r] = stale.by
           \/ result'[r] \in {Missing, Failure}
    BY <1>7 DEF ReadStale, Return, Live, TypeOK
  <2> QED
    BY <1>1, <1>3, <1>4, <2>1
<1>8. ASSUME UNCHANGED <<outdated, reading, result>>
      PROVE  Behind
  BY <1>1, <1>8
<1>9. Behind
  BY <1>5, <1>6, <1>7, <1>8
  DEF Next, CallSet, Reply, Retry, GiveUp, Drop, ExecMain, ExecStale, Tick, redisVars
<1> QED
  BY <1>0, <1>9

------------------------------------------------------------------------------
(* The results.                                                              *)

\* RedisInv holds in every reachable state: the types, and why the two copies
\* never show what an acknowledged Set has replaced.
THEOREM RedisCorrect == Spec => []RedisInv
<1>1. Init => RedisInv
  <2> SUFFICES ASSUME Init
               PROVE  RedisInv
    OBVIOUS
  <2>1. 1 \in Attempt /\ 0 \in Nat
    BY RedisBoundsAssumption DEF Attempt
  <2>2. TypeOK
    BY <2>1 DEF Init, TypeOK
  <2>3. BeforeOver
    BY DEF Init, BeforeOver
  <2>4. KeysFresh /\ MainFirst
    BY DEF Init, KeysFresh, MainFirst, Wrote, Acknowledged
  <2>5. ReadersBehind /\ AcknowledgedWins
    BY DEF Init, ReadersBehind, AcknowledgedWins
  <2> QED
    BY <2>2, <2>3, <2>4, <2>5 DEF RedisInv
<1>2. RedisInv /\ [Next]_redisVars => RedisInv'
  BY TypeStep, BeforeOverStep, KeysFreshStep, MainFirstStep, ReadersStep DEF RedisInv
<1> QED
  BY <1>1, <1>2, PTL DEF Spec

\* A GetStale begun after a Set was acknowledged returns no document whose own
\* Set was over before that one began (redis.go:45-83).
THEOREM AcknowledgedSetWins == Spec => []AcknowledgedWins
<1>1. RedisInv => AcknowledgedWins
  BY DEF RedisInv
<1> QED
  BY <1>1, RedisCorrect, PTL

\* An acknowledged document under the main key has its copy under the stale
\* one, of the same call or of one that ran at the same time (redis.go:68-83).
THEOREM CopiesAreTogether == Spec => []CopiesTogether
<1>1. RedisInv => CopiesTogether
  <2> SUFFICES ASSUME RedisInv, main # NoItem, Acknowledged(main.by)
               PROVE  stale # NoItem /\ Overlap(main.by, stale.by)
    BY DEF CopiesTogether
  <2>1. main.by \in Call
    BY DEF RedisInv, TypeOK, Item
  <2>2. stale # NoItem /\ stale.by \notin before[main.by]
    BY <2>1 DEF RedisInv, KeysFresh, Wrote
  <2>3. main.by \notin before[stale.by]
    BY <2>2 DEF RedisInv, MainFirst
  <2> QED
    BY <2>2, <2>3 DEF Overlap
<1> QED
  BY <1>1, RedisCorrect, PTL

\* An acknowledged document, or one that replaced it, can be read as stale for its
\* lifetime and the whole buffer after its Set began (Set, redis.go:71-90).
THEOREM StaleIsKept == Spec => []StaleKept
<1>1. RedisInv => StaleKept
  <2> SUFFICES ASSUME RedisInv, NEW c \in Call, Acknowledged(c)
               PROVE  /\ stale # NoItem
                      /\ now =< startAt[c] + ttl[stale.by] + StaleBuffer => Live(stale)
    BY DEF StaleKept
  <2>1. stale # NoItem /\ stale.expiresAt >= startAt[c] + ttl[stale.by] + StaleBuffer
    BY DEF RedisInv, KeysFresh, Wrote
  <2>2. /\ stale.expiresAt \in Nat /\ now \in Nat /\ startAt[c] \in Nat
        /\ ttl[stale.by] \in Nat /\ StaleBuffer \in Nat
    BY <2>1, RedisBoundsAssumption, RedisTTLAssumption DEF RedisInv, TypeOK, Item
  <2>3. now =< startAt[c] + ttl[stale.by] + StaleBuffer => now =< stale.expiresAt
    BY <2>1, <2>2
  <2> QED
    BY <2>1, <2>3 DEF Live
<1> QED
  BY <1>1, RedisCorrect, PTL

==============================================================================
