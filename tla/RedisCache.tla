------------------------------ MODULE RedisCache ------------------------------
(***************************************************************************)
(* The Redis cache (internal/cache/redis.go).  Set writes an entry twice,  *)
(* under its key and, to expire a buffer later, under "stale:" and the     *)
(* key.  The two SETs travel in one pipeline, which is not a transaction:  *)
(* Redis reads large values in pieces, so that the commands of others may  *)
(* come between them, and the connection may break after the first.        *)
(* GetStale reads the two keys with two commands.                          *)
(*                                                                         *)
(* One cache key is modelled: calls for different keys share nothing.  A   *)
(* document is named by the call of Set that stores it.  An action is a    *)
(* command that Redis executes, or what a client does between two.         *)
(***************************************************************************)
EXTENDS Integers

CONSTANTS
  Call,        \* calls of Set for the key
  Reader,      \* calls of GetStale for the key
  TTL,         \* lifetimes Set is called with, in clock units
  StaleBuffer, \* redisStaleTTLBuffer
  Tries,       \* bound on the attempts the client library makes per call
  NoItem,      \* stands for a key that was never stored
  Missing,     \* ErrCacheMiss
  Failure,     \* any other error
  MaxTime      \* bound on the clock

Item == [by : Call, expiresAt : Nat]

ASSUME RedisTTLAssumption    == TTL \subseteq Nat
ASSUME RedisBoundsAssumption == StaleBuffer \in Nat /\ Tries \in Nat \ {0} /\ MaxTime \in Nat
ASSUME RedisNamesAssumption  == NoItem \notin Item /\ Missing \notin Call /\ Failure \notin Call

VARIABLES
  main,     \* what Redis holds under the key
  stale,    \* ... and under "stale:" and the key
  now,      \* Redis' clock
  ttl,      \* the lifetime each call asks for
  pc,       \* where each call is
  flight,   \* the pipeline of each attempt: what Redis has still to execute
  attempt,  \* the attempt each call waits for
  reading,  \* where each reader is
  result,   \* what it returned
  before,   \* calls that were over when each call began (history)
  startAt,  \* when it began (history)
  outdated  \* calls whose document no longer counts for a reader (history)

redisVars == <<main, stale, now, ttl, pc, flight, attempt, reading, result, before,
               startAt, outdated>>

Attempt == 1..Tries

TypeOK ==
  /\ main \in Item \cup {NoItem}
  /\ stale \in Item \cup {NoItem}
  /\ now \in Nat
  /\ ttl \in [Call -> TTL]
  /\ pc \in [Call -> {"idle", "waiting", "ok", "failed"}]
  /\ flight \in [Call -> [Attempt -> {"none", "both", "second", "executed"}]]
  /\ attempt \in [Call -> Attempt]
  /\ reading \in [Reader -> {"idle", "main", "stale", "done"}]
  /\ result \in [Reader -> Call \cup {Missing, Failure}]
  /\ before \in [Call -> SUBSET Call]
  /\ startAt \in [Call -> Nat]
  /\ outdated \in [Reader -> SUBSET Call]

Init ==
  /\ main = NoItem /\ stale = NoItem
  /\ now = 0
  /\ ttl \in [Call -> TTL]
  /\ pc = [c \in Call |-> "idle"]
  /\ flight = [c \in Call |-> [i \in Attempt |-> "none"]]
  /\ attempt = [c \in Call |-> 1]
  /\ reading = [r \in Reader |-> "idle"]
  /\ result = [r \in Reader |-> Failure]
  /\ before = [c \in Call |-> {}]
  /\ startAt = [c \in Call |-> 0]
  /\ outdated = [r \in Reader |-> {}]

Live(item) == item # NoItem /\ now =< item.expiresAt

\* Nothing of the call can reach Redis any more.
Over(c) == pc[c] \in {"ok", "failed"} /\ \A i \in Attempt : flight[c][i] = "none"

Acknowledged(c) == pc[c] = "ok" /\ ttl[c] # 0

------------------------------------------------------------------------------
(* Set.                                                                      *)

CallSet(c) ==
  /\ pc[c] = "idle"
  /\ \/ /\ ttl[c] = 0
        /\ pc' = [pc EXCEPT ![c] = "ok"]
        /\ UNCHANGED flight
     \/ /\ ttl[c] # 0
        /\ pc' = [pc EXCEPT ![c] = "waiting"]
        /\ flight' = [flight EXCEPT ![c][1] = "both"]
  /\ before' = [before EXCEPT ![c] = {d \in Call : Over(d)}]
  /\ startAt' = [startAt EXCEPT ![c] = now]
  /\ UNCHANGED <<main, stale, now, ttl, attempt, reading, result, outdated>>

ExecMainOnly(c, i) ==
  /\ flight[c][i] = "both"
  /\ main' = [by |-> c, expiresAt |-> now + ttl[c]]
  /\ flight' = [flight EXCEPT ![c][i] = "executed"]
  /\ UNCHANGED <<stale, now, ttl, pc, attempt, reading, result, before, startAt, outdated>>

\* Redis executes the first SET of the pipeline.
ExecMain(c, i) ==
  /\ flight[c][i] = "both"
  /\ main' = [by |-> c, expiresAt |-> now + ttl[c]]
  /\ flight' = [flight EXCEPT ![c][i] = "second"]
  /\ UNCHANGED <<stale, now, ttl, pc, attempt, reading, result, before, startAt, outdated>>

ExecStaleUnlasting(c, i) ==
  /\ flight[c][i] = "second"
  /\ stale' = [by |-> c, expiresAt |-> now + StaleBuffer]
  /\ flight' = [flight EXCEPT ![c][i] = "executed"]
  /\ UNCHANGED <<main, now, ttl, pc, attempt, reading, result, before, startAt, outdated>>

ExecStaleOnce(c, i) ==
  /\ flight[c][i] = "second"
  /\ stale' = IF Live(stale) THEN stale ELSE [by |-> c, expiresAt |-> now + ttl[c] + StaleBuffer]
  /\ flight' = [flight EXCEPT ![c][i] = "executed"]
  /\ UNCHANGED <<main, now, ttl, pc, attempt, reading, result, before, startAt, outdated>>

\* Redis executes the second.
ExecStale(c, i) ==
  /\ flight[c][i] = "second"
  /\ stale' = [by |-> c, expiresAt |-> now + ttl[c] + StaleBuffer]
  /\ flight' = [flight EXCEPT ![c][i] = "executed"]
  /\ UNCHANGED <<main, now, ttl, pc, attempt, reading, result, before, startAt, outdated>>

\* Both replies arrive and the client still waits for them.
Reply(c) ==
  /\ pc[c] = "waiting"
  /\ flight[c][attempt[c]] = "executed"
  /\ flight' = [flight EXCEPT ![c][attempt[c]] = "none"]
  /\ pc' = [pc EXCEPT ![c] = "ok"]
  /\ UNCHANGED <<main, stale, now, ttl, attempt, reading, result, before, startAt, outdated>>

\* The connection breaks: the rest of the pipeline, or its replies, are lost.
Drop(c, i) ==
  /\ flight[c][i] \in {"both", "second", "executed"}
  /\ flight' = [flight EXCEPT ![c][i] = "none"]
  /\ UNCHANGED <<main, stale, now, ttl, pc, attempt, reading, result, before, startAt, outdated>>

\* After a broken connection or a read timeout the library sends the pipeline
\* again.  Redis may still execute what it received of the earlier one.
Retry(c) ==
  /\ pc[c] = "waiting"
  /\ attempt[c] < Tries
  /\ attempt' = [attempt EXCEPT ![c] = @ + 1]
  /\ flight' = [flight EXCEPT ![c][attempt[c] + 1] = "both"]
  /\ UNCHANGED <<main, stale, now, ttl, pc, reading, result, before, startAt, outdated>>

\* The context ends or the attempts are used up: Exec returns an error.
GiveUp(c) ==
  /\ pc[c] = "waiting"
  /\ pc' = [pc EXCEPT ![c] = "failed"]
  /\ UNCHANGED <<main, stale, now, ttl, flight, attempt, reading, result, before, startAt,
                 outdated>>

------------------------------------------------------------------------------
(* GetStale.                                                                 *)

CallGetStale(r) ==
  /\ reading[r] = "idle"
  /\ reading' = [reading EXCEPT ![r] = "main"]
  /\ outdated' = [outdated EXCEPT ![r] = UNION {before[c] : c \in {d \in Call : Acknowledged(d)}}]
  /\ UNCHANGED <<main, stale, now, ttl, pc, flight, attempt, result, before, startAt>>

Return(r, what) ==
  /\ result' = [result EXCEPT ![r] = what]
  /\ reading' = [reading EXCEPT ![r] = "done"]

\* The main key.  Whatever goes wrong, a missing key or an error, leads on to
\* the stale one.
ReadMain(r) ==
  /\ reading[r] = "main"
  /\ \/ Live(main) /\ Return(r, main.by)
     \/ reading' = [reading EXCEPT ![r] = "stale"] /\ UNCHANGED result
  /\ UNCHANGED <<main, stale, now, ttl, pc, flight, attempt, before, startAt, outdated>>

ReadStaleNil(r) ==
  /\ reading[r] = "stale"
  /\ Return(r, IF Live(stale) THEN stale.by ELSE NoItem)
  /\ UNCHANGED <<main, stale, now, ttl, pc, flight, attempt, before, startAt, outdated>>

\* The stale key, whose absence is the miss that is reported.
ReadStale(r) ==
  /\ reading[r] = "stale"
  /\ \/ Live(stale) /\ Return(r, stale.by)
     \/ ~ Live(stale) /\ Return(r, Missing)
     \/ Return(r, Failure)
  /\ UNCHANGED <<main, stale, now, ttl, pc, flight, attempt, before, startAt, outdated>>

Tick ==
  /\ now < MaxTime
  /\ now' = now + 1
  /\ UNCHANGED <<main, stale, ttl, pc, flight, attempt, reading, result, before, startAt,
                 outdated>>

------------------------------------------------------------------------------

Next ==
  \/ \E c \in Call :
       \/ CallSet(c) \/ Reply(c) \/ Retry(c) \/ GiveUp(c)
       \/ \E i \in Attempt : ExecMain(c, i) \/ ExecStale(c, i) \/ Drop(c, i)
  \/ \E r \in Reader : CallGetStale(r) \/ ReadMain(r) \/ ReadStale(r)
  \/ Tick

Spec == Init /\ [][Next]_redisVars

------------------------------------------------------------------------------
(* Properties.                                                               *)

Overlap(c, d) == c \notin before[d] /\ d \notin before[c]

\* A document under the main key whose Set was acknowledged has a copy under
\* the stale key, written by the same call or by one that ran at the same time.
CopiesTogether ==
  main # NoItem /\ Acknowledged(main.by) =>
    /\ stale # NoItem
    /\ stale.by # main.by => Overlap(main.by, stale.by)

\* GetStale started after a Set was acknowledged never returns a document whose
\* own Set was over before that one began, whichever of the keys it reads.
AcknowledgedWins == \A r \in Reader : result[r] \notin outdated[r]

\* An acknowledged document can be read as stale for its lifetime and the whole
\* buffer after that, both counted from when its Set began - or else one that
\* replaced it can, and for no less than that one's lifetime and the buffer.
StaleKept ==
  \A c \in Call :
    Acknowledged(c) =>
      /\ stale # NoItem
      /\ now =< startAt[c] + ttl[stale.by] + StaleBuffer => Live(stale)

\* Why these hold.  A call that was over when another began writes no more, ...
BeforeOver ==
  /\ \A c \in Call : pc[c] = "idle" => \A i \in Attempt : flight[c][i] = "none"
  /\ \A c \in Call : \A d \in before[c] : Over(d)
  /\ \A c \in Call : startAt[c] =< now

\* ... so it is no writer of what a call finds under a key it has written, ...
Wrote(c, states) == Acknowledged(c) \/ \E i \in Attempt : flight[c][i] \in states

KeysFresh ==
  \A c \in Call :
    /\ Wrote(c, {"second", "executed"}) => main # NoItem /\ main.by \notin before[c]
    /\ Wrote(c, {"executed"}) =>
         /\ stale # NoItem /\ stale.by \notin before[c]
         /\ stale.expiresAt >= startAt[c] + ttl[stale.by] + StaleBuffer

\* ... the stale key is written after the main one, ...
MainFirst ==
  stale # NoItem => /\ main # NoItem /\ main.by \notin before[stale.by]
                    /\ pc[stale.by] # "idle"

\* ... and what no longer counts for a reader was over before an acknowledged
\* call began.
ReadersBehind ==
  \A r \in Reader :
    /\ \A d \in outdated[r] : \E c \in Call : Acknowledged(c) /\ d \in before[c]
    /\ reading[r] = "idle" => result[r] = Failure

RedisInv ==
  TypeOK /\ BeforeOver /\ KeysFresh /\ MainFirst /\ ReadersBehind /\ AcknowledgedWins

==============================================================================
