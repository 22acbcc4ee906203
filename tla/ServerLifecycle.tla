---------------------------- MODULE ServerLifecycle ----------------------------
(***************************************************************************)
(* How the process lives and ends (cmd/tg2rss/main.go, Run and Shutdown in *)
(* internal/api/rest/server.go): the goroutine that receives signals, the  *)
(* main goroutine that sets everything up and waits, the one that listens, *)
(* the request handlers whose contexts derive from the one the first       *)
(* signal cancels, and the background refreshes, which nobody waits for.   *)
(* It begins when signals are handled.                                     *)
(*                                                                         *)
(* net/http's server is modelled from its use: Shutdown closes the         *)
(* listener, waits for the handlers or its context, and keeps a server     *)
(* that is still starting from listening.                                  *)
(***************************************************************************)
EXTENDS Integers

CONSTANTS
  Request,   \* requests, one connection each
  MaxSignals \* bound on the signals the process is sent

ASSUME SignalsAssumption == MaxSignals \in Nat

VARIABLES
  process,   \* "up", or how it exited
  main,      \* where the main goroutine is
  sigChan,   \* signals in the channel, which holds one
  signals,   \* signals sent (history, bounded)
  catcher,   \* the signal goroutine: the signal it waits for
  cancelled, \* ctx.Done() is closed
  server,    \* the listening goroutine and its listener
  errCh,     \* the error it reported
  stopping,  \* the server's Shutdown was called
  request,   \* where each request is
  refresh,   \* where the refresh it started is
  cacheOpen  \* the cache was set up and Close has not been called

lifeVars == <<process, main, sigChan, signals, catcher, cancelled, server, errCh, stopping,
              request, refresh, cacheOpen>>

TypeOK ==
  /\ process \in {"up", "exit0", "exit1"}
  /\ main \in {"filter", "cache", "config", "run", "select", "shutdown", "defer", "end"}
  /\ sigChan \in 0..1
  /\ signals \in 0..MaxSignals
  /\ catcher \in {"first", "second"}
  /\ cancelled \in BOOLEAN
  /\ server \in {"none", "starting", "listening", "closed"}
  /\ errCh \in {"empty", "error"}
  /\ stopping \in BOOLEAN
  /\ request \in [Request -> {"none", "active", "answered", "cancelled", "cut"}]
  /\ refresh \in [Request -> {"none", "active", "ended", "cut"}]
  /\ cacheOpen \in BOOLEAN

Init ==
  /\ process = "up"
  /\ main = "filter"
  /\ sigChan = 0
  /\ signals = 0
  /\ catcher = "first"
  /\ cancelled = FALSE
  /\ server = "none"
  /\ errCh = "empty"
  /\ stopping = FALSE
  /\ request = [r \in Request |-> "none"]
  /\ refresh = [r \in Request |-> "none"]
  /\ cacheOpen = FALSE

Up == process = "up"

\* The end of the process ends everything that still runs in it.
Exit(how) ==
  /\ process' = how
  /\ request' = [r \in Request |-> IF request[r] = "active" THEN "cut" ELSE request[r]]
  /\ refresh' = [r \in Request |-> IF refresh[r] = "active" THEN "cut" ELSE refresh[r]]

------------------------------------------------------------------------------
(* Signals.  A signal finds the channel full and is lost if the one before   *)
(* it has not been received yet.                                             *)

Signal ==
  /\ Up
  /\ signals < MaxSignals
  /\ signals' = signals + 1
  /\ sigChan' = 1
  /\ UNCHANGED <<process, main, catcher, cancelled, server, errCh, stopping, request, refresh,
                 cacheOpen>>

FirstSignal ==
  /\ Up
  /\ catcher = "first" /\ sigChan = 1
  /\ sigChan' = 0
  /\ cancelled' = TRUE
  /\ catcher' = "second"
  /\ UNCHANGED <<process, main, signals, server, errCh, stopping, request, refresh, cacheOpen>>

SecondSignal ==
  /\ Up
  /\ catcher = "second" /\ sigChan = 1
  /\ sigChan' = 0
  /\ Exit("exit1")
  /\ UNCHANGED <<main, signals, catcher, cancelled, server, errCh, stopping, cacheOpen>>

------------------------------------------------------------------------------
(* The main goroutine sets up.                                               *)

\* setupIPFilter; there is no list to parse, or it can be parsed.
SetupIPFilter ==
  /\ Up
  /\ main = "filter"
  /\ main' = "cache"
  /\ UNCHANGED <<process, sigChan, signals, catcher, cancelled, server, errCh, stopping, request,
                 refresh, cacheOpen>>

\* setupCache: in memory, or in a Redis that answers.
SetupCache ==
  /\ Up
  /\ main = "cache"
  /\ cacheOpen' = TRUE
  /\ main' = "config"
  /\ UNCHANGED <<process, sigChan, signals, catcher, cancelled, server, errCh, stopping, request,
                 refresh>>

\* The numbers in the environment, if they are numbers.
SetupConfig ==
  /\ Up
  /\ main = "config"
  /\ main' = "run"
  /\ UNCHANGED <<process, sigChan, signals, catcher, cancelled, server, errCh, stopping, request,
                 refresh, cacheOpen>>

\* Otherwise main exits on the spot: a value cannot be parsed, or Redis does
\* not answer, be it because a signal has cancelled the context by then.
SetupFails ==
  /\ Up
  /\ main \in {"filter", "cache", "config"}
  /\ Exit("exit1")
  /\ UNCHANGED <<main, sigChan, signals, catcher, cancelled, server, errCh, stopping, cacheOpen>>

\* Run starts the listening goroutine, whether the context is done or not.
Run ==
  /\ Up
  /\ main = "run"
  /\ server' = "starting"
  /\ main' = "select"
  /\ UNCHANGED <<process, sigChan, signals, catcher, cancelled, errCh, stopping, request, refresh,
                 cacheOpen>>

------------------------------------------------------------------------------
(* The listening goroutine.                                                  *)

ListenRegardless ==
  /\ Up
  /\ server = "starting"
  /\ server' = "listening"
  /\ UNCHANGED <<process, main, sigChan, signals, catcher, cancelled, errCh, stopping, request,
                 refresh, cacheOpen>>

Listen ==
  /\ Up
  /\ server = "starting"
  /\ server' = IF stopping THEN "closed" ELSE "listening"
  /\ UNCHANGED <<process, main, sigChan, signals, catcher, cancelled, errCh, stopping, request,
                 refresh, cacheOpen>>

\* The port is taken, or accepting connections fails.
ListenFails ==
  /\ Up
  /\ server \in {"starting", "listening"} /\ ~ stopping
  /\ server' = "closed"
  /\ errCh' = "error"
  /\ UNCHANGED <<process, main, sigChan, signals, catcher, cancelled, stopping, request, refresh,
                 cacheOpen>>

------------------------------------------------------------------------------
(* The main goroutine waits: Run's select, Shutdown, the deferred Close.           *)

RunFails ==
  /\ Up
  /\ main = "select" /\ errCh = "error"
  /\ errCh' = "empty"
  /\ Exit("exit1")
  /\ UNCHANGED <<main, sigChan, signals, catcher, cancelled, server, stopping, cacheOpen>>

ContextDone ==
  /\ Up
  /\ main = "select" /\ cancelled
  /\ main' = "shutdown"
  /\ stopping' = TRUE
  /\ server' = IF server = "listening" THEN "closed" ELSE server
  /\ UNCHANGED <<process, sigChan, signals, catcher, cancelled, errCh, request, refresh, cacheOpen>>

ShutdownNoWait ==
  /\ Up
  /\ main = "shutdown"
  /\ main' = "defer"
  /\ UNCHANGED <<process, sigChan, signals, catcher, cancelled, server, errCh, stopping, request,
                 refresh, cacheOpen>>

\* Every handler has returned.
ShutdownDone ==
  /\ Up
  /\ main = "shutdown"
  /\ \A r \in Request : request[r] # "active"
  /\ main' = "defer"
  /\ UNCHANGED <<process, sigChan, signals, catcher, cancelled, server, errCh, stopping, request,
                 refresh, cacheOpen>>

ShutdownTimeoutIgnored ==
  /\ Up
  /\ main = "shutdown"
  /\ UNCHANGED lifeVars

\* Ten seconds are over: main exits through os.Exit, which runs no deferred
\* call.
ShutdownTimeout ==
  /\ Up
  /\ main = "shutdown"
  /\ Exit("exit1")
  /\ UNCHANGED <<main, sigChan, signals, catcher, cancelled, server, errCh, stopping, cacheOpen>>

CloseCache ==
  /\ Up
  /\ main = "defer"
  /\ cacheOpen' = FALSE
  /\ main' = "end"
  /\ UNCHANGED <<process, sigChan, signals, catcher, cancelled, server, errCh, stopping, request,
                 refresh>>

ReturnFromMain ==
  /\ Up
  /\ main = "end"
  /\ Exit("exit0")
  /\ UNCHANGED <<main, sigChan, signals, catcher, cancelled, server, errCh, stopping, cacheOpen>>

------------------------------------------------------------------------------
(* Requests and refreshes.                                                   *)

Begin(r) ==
  /\ Up
  /\ server = "listening"
  /\ request[r] = "none"
  /\ request' = [request EXCEPT ![r] = "active"]
  /\ UNCHANGED <<process, main, sigChan, signals, catcher, cancelled, server, errCh, stopping,
                 refresh, cacheOpen>>

\* Whatever the handler answers by itself; a STALE answer leaves a refresh.
Answer(r) ==
  /\ Up
  /\ request[r] = "active"
  /\ request' = [request EXCEPT ![r] = "answered"]
  /\ refresh' \in {refresh, [refresh EXCEPT ![r] = "active"]}
  /\ UNCHANGED <<process, main, sigChan, signals, catcher, cancelled, server, errCh, stopping,
                 cacheOpen>>

\* BaseContext: the handler's context is cancelled with the process', so its
\* scrape fails and it answers with an error (or what is left in the cache).
Cancel(r) ==
  /\ Up
  /\ request[r] = "active"
  /\ cancelled
  /\ request' = [request EXCEPT ![r] = "cancelled"]
  /\ UNCHANGED <<process, main, sigChan, signals, catcher, cancelled, server, errCh, stopping,
                 refresh, cacheOpen>>

\* Its context is its own; it may store into the cache after Close.
RefreshEnds(r) ==
  /\ Up
  /\ refresh[r] = "active"
  /\ refresh' = [refresh EXCEPT ![r] = "ended"]
  /\ UNCHANGED <<process, main, sigChan, signals, catcher, cancelled, server, errCh, stopping,
                 request, cacheOpen>>

------------------------------------------------------------------------------

Setup == SetupIPFilter \/ SetupCache \/ SetupConfig \/ SetupFails \/ Run

Main == RunFails \/ ContextDone \/ ShutdownDone \/ ShutdownTimeout \/ CloseCache \/ ReturnFromMain

Next ==
  \/ Signal \/ FirstSignal \/ SecondSignal
  \/ Listen \/ ListenFails
  \/ Setup \/ Main
  \/ \E r \in Request : Begin(r) \/ Answer(r) \/ Cancel(r) \/ RefreshEnds(r)

Spec == Init /\ [][Next]_lifeVars

\* The goroutines run, Redis answers or the client's timeout fires, and so does
\* Shutdown's.  Nothing is assumed about signals, the network, clients or how
\* long a handler or refresh takes.
FairSpec ==
  Spec /\ WF_lifeVars(FirstSignal) /\ WF_lifeVars(SecondSignal)
       /\ WF_lifeVars(Setup) /\ WF_lifeVars(Main)

------------------------------------------------------------------------------
(* Properties.                                                               *)

\* No handler begins before the cache is set up, and it is closed only after
\* the last one is done with it, also if the signal comes before the server
\* listens.
HandlersFinishFirst ==
  ~ cacheOpen => \A r \in Request : request[r] # "active"

\* An exit status of zero means what it says: the process was asked to stop,
\* no client was cut off, the cache was closed.
CleanExit ==
  process = "exit0" =>
    /\ signals > 0
    /\ ~ cacheOpen
    /\ \A r \in Request : request[r] # "cut"

\* Why these hold: Run's two phases, and the order in which main passes them.
ShutdownOrder ==
  /\ main \in {"filter", "cache", "config", "run"} <=> server = "none"
  /\ server = "none" => errCh = "empty" /\ \A r \in Request : request[r] # "active"
  /\ stopping <=> main \in {"shutdown", "defer", "end"}
  /\ stopping => cancelled /\ server # "listening"
  /\ main \in {"defer", "end"} => \A r \in Request : request[r] # "active"
  /\ cacheOpen <=> main \notin {"filter", "cache", "end"}

\* Nobody is cut off while the process is up, and status 0 is that of main's
\* return; what was cancelled was signalled.
ExitJustified ==
  /\ cancelled \/ sigChan = 1 => signals > 0
  /\ process \in {"up", "exit0"} => \A r \in Request : request[r] # "cut"
  /\ process = "exit0" => main = "end"

LifeInv == TypeOK /\ ShutdownOrder /\ ExitJustified

\* A signal ends the process, and so does a listener that fails, whenever it
\* comes and however long handlers and refreshes take.
Stops == signals > 0 \/ errCh = "error" ~> process # "up"

==============================================================================
