------------------------------ MODULE GzipWriter ------------------------------
(***************************************************************************)
(* Response compression (internal/api/rest/compress.go): the middleware    *)
(* that takes a gzip.Writer from a pool, the response writer that buffers  *)
(* a body until it is worth compressing, and the reply the client gets,    *)
(* with the status that the logging and metrics wrappers (middleware.go,   *)
(* metrics.go) record on the way.                                          *)
(*                                                                         *)
(* A body is the sequence of chunks its handler writes; a chunk is its     *)
(* request, its number and how often it is compressed.  Sizes are in units *)
(* of which MinSize make the threshold.  Requests run concurrently and     *)
(* meet in the pool only, so an action is a call of one of the wrapper's   *)
(* methods.  The server's writer and gzip.Writer are modelled from their   *)
(* use: the first status or byte sends the header, and what a gzip.Writer  *)
(* was given reaches the target of its last Reset, by Close at the latest. *)
(***************************************************************************)
EXTENDS Integers, Sequences

CONSTANTS
  Request, \* requests, served once each
  Writer,  \* the gzip.Writers the pool ever makes
  Handler, \* what handlers do, a subset of Handlers
  Sizes,   \* sizes of the chunks they write
  MinSize, \* gzipMinSize
  None     \* stands for no status, no encoding, no target and no writer

\* A handler sets a status or leaves that to the server, writes some chunks,
\* and may compress them itself, as promhttp does.
Handlers == [status : Nat \cup {None}, chunks : Nat, encodes : BOOLEAN]

ASSUME HandlerAssumption == Handler \subseteq Handlers
ASSUME SizeAssumption    == Sizes \subseteq Nat /\ MinSize \in Nat
ASSUME NoneAssumption    == None \notin Request \cup Writer \cup Nat \cup {"gzip"}

Chunk == [of : Request, nr : Nat, layers : 0..2]

\* gzipResponseWriter; wroteHeader is status # None.
Wrapper == [gz : Writer \cup {None}, buf : Seq(Chunk), size : Nat,
            status : Nat \cup {None}, compressed : BOOLEAN]

\* What the client gets; header is the Content-Encoding in the header map,
\* encoding the one that was sent, recorded the wrappers' statusCode.
Reply == [header : {None, "gzip"}, status : Nat \cup {None}, encoding : {None, "gzip"},
          body : Seq(Chunk), ended : BOOLEAN, recorded : Nat]

GzipState == [target : Request \cup {None}, pending : Seq(Chunk)]

VARIABLES
  pc,      \* where each request is
  handler, \* what its handler does
  count,   \* how many chunks it has written
  w,       \* its wrapper
  reply,   \* its reply
  gzip,    \* the state of each gzip.Writer
  pool,    \* the idle ones
  made     \* the ones that exist

gzipVars == <<pc, handler, count, w, reply, gzip, pool, made>>

TypeOK ==
  /\ pc \in [Request -> {"idle", "plain", "run", "close", "put", "done"}]
  /\ handler \in [Request -> Handler]
  /\ count \in [Request -> Nat]
  /\ w \in [Request -> Wrapper]
  /\ reply \in [Request -> Reply]
  /\ gzip \in [Writer -> GzipState]
  /\ pool \subseteq Writer
  /\ made \subseteq Writer

Init ==
  /\ pc = [r \in Request |-> "idle"]
  /\ handler \in [Request -> Handler]
  /\ count = [r \in Request |-> 0]
  /\ w = [r \in Request |-> [gz |-> None, buf |-> <<>>, size |-> 0, status |-> None,
                             compressed |-> FALSE]]
  /\ reply = [r \in Request |-> [header |-> None, status |-> None, encoding |-> None,
                                 body |-> <<>>, ended |-> FALSE, recorded |-> 200]]
  /\ gzip = [g \in Writer |-> [target |-> None, pending |-> <<>>]]
  /\ pool = {}
  /\ made = {}

Goto(r, label) == pc' = [pc EXCEPT ![r] = label]

------------------------------------------------------------------------------
(* The writers below the wrapper.                                            *)

\* The server sends the first status, with the header map as it is then.
Send(p, code) ==
  IF p.status # None THEN p ELSE [p EXCEPT !.status = code, !.encoding = p.header]

\* WriteHeader, through the wrappers that record what they pass on.
SendStatus(p, code) == [Send(p, code) EXCEPT !.recorded = code]

\* Write: a body that comes without a status is a 200.
SendBody(p, chunks) == [Send(p, 200) EXCEPT !.body = @ \o chunks]

Compress(chunks) == [i \in DOMAIN chunks |-> [chunks[i] EXCEPT !.layers = @ + 1]]

------------------------------------------------------------------------------
(* GzipMiddleware, and what handlers do.                                     *)

\* The client does not accept gzip: the handler writes to it directly.
ServePlain(r) ==
  /\ pc[r] = "idle"
  /\ Goto(r, "plain")
  /\ UNCHANGED <<handler, count, w, reply, gzip, pool, made>>

\* The pool hands out an idle writer or makes one.
ServeWrapped(r) ==
  /\ pc[r] = "idle"
  /\ \E g \in Writer :
       /\ g \in pool \/ g \notin made
       /\ w' = [w EXCEPT ![r].gz = g]
       /\ pool' = pool \ {g}
       /\ made' = made \cup {g}
  /\ reply' = [reply EXCEPT ![r].header = IF handler[r].encodes THEN "gzip" ELSE None]
  /\ Goto(r, "run")
  /\ UNCHANGED <<handler, count, gzip>>

\* Handlers set their status, if they do, once and before they write.
MustSetStatus(r) == handler[r].status # None /\ w[r].status = None

WriteHeader(r) ==
  /\ pc[r] = "run"
  /\ MustSetStatus(r)
  /\ w' = [w EXCEPT ![r].status = handler[r].status]
  /\ UNCHANGED <<pc, handler, count, reply, gzip, pool, made>>

NextChunk(r) ==
  [of |-> r, nr |-> count[r] + 1, layers |-> IF handler[r].encodes THEN 1 ELSE 0]

Writes(r) ==
  /\ pc[r] = "run"
  /\ ~ MustSetStatus(r)
  /\ count[r] < handler[r].chunks
  /\ count' = [count EXCEPT ![r] = @ + 1]
  /\ UNCHANGED <<pc, handler, pool, made>>

WriteCompressed(r) ==
  /\ Writes(r)
  /\ w[r].compressed
  /\ gzip' = [gzip EXCEPT ![w[r].gz].pending = Append(@, NextChunk(r))]
  /\ UNCHANGED <<w, reply>>

WriteBuffered(r) ==
  /\ Writes(r)
  /\ ~ w[r].compressed
  /\ \E n \in Sizes :
       /\ w[r].size + n < MinSize
       /\ w' = [w EXCEPT ![r] =
            [@ EXCEPT !.buf = Append(w[r].buf, NextChunk(r)), !.size = w[r].size + n]]
  /\ UNCHANGED <<reply, gzip>>

StartCompressionNoReset(r) ==
  /\ Writes(r)
  /\ ~ w[r].compressed
  /\ \E n \in Sizes : w[r].size + n >= MinSize
  /\ w' = [w EXCEPT ![r] = [@ EXCEPT !.compressed = TRUE, !.buf = <<>>, !.size = 0]]
  /\ reply' = LET p == [reply[r] EXCEPT !.header = "gzip"] IN
       [reply EXCEPT ![r] = IF w[r].status # None THEN SendStatus(p, w[r].status) ELSE p]
  /\ gzip' = [gzip EXCEPT ![w[r].gz] =
       [target |-> IF @.target = None THEN r ELSE @.target,
        pending |-> Append(w[r].buf, NextChunk(r))]]

StartCompressionLateHeader(r) ==
  /\ Writes(r)
  /\ ~ w[r].compressed
  /\ \E n \in Sizes : w[r].size + n >= MinSize
  /\ w' = [w EXCEPT ![r] = [@ EXCEPT !.compressed = TRUE, !.buf = <<>>, !.size = 0]]
  /\ reply' = LET p == reply[r] IN
       [reply EXCEPT ![r] =
         [(IF w[r].status # None THEN SendStatus(p, w[r].status) ELSE p)
            EXCEPT !.header = "gzip"]]
  /\ gzip' = [gzip EXCEPT ![w[r].gz] =
       [target |-> r, pending |-> Append(w[r].buf, NextChunk(r))]]

\* The body reaches the threshold.
StartCompression(r) ==
  /\ Writes(r)
  /\ ~ w[r].compressed
  /\ \E n \in Sizes : w[r].size + n >= MinSize
  /\ w' = [w EXCEPT ![r] = [@ EXCEPT !.compressed = TRUE, !.buf = <<>>, !.size = 0]]
  /\ reply' = LET p == [reply[r] EXCEPT !.header = "gzip"] IN
       [reply EXCEPT ![r] = IF w[r].status # None THEN SendStatus(p, w[r].status) ELSE p]
  /\ gzip' = [gzip EXCEPT ![w[r].gz] =
       [target |-> r, pending |-> Append(w[r].buf, NextChunk(r))]]

ReturnAndPut(r) ==
  /\ pc[r] = "run"
  /\ ~ MustSetStatus(r)
  /\ count[r] = handler[r].chunks
  /\ pool' = pool \cup {w[r].gz}
  /\ Goto(r, "close")
  /\ UNCHANGED <<handler, count, w, reply, gzip, made>>

Return(r) ==
  /\ pc[r] = "run"
  /\ ~ MustSetStatus(r)
  /\ count[r] = handler[r].chunks
  /\ Goto(r, "close")
  /\ UNCHANGED <<handler, count, w, reply, gzip, pool, made>>

------------------------------------------------------------------------------
(* The deferred calls: Close, then Put.  Without a status or a body from the *)
(* handler, the server sends its 200.                                        *)

\* gzipWriter.Close writes what is left and the end of the stream.
CloseCompressed(r) ==
  LET g == gzip[w[r].gz] IN
    /\ pc[r] = "close"
    /\ w[r].compressed
    /\ reply' = [reply EXCEPT ![g.target] =
         [SendBody(@, Compress(g.pending)) EXCEPT !.ended = TRUE]]
    /\ gzip' = [gzip EXCEPT ![w[r].gz].pending = <<>>]
    /\ Goto(r, "put")
    /\ UNCHANGED <<handler, count, w, pool, made>>

CloseStatusAfterBody(r) ==
  /\ pc[r] = "close"
  /\ ~ w[r].compressed
  /\ reply' = LET p == SendBody(reply[r], w[r].buf) IN
       [reply EXCEPT ![r] = IF w[r].status # None THEN SendStatus(p, w[r].status) ELSE p]
  /\ Goto(r, "put")
  /\ UNCHANGED <<handler, count, w, gzip, pool, made>>

\* Too small to compress: status and buffer go out as they are.
CloseBuffered(r) ==
  /\ pc[r] = "close"
  /\ ~ w[r].compressed
  /\ reply' = LET p == IF w[r].status # None THEN SendStatus(reply[r], w[r].status)
                       ELSE reply[r] IN
       [reply EXCEPT ![r] = SendBody(p, w[r].buf)]
  /\ Goto(r, "put")
  /\ UNCHANGED <<handler, count, w, gzip, pool, made>>

Put(r) ==
  /\ pc[r] = "put"
  /\ pool' = pool \cup {w[r].gz}
  /\ Goto(r, "done")
  /\ UNCHANGED <<handler, count, w, reply, gzip, made>>

------------------------------------------------------------------------------

Write(r) == WriteCompressed(r) \/ WriteBuffered(r) \/ StartCompression(r)
Close(r) == CloseCompressed(r) \/ CloseBuffered(r)

Next ==
  \E r \in Request :
    \/ ServePlain(r) \/ ServeWrapped(r)
    \/ WriteHeader(r) \/ Write(r) \/ Return(r)
    \/ Close(r) \/ Put(r)

Spec == Init /\ [][Next]_gzipVars

------------------------------------------------------------------------------
(* Properties.                                                               *)

\* A gzip.Writer that is in use is used by one response, and is not idle.
WritersExclusive ==
  \A r \in Request :
    pc[r] \in {"run", "close", "put"} =>
      /\ w[r].gz \in made \ pool
      /\ \A s \in Request \ {r} : pc[s] \in {"run", "close", "put"} => w[s].gz # w[r].gz

ChunksOf(chunks, r) == \A i \in DOMAIN chunks : chunks[i].of = r

\* Nothing of one response reaches the client of another, although they take
\* turns with the gzip.Writers.
OwnBytes == \A r \in Request : ChunksOf(reply[r].body, r)

\* What that rests on: a chunk is kept where only its own request writes, ...
ChunksSeparate ==
  \A r \in Request :
    /\ ChunksOf(w[r].buf, r)
    /\ pc[r] \in {"run", "close"} /\ w[r].compressed =>
         gzip[w[r].gz].target = r /\ ChunksOf(gzip[w[r].gz].pending, r)
    /\ pc[r] = "idle" => ~ w[r].compressed

\* ... and compressed, if at all, on the way from there.
NotYetCompressed(chunks) == \A i \in DOMAIN chunks : chunks[i].layers =< 1

KeptAsWritten ==
  /\ \A r \in Request : NotYetCompressed(w[r].buf)
  /\ \A g \in Writer : NotYetCompressed(gzip[g].pending)

GzipInv == TypeOK /\ WritersExclusive /\ OwnBytes /\ ChunksSeparate /\ KeptAsWritten

\* A client that decodes the reply as its header says gets exactly what the
\* handler wrote, in order and complete, with the handler's status - provided
\* the handler does not compress by itself.
Delivered ==
  \A r \in Request :
    LET p == reply[r] h == handler[r] IN
      pc[r] \in {"put", "done"} /\ ~ h.encodes =>
        /\ p.status = IF h.status # None THEN h.status ELSE 200
        /\ Len(p.body) = h.chunks
        /\ \A i \in 1..Len(p.body) :
             p.body[i] = [of |-> r, nr |-> i, layers |-> IF p.encoding = "gzip" THEN 1 ELSE 0]
        /\ p.ended = (p.encoding = "gzip")

\* The log and the metrics have the status the client got.
RecordedIsSent ==
  \A r \in Request : pc[r] \in {"put", "done"} => reply[r].recorded = reply[r].status

\* The README says that /metrics "exposes Prometheus-compatible metrics": what
\* its handler writes, too, reaches the client compressed as the header says.
DecodesOnce ==
  \A r \in Request :
    pc[r] \in {"put", "done"} =>
      \A i \in DOMAIN reply[r].body :
        reply[r].body[i].layers = IF reply[r].encoding = "gzip" THEN 1 ELSE 0

==============================================================================
