--------------------------- MODULE GzipWriterProofs ---------------------------
(***************************************************************************)
(* No reply ever holds a byte of another, for any number of requests and   *)
(* writers and whatever the handlers write.  The pool gives a gzip.Writer  *)
(* to one response at a time (WritersExclusive), so what a writer was      *)
(* given since its last Reset belongs to the response that holds it        *)
(* (ChunksSeparate).  And every reply is complete: the client decodes      *)
(* exactly what the handler wrote (Delivered).                             *)
(***************************************************************************)
EXTENDS GzipWriter, SequenceTheorems, TLAPS

------------------------------------------------------------------------------
(* Sequences of chunks.                                                      *)

\* Appending a chunk of r to chunks of r gives chunks of r, and likewise for
\* what is not compressed yet.
LEMMA AppendedChunk ==
  ASSUME NEW s \in Seq(Chunk), NEW c \in Chunk
  PROVE  /\ Append(s, c) \in Seq(Chunk)
         /\ \A r : ChunksOf(s, r) /\ c.of = r => ChunksOf(Append(s, c), r)
         /\ NotYetCompressed(s) /\ c.layers =< 1 => NotYetCompressed(Append(s, c))
<1>1. Append(s, c) \in Seq(Chunk)
  OBVIOUS
<1>2. \A i \in DOMAIN Append(s, c) :
        Append(s, c)[i] = c \/ (i \in DOMAIN s /\ Append(s, c)[i] = s[i])
  OBVIOUS
<1> QED
  BY <1>1, <1>2, Zenon DEF ChunksOf, NotYetCompressed

\* Joining chunks of r with chunks of r gives chunks of r.
LEMMA JoinedChunks ==
  ASSUME NEW s \in Seq(Chunk), NEW t \in Seq(Chunk)
  PROVE  /\ s \o t \in Seq(Chunk)
         /\ \A r : ChunksOf(s, r) /\ ChunksOf(t, r) => ChunksOf(s \o t, r)
<1>1. s \o t \in Seq(Chunk)
  OBVIOUS
<1>2. ASSUME NEW i \in DOMAIN (s \o t)
      PROVE  \/ i \in DOMAIN s /\ (s \o t)[i] = s[i]
             \/ \E j \in DOMAIN t : (s \o t)[i] = t[j]
  <2>1. /\ i \in 1..(Len(s) + Len(t))
        /\ DOMAIN s = 1..Len(s) /\ DOMAIN t = 1..Len(t)
        /\ Len(s) \in Nat /\ Len(t) \in Nat
    BY ConcatProperties
  <2>2. (s \o t)[i] = IF i =< Len(s) THEN s[i] ELSE t[i - Len(s)]
    BY <2>1, ConcatProperties
  <2>3. CASE i =< Len(s)
    BY <2>1, <2>2, <2>3
  <2>4. CASE ~ (i =< Len(s))
    <3>1. i - Len(s) \in DOMAIN t /\ (s \o t)[i] = t[i - Len(s)]
      BY <2>1, <2>2, <2>4
    <3> QED BY <3>1
  <2> QED BY <2>3, <2>4
<1> QED
  BY <1>1, <1>2, Zenon DEF ChunksOf

LEMMA CompressedChunk ==
  ASSUME NEW c \in Chunk, c.layers =< 1
  PROVE  [c EXCEPT !.layers = @ + 1] \in Chunk /\ [c EXCEPT !.layers = @ + 1].of = c.of
BY DEF Chunk

\* Compression leaves every chunk with its request.
LEMMA CompressedChunks ==
  ASSUME NEW s \in Seq(Chunk), NotYetCompressed(s)
  PROVE  /\ Compress(s) \in Seq(Chunk)
         /\ \A r : ChunksOf(s, r) => ChunksOf(Compress(s), r)
<1>1. \A i \in DOMAIN s : s[i] \in Chunk
  OBVIOUS
<1>2. \A i \in DOMAIN s : /\ [s[i] EXCEPT !.layers = @ + 1] \in Chunk
                          /\ [s[i] EXCEPT !.layers = @ + 1].of = s[i].of
  BY <1>1, CompressedChunk DEF NotYetCompressed
<1>3. DOMAIN s = 1..Len(s) /\ Len(s) \in Nat
  OBVIOUS
<1>4. Compress(s) \in [1..Len(s) -> Chunk]
  BY <1>2, <1>3, Zenon DEF Compress
<1>5. Compress(s) \in Seq(Chunk)
  BY <1>3, <1>4, SeqDef, Zenon
<1>6. DOMAIN Compress(s) = DOMAIN s /\ \A i \in DOMAIN s : Compress(s)[i].of = s[i].of
  BY <1>2, Zenon DEF Compress
<1> QED
  BY <1>5, <1>6, Zenon DEF ChunksOf

LEMMA NoChunks ==
  /\ <<>> \in Seq(Chunk)
  /\ \A r : ChunksOf(<<>>, r)
  /\ NotYetCompressed(<<>>)
BY DEF ChunksOf, NotYetCompressed

\* The next chunk is its request's, and at most its handler compressed it.
LEMMA NextChunkTypes ==
  ASSUME TypeOK, NEW r \in Request
  PROVE  NextChunk(r) \in Chunk /\ NextChunk(r).of = r /\ NextChunk(r).layers =< 1
<1>1. count[r] + 1 \in Nat
  BY DEF TypeOK
<1>2. PICK layers \in 0..1 : layers = IF handler[r].encodes THEN 1 ELSE 0
  OBVIOUS
<1>3. NextChunk(r) = [of |-> r, nr |-> count[r] + 1, layers |-> layers]
  BY <1>2 DEF NextChunk
<1> QED
  BY <1>1, <1>3 DEF Chunk

\* A reply with another body is a reply.
LEMMA BodyReplaced ==
  ASSUME NEW p \in Reply, NEW body \in Seq(Chunk)
  PROVE  [p EXCEPT !.body = body] \in Reply /\ [p EXCEPT !.body = body].body = body
<1> DEFINE Bodies == Seq(Chunk)
<1>1. /\ Reply = [header : {None, "gzip"}, status : Nat \cup {None}, encoding : {None, "gzip"},
                  body : Bodies, ended : BOOLEAN, recorded : Nat]
      /\ body \in Bodies
  BY DEF Reply
<1> HIDE DEF Bodies
<1> QED
  BY <1>1

\* The writers below change the body by what they are given only.
LEMMA ReplyTypes ==
  ASSUME NEW p \in Reply, NEW code \in Nat, NEW s \in Seq(Chunk)
  PROVE  /\ SendStatus(p, code) \in Reply /\ SendStatus(p, code).body = p.body
         /\ SendBody(p, s) \in Reply /\ SendBody(p, s).body = p.body \o s
<1>1. Send(p, code) \in Reply /\ Send(p, code).body = p.body
  BY DEF Send, Reply
<1>2. SendStatus(p, code) \in Reply /\ SendStatus(p, code).body = p.body
  BY <1>1 DEF SendStatus, Reply
<1>3. Send(p, 200) \in Reply /\ Send(p, 200).body = p.body
  BY DEF Send, Reply
<1>4. SendBody(p, s) \in Reply /\ SendBody(p, s).body = p.body \o s
  <2>1. p.body \in Seq(Chunk)
    BY DEF Reply
  <2>2. p.body \o s \in Seq(Chunk)
    BY <2>1, JoinedChunks
  <2>3. PICK q \in Reply : q = Send(p, 200) /\ q.body = p.body
    BY <1>3
  <2>4. PICK body \in Seq(Chunk) : body = p.body \o s
    BY <2>2
  <2>5. SendBody(p, s) = [q EXCEPT !.body = body]
    BY <2>3, <2>4 DEF SendBody
  <2>6. [q EXCEPT !.body = body] \in Reply /\ [q EXCEPT !.body = body].body = body
    BY BodyReplaced
  <2> QED BY <2>4, <2>5, <2>6
<1> QED BY <1>2, <1>4

------------------------------------------------------------------------------
(* Types, with what they rest on where chunks are compressed.                *)

TypesInv == TypeOK /\ KeptAsWritten

\* A response that is under way has a writer.
LEMMA Holds ==
  ASSUME GzipInv, NEW r \in Request, pc[r] \in {"run", "close", "put"}
  PROVE  w[r].gz \in Writer
BY DEF GzipInv, TypeOK, WritersExclusive

LEMMA ServeWrappedTypes ==
  ASSUME GzipInv, NEW r \in Request, ServeWrapped(r)
  PROVE  TypesInv'
<1> USE DEF GzipInv, Goto
<1>1. PICK g \in Writer :
        w' = [w EXCEPT ![r].gz = g] /\ pool' = pool \ {g} /\ made' = made \cup {g}
  BY DEF ServeWrapped
<1>2. PICK header \in {None, "gzip"} : reply' = [reply EXCEPT ![r].header = header]
  BY DEF ServeWrapped
<1>3. /\ pc' = [pc EXCEPT ![r] = "run"]
      /\ gzip' = gzip /\ handler' = handler /\ count' = count
  BY DEF ServeWrapped
<1>4. [w[r] EXCEPT !.gz = g] \in Wrapper /\ [w[r] EXCEPT !.gz = g].buf = w[r].buf
  BY DEF TypeOK, Wrapper
<1>5. [reply[r] EXCEPT !.header = header] \in Reply
  BY DEF TypeOK, Reply
<1>6. TypeOK'
  BY <1>1, <1>2, <1>3, <1>4, <1>5 DEF TypeOK
<1>7. \A q \in Request : w'[q].buf = w[q].buf
  BY <1>1, <1>4 DEF TypeOK
<1> QED
  BY <1>3, <1>6, <1>7 DEF KeptAsWritten, TypesInv

LEMMA WriteHeaderTypes ==
  ASSUME GzipInv, NEW r \in Request, WriteHeader(r)
  PROVE  TypesInv'
<1> USE DEF GzipInv
<1>1. /\ w' = [w EXCEPT ![r].status = handler[r].status]
      /\ pc' = pc /\ reply' = reply /\ gzip' = gzip /\ handler' = handler
      /\ count' = count /\ pool' = pool /\ made' = made
  BY DEF WriteHeader
<1>2. handler[r].status \in Nat \cup {None}
  BY HandlerAssumption DEF TypeOK, Handlers
<1>3. /\ [w[r] EXCEPT !.status = handler[r].status] \in Wrapper
      /\ [w[r] EXCEPT !.status = handler[r].status].buf = w[r].buf
  BY <1>2 DEF TypeOK, Wrapper
<1>4. TypeOK'
  BY <1>1, <1>3 DEF TypeOK
<1>5. \A q \in Request : w'[q].buf = w[q].buf
  BY <1>1, <1>3 DEF TypeOK
<1> QED
  BY <1>1, <1>4, <1>5 DEF KeptAsWritten, TypesInv

\* What a write leaves in the wrapper and in the writer, of which it changes
\* one: w'[r] and gzip'[g].
LEMMA WriteTypes ==
  ASSUME GzipInv, NEW r \in Request, Writes(r), NEW g \in Writer,
         NEW x \in Wrapper, NotYetCompressed(x.buf), w' = [w EXCEPT ![r] = x],
         NEW y \in GzipState, NotYetCompressed(y.pending), gzip' = [gzip EXCEPT ![g] = y],
         reply' \in [Request -> Reply]
  PROVE  TypesInv'
<1> USE DEF GzipInv
<1>1. /\ pc' = pc /\ handler' = handler /\ pool' = pool /\ made' = made
      /\ count' \in [Request -> Nat]
  BY DEF Writes, TypeOK
<1>2. TypeOK'
  BY <1>1 DEF TypeOK
<1>3. \A q \in Request : NotYetCompressed(w'[q].buf)
  BY DEF KeptAsWritten, TypeOK
<1>4. \A h \in Writer : NotYetCompressed(gzip'[h].pending)
  BY DEF KeptAsWritten, TypeOK
<1> QED
  BY <1>2, <1>3, <1>4, Zenon DEF KeptAsWritten, TypesInv

LEMMA Unwritten ==
  ASSUME GzipInv, NEW r \in Request, NEW g \in Writer
  PROVE  /\ w[r] \in Wrapper /\ NotYetCompressed(w[r].buf) /\ w[r].buf \in Seq(Chunk)
         /\ w = [w EXCEPT ![r] = w[r]]
         /\ gzip[g] \in GzipState /\ NotYetCompressed(gzip[g].pending)
         /\ gzip[g].pending \in Seq(Chunk)
         /\ gzip = [gzip EXCEPT ![g] = gzip[g]]
         /\ reply \in [Request -> Reply]
BY DEF GzipInv, TypeOK, KeptAsWritten, Wrapper, GzipState

LEMMA WriteCompressedTypes ==
  ASSUME GzipInv, NEW r \in Request, WriteCompressed(r)
  PROVE  TypesInv'
<1>1. Writes(r) /\ w' = w /\ reply' = reply /\ pc[r] = "run"
  BY DEF WriteCompressed, Writes
<1>2. PICK g \in Writer : g = w[r].gz
  BY <1>1, Holds
<1>3. PICK c \in Chunk : c = NextChunk(r) /\ c.layers =< 1
  BY NextChunkTypes DEF GzipInv
<1>4. PICK pending \in Seq(Chunk) :
        pending = Append(gzip[g].pending, c) /\ NotYetCompressed(pending)
  BY <1>3, Unwritten, AppendedChunk
<1>5. gzip' = [gzip EXCEPT ![g] = [gzip[g] EXCEPT !.pending = pending]]
  BY <1>2, <1>3, <1>4 DEF WriteCompressed
<1>6. /\ [gzip[g] EXCEPT !.pending = pending] \in GzipState
      /\ [gzip[g] EXCEPT !.pending = pending].pending = pending
  BY Unwritten DEF GzipState
<1> QED
  BY <1>1, <1>4, <1>5, <1>6, Unwritten, WriteTypes

LEMMA WriteBufferedTypes ==
  ASSUME GzipInv, NEW r \in Request, WriteBuffered(r)
  PROVE  TypesInv'
<1>1. Writes(r) /\ gzip' = gzip /\ reply' = reply /\ pc[r] = "run"
  BY DEF WriteBuffered, Writes
<1>2. PICK g \in Writer : g = w[r].gz
  BY <1>1, Holds
<1>3. PICK c \in Chunk : c = NextChunk(r) /\ c.layers =< 1
  BY NextChunkTypes DEF GzipInv
<1>4. PICK buf \in Seq(Chunk) : buf = Append(w[r].buf, c) /\ NotYetCompressed(buf)
  BY <1>2, <1>3, Unwritten, AppendedChunk
<1>5. PICK n \in Sizes :
        w' = [w EXCEPT ![r] =
          [@ EXCEPT !.buf = Append(w[r].buf, NextChunk(r)), !.size = w[r].size + n]]
  BY DEF WriteBuffered
<1>6. PICK size \in Nat : size = w[r].size + n
  BY SizeAssumption DEF GzipInv, TypeOK, Wrapper
<1>7. w' = [w EXCEPT ![r] = [w[r] EXCEPT !.buf = buf, !.size = size]]
  BY <1>3, <1>4, <1>5, <1>6
<1>8. /\ [w[r] EXCEPT !.buf = buf, !.size = size] \in Wrapper
      /\ [w[r] EXCEPT !.buf = buf, !.size = size].buf = buf
  BY <1>2, Unwritten DEF Wrapper
<1>9. PICK x \in Wrapper : NotYetCompressed(x.buf) /\ w' = [w EXCEPT ![r] = x]
  BY <1>4, <1>7, <1>8
<1>10. PICK y \in GzipState :
         NotYetCompressed(y.pending) /\ gzip' = [gzip EXCEPT ![g] = y]
  BY <1>1, Unwritten
<1> QED
  BY <1>1, <1>9, <1>10, Unwritten, WriteTypes

LEMMA StartCompressionTypes ==
  ASSUME GzipInv, NEW r \in Request, StartCompression(r)
  PROVE  /\ TypesInv'
         /\ \A q \in Request : reply'[q].body = reply[q].body
<1>1. Writes(r) /\ pc[r] = "run"
  BY DEF StartCompression, Writes
<1>2. PICK g \in Writer : g = w[r].gz
  BY <1>1, Holds
<1>3. PICK c \in Chunk : c = NextChunk(r) /\ c.layers =< 1
  BY NextChunkTypes DEF GzipInv
<1>4. PICK pending \in Seq(Chunk) :
        pending = Append(w[r].buf, c) /\ NotYetCompressed(pending)
  BY <1>2, <1>3, Unwritten, AppendedChunk
<1>5. gzip' = [gzip EXCEPT ![g] = [target |-> r, pending |-> pending]]
  BY <1>2, <1>3, <1>4 DEF StartCompression
<1>6. [target |-> r, pending |-> pending] \in GzipState
  BY DEF GzipState
<1>7. w' = [w EXCEPT ![r] = [w[r] EXCEPT !.compressed = TRUE, !.buf = <<>>, !.size = 0]]
  BY DEF StartCompression
<1>8. /\ [w[r] EXCEPT !.compressed = TRUE, !.buf = <<>>, !.size = 0] \in Wrapper
      /\ [w[r] EXCEPT !.compressed = TRUE, !.buf = <<>>, !.size = 0].buf = <<>>
  BY <1>2, Unwritten, NoChunks DEF Wrapper
<1>9. PICK p \in Reply : p = [reply[r] EXCEPT !.header = "gzip"] /\ p.body = reply[r].body
  <2>1. reply[r] \in Reply
    BY DEF GzipInv, TypeOK
  <2>2. /\ [reply[r] EXCEPT !.header = "gzip"] \in Reply
        /\ [reply[r] EXCEPT !.header = "gzip"].body = reply[r].body
    BY <2>1 DEF Reply
  <2> QED BY <2>2
<1>10. PICK p2 \in Reply : reply' = [reply EXCEPT ![r] = p2] /\ p2.body = reply[r].body
  <2>1. CASE w[r].status # None
    <3>1. w[r].status \in Nat
      BY <2>1 DEF GzipInv, TypeOK, Wrapper
    <3>2. SendStatus(p, w[r].status) \in Reply /\ SendStatus(p, w[r].status).body = p.body
      BY <3>1, NoChunks, ReplyTypes
    <3> QED
      BY <1>9, <2>1, <3>2 DEF StartCompression
  <2>2. CASE w[r].status = None
    BY <1>9, <2>2 DEF StartCompression
  <2> QED BY <2>1, <2>2
<1>11. reply' \in [Request -> Reply] /\ \A q \in Request : reply'[q].body = reply[q].body
  BY <1>10 DEF GzipInv, TypeOK
<1>12. TypesInv'
  BY <1>1, <1>4, <1>5, <1>6, <1>7, <1>8, <1>11, NoChunks, WriteTypes
<1> QED BY <1>11, <1>12

\* What the end of a response leaves: gzip'[g] and the reply to target.
LEMMA CloseTypes ==
  ASSUME GzipInv, NEW r \in Request, NEW target \in Request, NEW p \in Reply,
         reply' = [reply EXCEPT ![target] = p], pc' = [pc EXCEPT ![r] = "put"],
         NEW g \in Writer, NEW y \in GzipState, NotYetCompressed(y.pending),
         gzip' = [gzip EXCEPT ![g] = y],
         handler' = handler, count' = count, w' = w, pool' = pool, made' = made
  PROVE  TypesInv'
<1> USE DEF GzipInv
<1>1. TypeOK'
  BY DEF TypeOK
<1>2. \A h \in Writer : NotYetCompressed(gzip'[h].pending)
  BY DEF KeptAsWritten, TypeOK
<1> QED
  BY <1>1, <1>2, Zenon DEF KeptAsWritten, TypesInv

LEMMA CloseCompressedTypes ==
  ASSUME GzipInv, NEW r \in Request, CloseCompressed(r)
  PROVE  /\ TypesInv'
         /\ \A q \in Request : ChunksOf(reply'[q].body, q)
<1>1. /\ pc[r] = "close" /\ w[r].compressed /\ pc' = [pc EXCEPT ![r] = "put"]
      /\ handler' = handler /\ count' = count /\ w' = w /\ pool' = pool /\ made' = made
  BY DEF CloseCompressed, Goto
<1>2. PICK g \in Writer : g = w[r].gz
  BY <1>1, Holds
<1>3. PICK pending \in Seq(Chunk) :
        /\ pending = gzip[g].pending /\ NotYetCompressed(pending)
        /\ gzip[g].target = r /\ ChunksOf(pending, r)
  BY <1>1, <1>2, Unwritten, Zenon DEF GzipInv, ChunksSeparate
<1>4. PICK sent \in Seq(Chunk) : sent = Compress(pending) /\ ChunksOf(sent, r)
  BY <1>3, CompressedChunks
<1>5. reply[r] \in Reply /\ reply[r].body \in Seq(Chunk) /\ ChunksOf(reply[r].body, r)
  BY DEF GzipInv, TypeOK, Reply, OwnBytes
<1>6. PICK p \in Reply :
        p = SendBody(reply[r], sent) /\ p.body = reply[r].body \o sent
  BY <1>5, ReplyTypes, 200 \in Nat
<1>7. PICK p2 \in Reply : p2 = [p EXCEPT !.ended = TRUE] /\ p2.body = p.body
  <2>1. [p EXCEPT !.ended = TRUE] \in Reply /\ [p EXCEPT !.ended = TRUE].body = p.body
    BY DEF Reply
  <2> QED BY <2>1
<1>8. reply' = [reply EXCEPT ![r] = p2]
  BY <1>2, <1>3, <1>4, <1>6, <1>7 DEF CloseCompressed
<1>9. ChunksOf(p2.body, r)
  BY <1>4, <1>5, <1>6, <1>7, JoinedChunks
<1>10. \A q \in Request : ChunksOf(reply'[q].body, q)
  BY <1>8, <1>9 DEF GzipInv, TypeOK, OwnBytes
<1>11. PICK y \in GzipState :
         NotYetCompressed(y.pending) /\ gzip' = [gzip EXCEPT ![g] = y]
  <2>1. /\ [gzip[g] EXCEPT !.pending = <<>>] \in GzipState
        /\ [gzip[g] EXCEPT !.pending = <<>>].pending = <<>>
    BY Unwritten, NoChunks DEF GzipState
  <2>2. gzip' = [gzip EXCEPT ![g] = [gzip[g] EXCEPT !.pending = <<>>]]
    BY <1>2 DEF CloseCompressed
  <2> QED BY <2>1, <2>2, NoChunks
<1> QED
  BY <1>1, <1>8, <1>10, <1>11, CloseTypes

LEMMA CloseBufferedTypes ==
  ASSUME GzipInv, NEW r \in Request, CloseBuffered(r)
  PROVE  /\ TypesInv'
         /\ \A q \in Request : ChunksOf(reply'[q].body, q)
<1>1. /\ pc[r] = "close" /\ ~ w[r].compressed /\ pc' = [pc EXCEPT ![r] = "put"]
      /\ handler' = handler /\ count' = count /\ w' = w /\ pool' = pool /\ made' = made
      /\ gzip' = gzip
  BY DEF CloseBuffered, Goto
<1>2. PICK g \in Writer : g = w[r].gz
  BY <1>1, Holds
<1>3. PICK buf \in Seq(Chunk) : buf = w[r].buf /\ ChunksOf(buf, r)
  BY <1>2, Unwritten DEF GzipInv, ChunksSeparate
<1>4. reply[r] \in Reply /\ reply[r].body \in Seq(Chunk) /\ ChunksOf(reply[r].body, r)
  BY DEF GzipInv, TypeOK, Reply, OwnBytes
<1>5. PICK p \in Reply :
        /\ p = IF w[r].status # None THEN SendStatus(reply[r], w[r].status) ELSE reply[r]
        /\ p.body = reply[r].body
  <2>1. CASE w[r].status # None
    <3>1. w[r].status \in Nat
      BY <2>1 DEF GzipInv, TypeOK, Wrapper
    <3> QED BY <1>4, <2>1, <3>1, NoChunks, ReplyTypes
  <2>2. CASE w[r].status = None
    BY <1>4, <2>2
  <2> QED BY <2>1, <2>2
<1>6. PICK p2 \in Reply : p2 = SendBody(p, buf) /\ p2.body = p.body \o buf
  BY ReplyTypes, 200 \in Nat
<1>7. reply' = [reply EXCEPT ![r] = p2]
  BY <1>3, <1>5, <1>6 DEF CloseBuffered
<1>8. ChunksOf(p2.body, r)
  BY <1>3, <1>4, <1>5, <1>6, JoinedChunks
<1>9. \A q \in Request : ChunksOf(reply'[q].body, q)
  BY <1>7, <1>8 DEF GzipInv, TypeOK, OwnBytes
<1>10. PICK y \in GzipState :
         NotYetCompressed(y.pending) /\ gzip' = [gzip EXCEPT ![g] = y]
  BY <1>1, Unwritten
<1> QED
  BY <1>1, <1>7, <1>9, <1>10, CloseTypes

\* Every step keeps the types.
LEMMA TypesStep ==
  ASSUME GzipInv, [Next]_gzipVars
  PROVE  TypesInv'
<1> USE DEF GzipInv
<1>1. ASSUME NEW r \in Request, ServePlain(r) \/ Return(r)
      PROVE  TypesInv'
  BY <1>1 DEF ServePlain, Return, Goto, TypeOK, KeptAsWritten, TypesInv
<1>2. ASSUME NEW r \in Request, Put(r)
      PROVE  TypesInv'
  <2>1. pc[r] = "put" /\ w[r].gz \in Writer
    BY <1>2, Holds DEF Put
  <2> QED
    BY <1>2, <2>1 DEF Put, Goto, TypeOK, KeptAsWritten, TypesInv
<1>3. CASE UNCHANGED gzipVars
  BY <1>3 DEF gzipVars, TypeOK, KeptAsWritten, TypesInv
<1> QED
  BY <1>1, <1>2, <1>3, ServeWrappedTypes, WriteHeaderTypes, WriteCompressedTypes,
     WriteBufferedTypes, StartCompressionTypes, CloseCompressedTypes, CloseBufferedTypes
     DEF Next, Write, Close

------------------------------------------------------------------------------
(* Who holds which writer.                                                   *)

\* A step that gives nobody a writer, takes none out of the pool and moves
\* nobody into the wrapped part of the middleware.
LEMMA ExclusiveKept ==
  ASSUME GzipInv, TypeOK', pool' = pool, made' = made,
         \A r \in Request : w'[r].gz = w[r].gz,
         \A r \in Request : pc'[r] \in {"run", "close", "put"} => pc[r] \in {"run", "close", "put"}
  PROVE  WritersExclusive'
BY DEF GzipInv, WritersExclusive

\* Get gives a writer that is idle or new, Put comes after the last use.
LEMMA ExclusiveStep ==
  ASSUME GzipInv, TypeOK', [Next]_gzipVars
  PROVE  WritersExclusive'
<1> USE DEF GzipInv
<1>1. ASSUME NEW r \in Request, ServePlain(r)
      PROVE  WritersExclusive'
  <2>1. pc' = [pc EXCEPT ![r] = "plain"] /\ w' = w /\ pool' = pool /\ made' = made
    BY <1>1 DEF ServePlain, Goto
  <2>2. \A q \in Request : pc'[q] = IF q = r THEN "plain" ELSE pc[q]
    BY <2>1 DEF TypeOK
  <2> QED BY <2>1, <2>2, ExclusiveKept
<1>2. ASSUME NEW r \in Request, ServeWrapped(r)
      PROVE  WritersExclusive'
  <2>1. PICK g \in Writer : /\ g \in pool \/ g \notin made
                            /\ w' = [w EXCEPT ![r].gz = g]
                            /\ pool' = pool \ {g}
                            /\ made' = made \cup {g}
    BY <1>2 DEF ServeWrapped
  <2>2. pc' = [pc EXCEPT ![r] = "run"]
    BY <1>2 DEF ServeWrapped, Goto
  <2>3. /\ w'[r].gz = g /\ pc'[r] = "run"
        /\ \A q \in Request \ {r} : w'[q].gz = w[q].gz /\ pc'[q] = pc[q]
    BY <2>1, <2>2 DEF TypeOK, Wrapper
  <2>4. \A q \in Request \ {r} : pc[q] \in {"run", "close", "put"} =>
          w[q].gz \in made \ pool /\ w[q].gz # g
    BY <2>1 DEF WritersExclusive
  <2> QED BY <2>1, <2>3, <2>4 DEF WritersExclusive
<1>3. ASSUME NEW r \in Request, WriteHeader(r)
      PROVE  WritersExclusive'
  <2>1. w' = [w EXCEPT ![r].status = handler[r].status]
        /\ pc' = pc /\ pool' = pool /\ made' = made
    BY <1>3 DEF WriteHeader
  <2>2. \A q \in Request : w'[q].gz = w[q].gz
    BY <2>1 DEF TypeOK, Wrapper
  <2> QED BY <2>1, <2>2, ExclusiveKept
<1>4. ASSUME NEW r \in Request, Write(r)
      PROVE  WritersExclusive'
  <2>1. pc' = pc /\ pool' = pool /\ made' = made
    BY <1>4 DEF Write, WriteCompressed, WriteBuffered, StartCompression, Writes
  <2>2. \A q \in Request : w'[q].gz = w[q].gz
    <3>1. CASE WriteCompressed(r)
      BY <3>1 DEF WriteCompressed
    <3>2. CASE WriteBuffered(r)
      BY <3>2 DEF WriteBuffered, TypeOK, Wrapper
    <3>3. CASE StartCompression(r)
      BY <3>3 DEF StartCompression, TypeOK, Wrapper
    <3> QED BY <1>4, <3>1, <3>2, <3>3 DEF Write
  <2> QED BY <2>1, <2>2, ExclusiveKept
<1>5. ASSUME NEW r \in Request, Return(r)
      PROVE  WritersExclusive'
  <2>1. /\ pc[r] = "run" /\ pc' = [pc EXCEPT ![r] = "close"]
        /\ w' = w /\ pool' = pool /\ made' = made
    BY <1>5 DEF Return, Goto
  <2>2. \A q \in Request : pc'[q] = IF q = r THEN "close" ELSE pc[q]
    BY <2>1 DEF TypeOK
  <2> QED BY <2>1, <2>2, ExclusiveKept
<1>6. ASSUME NEW r \in Request, Close(r)
      PROVE  WritersExclusive'
  <2>1. /\ pc[r] = "close" /\ pc' = [pc EXCEPT ![r] = "put"]
        /\ w' = w /\ pool' = pool /\ made' = made
    BY <1>6 DEF Close, CloseCompressed, CloseBuffered, Goto
  <2>2. \A q \in Request : pc'[q] = IF q = r THEN "put" ELSE pc[q]
    BY <2>1 DEF TypeOK
  <2> QED BY <2>1, <2>2, ExclusiveKept
<1>7. ASSUME NEW r \in Request, Put(r)
      PROVE  WritersExclusive'
  <2>1. /\ pc[r] = "put" /\ pc' = [pc EXCEPT ![r] = "done"]
        /\ w' = w /\ pool' = pool \cup {w[r].gz} /\ made' = made
    BY <1>7 DEF Put, Goto
  <2>2. \A q \in Request : pc'[q] = IF q = r THEN "done" ELSE pc[q]
    BY <2>1 DEF TypeOK
  <2> QED BY <2>1, <2>2 DEF WritersExclusive
<1>8. CASE UNCHANGED gzipVars
  BY <1>8, ExclusiveKept DEF gzipVars
<1> QED
  BY <1>1, <1>2, <1>3, <1>4, <1>5, <1>6, <1>7, <1>8 DEF Next

------------------------------------------------------------------------------
(* Whose bytes are where.                                                    *)

LEMMA OwnBytesStep ==
  ASSUME GzipInv, [Next]_gzipVars
  PROVE  OwnBytes'
<1> SUFFICES \A q \in Request : ChunksOf(reply'[q].body, q)
  BY DEF OwnBytes
<1> USE DEF GzipInv
<1>1. ASSUME NEW r \in Request, ServeWrapped(r)
      PROVE  \A q \in Request : reply'[q].body = reply[q].body
  BY <1>1 DEF ServeWrapped, TypeOK, Reply
<1>2. ASSUME reply' = reply
      PROVE  \A q \in Request : reply'[q].body = reply[q].body
  BY <1>2
<1>3. ASSUME \A q \in Request : reply'[q].body = reply[q].body
      PROVE  \A q \in Request : ChunksOf(reply'[q].body, q)
  BY <1>3 DEF OwnBytes
<1>4. ASSUME NEW r \in Request, Write(r)
      PROVE  \A q \in Request : ChunksOf(reply'[q].body, q)
  BY <1>2, <1>3, <1>4, StartCompressionTypes DEF Write, WriteCompressed, WriteBuffered
<1>5. ASSUME NEW r \in Request, ServePlain(r) \/ WriteHeader(r) \/ Return(r) \/ Put(r)
      PROVE  reply' = reply
  BY <1>5 DEF ServePlain, WriteHeader, Return, Put
<1>6. CASE UNCHANGED gzipVars
  BY <1>2, <1>3, <1>6 DEF gzipVars
<1>7. ASSUME NEW r \in Request, Close(r)
      PROVE  \A q \in Request : ChunksOf(reply'[q].body, q)
  BY <1>7, CloseCompressedTypes, CloseBufferedTypes DEF Close
<1> QED
  BY <1>1, <1>2, <1>3, <1>4, <1>5, <1>6, <1>7 DEF Next

\* A step that may change the writer of r only, and nothing of other responses.
LEMMA SeparateKept ==
  ASSUME GzipInv, NEW r \in Request, TypeOK',
         \A q \in Request \ {r} : /\ w'[q].buf = w[q].buf /\ w'[q].gz = w[q].gz
                                  /\ w'[q].compressed = w[q].compressed /\ pc'[q] = pc[q],
         NEW g \in Writer, \A q \in Request \ {r} : pc[q] \in {"run", "close", "put"} => w[q].gz # g,
         \A h \in Writer \ {g} : gzip'[h] = gzip[h],
         ChunksOf(w'[r].buf, r),
         pc'[r] = "idle" => ~ w'[r].compressed,
         pc'[r] \in {"run", "close"} /\ w'[r].compressed =>
           gzip'[w'[r].gz].target = r /\ ChunksOf(gzip'[w'[r].gz].pending, r)
  PROVE  ChunksSeparate'
<1> USE DEF GzipInv
<1>1. \A q \in Request \ {r} : pc[q] \in {"run", "close"} =>
        w[q].gz \in Writer /\ gzip'[w[q].gz] = gzip[w[q].gz]
  BY Holds
<1>2. ASSUME NEW q \in Request \ {r}
      PROVE  /\ ChunksOf(w'[q].buf, q)
             /\ pc'[q] \in {"run", "close"} /\ w'[q].compressed =>
                  gzip'[w'[q].gz].target = q /\ ChunksOf(gzip'[w'[q].gz].pending, q)
             /\ pc'[q] = "idle" => ~ w'[q].compressed
  <2>1. /\ w'[q].buf = w[q].buf /\ w'[q].gz = w[q].gz
        /\ w'[q].compressed = w[q].compressed /\ pc'[q] = pc[q]
    OBVIOUS
  <2>2. /\ ChunksOf(w[q].buf, q)
        /\ pc[q] \in {"run", "close"} /\ w[q].compressed =>
             gzip[w[q].gz].target = q /\ ChunksOf(gzip[w[q].gz].pending, q)
        /\ pc[q] = "idle" => ~ w[q].compressed
    BY DEF ChunksSeparate
  <2>3. pc[q] \in {"run", "close"} => gzip'[w[q].gz] = gzip[w[q].gz]
    BY <1>1
  <2> QED BY <2>1, <2>2, <2>3
<1> QED
  BY <1>2, Zenon DEF ChunksSeparate

\* A chunk goes to the buffer of its response or to the writer that it holds.
LEMMA SeparateStep ==
  ASSUME GzipInv, TypeOK', [Next]_gzipVars
  PROVE  ChunksSeparate'
<1> USE DEF GzipInv
<1>1. ASSUME NEW r \in Request, ServePlain(r) \/ Return(r) \/ Put(r) \/ CloseBuffered(r)
      PROVE  ChunksSeparate'
  <2>1. w' = w /\ gzip' = gzip
    BY <1>1 DEF ServePlain, Return, Put, CloseBuffered
  <2>2. \A q \in Request : /\ pc'[q] \in {"run", "close"} => pc[q] \in {"run", "close"}
                           /\ pc'[q] = "idle" => pc[q] = "idle"
    BY <1>1 DEF ServePlain, Return, Put, CloseBuffered, Goto, TypeOK
  <2> QED BY <2>1, <2>2 DEF ChunksSeparate
<1>2. ASSUME NEW r \in Request, ServeWrapped(r)
      PROVE  ChunksSeparate'
  <2>1. PICK g \in Writer : w' = [w EXCEPT ![r].gz = g]
    BY <1>2 DEF ServeWrapped
  <2>2. /\ pc[r] = "idle" /\ pc' = [pc EXCEPT ![r] = "run"] /\ gzip' = gzip
        /\ ~ w[r].compressed /\ ChunksOf(w[r].buf, r)
    BY <1>2 DEF ServeWrapped, Goto, ChunksSeparate
  <2>3. /\ w'[r].buf = w[r].buf /\ w'[r].compressed = w[r].compressed /\ pc'[r] = "run"
        /\ \A q \in Request \ {r} : w'[q] = w[q] /\ pc'[q] = pc[q]
    BY <2>1, <2>2 DEF TypeOK, Wrapper
  <2> QED BY <2>2, <2>3 DEF ChunksSeparate
<1>3. ASSUME NEW r \in Request, WriteHeader(r)
      PROVE  ChunksSeparate'
  <2>1. w' = [w EXCEPT ![r].status = handler[r].status] /\ pc' = pc /\ gzip' = gzip
    BY <1>3 DEF WriteHeader
  <2>2. \A q \in Request : /\ w'[q].buf = w[q].buf /\ w'[q].gz = w[q].gz
                           /\ w'[q].compressed = w[q].compressed
    BY <2>1 DEF TypeOK, Wrapper
  <2> QED BY <2>1, <2>2 DEF ChunksSeparate
<1>4. ASSUME NEW r \in Request, pc[r] \in {"run", "close", "put"}
      PROVE  \E g \in Writer : /\ g = w[r].gz
                               /\ \A q \in Request \ {r} :
                                    pc[q] \in {"run", "close", "put"} => w[q].gz # g
  BY <1>4, Holds DEF WritersExclusive
<1>5. ASSUME NEW r \in Request, WriteCompressed(r)
      PROVE  ChunksSeparate'
  <2>1. /\ pc[r] = "run" /\ w[r].compressed /\ w' = w /\ pc' = pc
        /\ gzip' = [gzip EXCEPT ![w[r].gz].pending = Append(@, NextChunk(r))]
    BY <1>5 DEF WriteCompressed, Writes
  <2>2. PICK g \in Writer : /\ g = w[r].gz
                            /\ \A q \in Request \ {r} :
                                 pc[q] \in {"run", "close", "put"} => w[q].gz # g
    BY <1>4, <2>1
  <2>3. PICK c \in Chunk : c = NextChunk(r) /\ c.of = r
    BY NextChunkTypes
  <2>4. gzip[g].target = r /\ ChunksOf(gzip[g].pending, r) /\ gzip[g].pending \in Seq(Chunk)
    BY <2>1, <2>2, Unwritten DEF ChunksSeparate
  <2>5. ChunksOf(Append(gzip[g].pending, c), r)
    BY <2>3, <2>4, AppendedChunk
  <2>6. /\ gzip'[g].target = r /\ gzip'[g].pending = Append(gzip[g].pending, c)
        /\ \A h \in Writer \ {g} : gzip'[h] = gzip[h]
    BY <2>1, <2>2, <2>3, <2>4 DEF TypeOK, GzipState
  <2>7. ChunksOf(w'[r].buf, r) /\ pc'[r] # "idle" /\ w'[r].gz = g
    BY <2>1, <2>2 DEF ChunksSeparate
  <2>8. \A q \in Request \ {r} : /\ w'[q].buf = w[q].buf /\ w'[q].gz = w[q].gz
                                   /\ w'[q].compressed = w[q].compressed /\ pc'[q] = pc[q]
    BY <2>1
  <2>9. pc'[r] \in {"run", "close"} /\ w'[r].compressed =>
          gzip'[w'[r].gz].target = r /\ ChunksOf(gzip'[w'[r].gz].pending, r)
    BY <2>5, <2>6, <2>7
  <2> QED BY <2>2, <2>6, <2>7, <2>8, <2>9, SeparateKept
<1>6. ASSUME NEW r \in Request, WriteBuffered(r)
      PROVE  ChunksSeparate'
  <2>1. PICK n \in Sizes :
          w' = [w EXCEPT ![r] =
            [@ EXCEPT !.buf = Append(w[r].buf, NextChunk(r)), !.size = w[r].size + n]]
    BY <1>6 DEF WriteBuffered
  <2>2. pc[r] = "run" /\ ~ w[r].compressed /\ pc' = pc /\ gzip' = gzip
    BY <1>6 DEF WriteBuffered, Writes
  <2>3. PICK c \in Chunk : c = NextChunk(r) /\ c.of = r
    BY NextChunkTypes
  <2>4. w[r].buf \in Seq(Chunk) /\ ChunksOf(w[r].buf, r)
    BY DEF TypeOK, Wrapper, ChunksSeparate
  <2>5. ChunksOf(Append(w[r].buf, c), r)
    BY <2>3, <2>4, AppendedChunk
  <2>6. /\ w'[r].buf = Append(w[r].buf, c) /\ w'[r].compressed = w[r].compressed
        /\ \A q \in Request \ {r} : w'[q] = w[q]
    BY <2>1, <2>3 DEF TypeOK, Wrapper
  <2> QED BY <2>2, <2>5, <2>6 DEF ChunksSeparate
<1>7. ASSUME NEW r \in Request, StartCompression(r)
      PROVE  ChunksSeparate'
  <2>1. /\ pc[r] = "run" /\ pc' = pc
        /\ w' = [w EXCEPT ![r] = [@ EXCEPT !.compressed = TRUE, !.buf = <<>>, !.size = 0]]
        /\ gzip' = [gzip EXCEPT ![w[r].gz] =
             [target |-> r, pending |-> Append(w[r].buf, NextChunk(r))]]
    BY <1>7 DEF StartCompression, Writes
  <2>2. PICK g \in Writer : /\ g = w[r].gz
                            /\ \A q \in Request \ {r} :
                                 pc[q] \in {"run", "close", "put"} => w[q].gz # g
    BY <1>4, <2>1
  <2>3. PICK c \in Chunk : c = NextChunk(r) /\ c.of = r
    BY NextChunkTypes
  <2>4. w[r].buf \in Seq(Chunk) /\ ChunksOf(w[r].buf, r)
    BY DEF TypeOK, Wrapper, ChunksSeparate
  <2>5. ChunksOf(Append(w[r].buf, c), r)
    BY <2>3, <2>4, AppendedChunk
  <2>6. /\ gzip'[g].target = r /\ gzip'[g].pending = Append(w[r].buf, c)
        /\ \A h \in Writer \ {g} : gzip'[h] = gzip[h]
    BY <2>1, <2>2, <2>3 DEF TypeOK
  <2>7. /\ w'[r].buf = <<>> /\ w'[r].gz = g
        /\ \A q \in Request \ {r} : w'[q] = w[q]
    BY <2>1, <2>2 DEF TypeOK, Wrapper
  <2>8. ChunksOf(w'[r].buf, r) /\ pc'[r] # "idle"
    BY <2>1, <2>7, NoChunks
  <2>9. \A q \in Request \ {r} : /\ w'[q].buf = w[q].buf /\ w'[q].gz = w[q].gz
                                   /\ w'[q].compressed = w[q].compressed /\ pc'[q] = pc[q]
    BY <2>1, <2>7
  <2>10. pc'[r] \in {"run", "close"} /\ w'[r].compressed =>
          gzip'[w'[r].gz].target = r /\ ChunksOf(gzip'[w'[r].gz].pending, r)
    BY <2>5, <2>6, <2>7
  <2> QED BY <2>2, <2>6, <2>8, <2>9, <2>10, SeparateKept
<1>8. ASSUME NEW r \in Request, CloseCompressed(r)
      PROVE  ChunksSeparate'
  <2>1. /\ pc[r] = "close" /\ w' = w /\ pc' = [pc EXCEPT ![r] = "put"]
        /\ gzip' = [gzip EXCEPT ![w[r].gz].pending = <<>>]
    BY <1>8 DEF CloseCompressed, Goto
  <2>2. PICK g \in Writer : /\ g = w[r].gz
                            /\ \A q \in Request \ {r} :
                                 pc[q] \in {"run", "close", "put"} => w[q].gz # g
    BY <1>4, <2>1
  <2>3. \A h \in Writer \ {g} : gzip'[h] = gzip[h]
    BY <2>1, <2>2 DEF TypeOK
  <2>4. pc'[r] = "put" /\ \A q \in Request \ {r} : pc'[q] = pc[q]
    BY <2>1 DEF TypeOK
  <2>5. ChunksOf(w'[r].buf, r)
    BY <2>1 DEF ChunksSeparate
  <2>6. \A q \in Request \ {r} : /\ w'[q].buf = w[q].buf /\ w'[q].gz = w[q].gz
                                   /\ w'[q].compressed = w[q].compressed /\ pc'[q] = pc[q]
    BY <2>1, <2>4
  <2>7. pc'[r] \in {"run", "close"} /\ w'[r].compressed =>
          gzip'[w'[r].gz].target = r /\ ChunksOf(gzip'[w'[r].gz].pending, r)
    BY <2>4
  <2> QED BY <2>2, <2>3, <2>4, <2>5, <2>6, <2>7, SeparateKept
<1>9. CASE UNCHANGED gzipVars
  BY <1>9 DEF gzipVars, ChunksSeparate
<1> QED
  BY <1>1, <1>2, <1>3, <1>5, <1>6, <1>7, <1>8, <1>9 DEF Next, Write, Close

------------------------------------------------------------------------------

\* Writers are held by one response at a time, and bytes are kept apart
\* (gzipWriterPool, startCompression's Reset, and the order of the deferred
\* Close and Put).
THEOREM GzipCorrect == Spec => []GzipInv
<1>1. Init => GzipInv
  <2> SUFFICES ASSUME Init PROVE GzipInv
    OBVIOUS
  <2>1. /\ \A r \in Request : /\ w[r].buf = <<>> /\ reply[r].body = <<>> /\ pc[r] = "idle"
                              /\ w[r].compressed = FALSE
        /\ \A g \in Writer : gzip[g].pending = <<>>
    BY DEF Init
  <2>2. TypeOK
    <3>1. w \in [Request -> Wrapper] /\ gzip \in [Writer -> GzipState]
      BY NoChunks DEF Init, Wrapper, GzipState
    <3>2. reply \in [Request -> Reply]
      BY NoChunks DEF Init, Reply
    <3> QED BY <3>1, <3>2 DEF Init, TypeOK
  <2>3. OwnBytes /\ ChunksSeparate /\ KeptAsWritten
    BY <2>1, NoChunks DEF OwnBytes, ChunksSeparate, KeptAsWritten
  <2>4. WritersExclusive
    BY <2>1 DEF WritersExclusive
  <2> QED BY <2>2, <2>3, <2>4 DEF GzipInv
<1>2. GzipInv /\ [Next]_gzipVars => GzipInv'
  BY TypesStep, ExclusiveStep, OwnBytesStep, SeparateStep DEF GzipInv, TypesInv
<1> QED
  BY <1>1, <1>2, PTL DEF Spec

\* The pool never gives a gzip.Writer to two responses that are under way.
THEOREM PoolIsExclusive == Spec => []WritersExclusive
<1>1. GzipInv => WritersExclusive
  BY DEF GzipInv
<1> QED
  BY <1>1, GzipCorrect, PTL

\* No client gets a byte of another's response.
THEOREM NoForeignBytes == Spec => []OwnBytes
<1>1. GzipInv => OwnBytes
  BY DEF GzipInv
<1> QED
  BY <1>1, GzipCorrect, PTL

------------------------------------------------------------------------------
(* The recorded status.                                                      *)

\* A status is recorded when it is sent, and sent once: nothing has been sent
\* before the middleware wraps the response, nor while its body is buffered.
StatusInv ==
  \A r \in Request :
    /\ reply[r].recorded = IF reply[r].status = None THEN 200 ELSE reply[r].status
    /\ pc[r] = "idle" => reply[r].status = None
    /\ pc[r] \in {"run", "close"} /\ ~ w[r].compressed => reply[r].status = None
    /\ pc[r] \in {"put", "done"} => reply[r].status # None

\* A first status is recorded as it is sent ...
LEMMA FirstStatus ==
  ASSUME NEW p \in Reply, p.status = None, NEW code \in Nat
  PROVE  /\ SendStatus(p, code).status = code
         /\ SendStatus(p, code).recorded = code
         /\ SendStatus(p, code) \in Reply
<1>1. SendStatus(p, code) \in Reply
  BY NoChunks, ReplyTypes
<1>2. SendStatus(p, code).status = code /\ SendStatus(p, code).recorded = code
  BY DEF SendStatus, Send, Reply
<1> QED BY <1>1, <1>2

\* ... and a body records nothing, but for the 200 that was there.
LEMMA BodyStatus ==
  ASSUME NEW p \in Reply, NEW chunks \in Seq(Chunk)
  PROVE  /\ SendBody(p, chunks).recorded = p.recorded
         /\ SendBody(p, chunks).status = IF p.status = None THEN 200 ELSE p.status
BY DEF SendBody, Send, Reply

\* No step of the middleware sends a second status.
LEMMA StatusStep ==
  ASSUME GzipInv, TypeOK', StatusInv, [Next]_gzipVars
  PROVE  StatusInv'
<1> USE DEF GzipInv
<1>0. 200 # None
  BY NoneAssumption
<1>1. ASSUME NEW r \in Request, ServePlain(r) \/ Return(r) \/ Put(r)
      PROVE  StatusInv'
  <2>1. /\ w' = w /\ reply' = reply
        /\ \A q \in Request \ {r} : pc'[q] = pc[q]
        /\ \/ pc'[r] = "plain"
           \/ pc[r] = "run" /\ pc'[r] = "close"
           \/ pc[r] = "put" /\ pc'[r] = "done"
    BY <1>1 DEF ServePlain, Return, Put, Goto, TypeOK
  <2> QED BY <2>1 DEF StatusInv
<1>2. ASSUME NEW r \in Request, ServeWrapped(r)
      PROVE  StatusInv'
  <2>1. PICK g \in Writer : w' = [w EXCEPT ![r].gz = g]
    BY <1>2 DEF ServeWrapped
  <2>2. /\ pc[r] = "idle" /\ pc'[r] = "run"
        /\ \A q \in Request \ {r} : pc'[q] = pc[q] /\ w'[q] = w[q] /\ reply'[q] = reply[q]
    BY <1>2, <2>1 DEF ServeWrapped, Goto, TypeOK
  <2>3. reply'[r].status = reply[r].status /\ reply'[r].recorded = reply[r].recorded
    BY <1>2 DEF ServeWrapped, TypeOK, Reply
  <2> QED BY <2>2, <2>3 DEF StatusInv
<1>3. ASSUME NEW r \in Request, WriteHeader(r) \/ WriteCompressed(r) \/ WriteBuffered(r)
      PROVE  StatusInv'
  <2>1. pc' = pc /\ reply' = reply
    BY <1>3 DEF WriteHeader, WriteCompressed, WriteBuffered, Writes
  <2>2. \A q \in Request : w'[q].compressed = w[q].compressed
    <3>1. CASE WriteHeader(r)
      BY <3>1 DEF WriteHeader, TypeOK, Wrapper
    <3>2. CASE WriteCompressed(r)
      BY <3>2 DEF WriteCompressed
    <3>3. CASE WriteBuffered(r)
      <4>1. PICK n \in Sizes :
              w' = [w EXCEPT ![r] =
                [@ EXCEPT !.buf = Append(w[r].buf, NextChunk(r)), !.size = w[r].size + n]]
        BY <3>3 DEF WriteBuffered
      <4> QED BY <4>1 DEF TypeOK, Wrapper
    <3> QED BY <1>3, <3>1, <3>2, <3>3
  <2> QED BY <2>1, <2>2 DEF StatusInv
<1>4. ASSUME NEW r \in Request, StartCompression(r)
      PROVE  StatusInv'
  <2> DEFINE p == [reply[r] EXCEPT !.header = "gzip"]
  <2>1. /\ pc[r] = "run" /\ ~ w[r].compressed /\ pc' = pc
        /\ reply' = [reply EXCEPT ![r] =
             IF w[r].status # None THEN SendStatus(p, w[r].status) ELSE p]
        /\ w' = [w EXCEPT ![r] = [@ EXCEPT !.compressed = TRUE, !.buf = <<>>, !.size = 0]]
    BY <1>4 DEF StartCompression, Writes
  <2>2. /\ \A q \in Request \ {r} : reply'[q] = reply[q] /\ w'[q] = w[q]
        /\ w'[r].compressed
    BY <2>1 DEF TypeOK, Wrapper
  <2>3. reply[r].status = None /\ reply[r].recorded = 200
    BY <2>1 DEF StatusInv
  <2>4. p \in Reply /\ p.status = None /\ p.recorded = 200
    <3>1. reply[r] \in Reply
      BY DEF TypeOK
    <3> QED BY <2>3, <3>1 DEF Reply
  <2>5. reply'[r].recorded = IF reply'[r].status = None THEN 200 ELSE reply'[r].status
    <3>1. CASE w[r].status = None
      BY <3>1, <2>1, <2>4 DEF TypeOK
    <3>2. CASE w[r].status # None
      <4>1. w[r].status \in Nat
        BY <3>2 DEF TypeOK, Wrapper
      <4>2. reply'[r] = SendStatus(p, w[r].status)
        BY <2>1, <3>2 DEF TypeOK
      <4> HIDE DEF p
      <4> QED BY <4>1, <4>2, <2>4, FirstStatus, NoneAssumption
    <3> QED BY <3>1, <3>2
  <2> QED BY <2>1, <2>2, <2>5 DEF StatusInv
<1>5. ASSUME NEW r \in Request, CloseCompressed(r)
      PROVE  StatusInv'
  <2> DEFINE g == gzip[w[r].gz]
             chunks == Compress(g.pending)
  <2>1. /\ pc[r] = "close" /\ w[r].compressed /\ w' = w /\ pc' = [pc EXCEPT ![r] = "put"]
        /\ reply' = [reply EXCEPT ![g.target] =
             [SendBody(@, chunks) EXCEPT !.ended = TRUE]]
    BY <1>5 DEF CloseCompressed, Goto
  <2>2. g.target = r /\ w[r].gz \in Writer
    BY <2>1, Holds DEF ChunksSeparate
  <2>3. chunks \in Seq(Chunk)
    BY <2>2, Unwritten, CompressedChunks
  <2>4. /\ \A q \in Request \ {r} : reply'[q] = reply[q] /\ pc'[q] = pc[q]
        /\ reply'[r] = [SendBody(reply[r], chunks) EXCEPT !.ended = TRUE]
        /\ pc'[r] = "put"
    BY <2>1, <2>2 DEF TypeOK
  <2> HIDE DEF chunks
  <2>5. SendBody(reply[r], chunks) \in Reply
    BY <2>3, ReplyTypes, NoneAssumption DEF TypeOK
  <2>6. /\ reply'[r].status = SendBody(reply[r], chunks).status
        /\ reply'[r].recorded = SendBody(reply[r], chunks).recorded
    BY <2>4, <2>5 DEF Reply
  <2>7. /\ reply'[r].status = IF reply[r].status = None THEN 200 ELSE reply[r].status
        /\ reply'[r].recorded = reply[r].recorded
    BY <2>3, <2>6, BodyStatus DEF TypeOK
  <2>8. /\ reply'[r].recorded = IF reply'[r].status = None THEN 200 ELSE reply'[r].status
        /\ reply'[r].status # None
    BY <1>0, <2>7 DEF StatusInv
  <2>9. /\ w' = w /\ pc'[r] = "put"
        /\ \A q \in Request \ {r} : reply'[q] = reply[q] /\ pc'[q] = pc[q]
    BY <2>1, <2>4
  <2> QED BY <2>8, <2>9 DEF StatusInv
<1>6. ASSUME NEW r \in Request, CloseBuffered(r)
      PROVE  StatusInv'
  <2> DEFINE p == IF w[r].status # None THEN SendStatus(reply[r], w[r].status) ELSE reply[r]
  <2>1. /\ pc[r] = "close" /\ ~ w[r].compressed /\ w' = w /\ pc' = [pc EXCEPT ![r] = "put"]
        /\ reply' = [reply EXCEPT ![r] = SendBody(p, w[r].buf)]
    BY <1>6 DEF CloseBuffered, Goto
  <2>2. /\ \A q \in Request \ {r} : reply'[q] = reply[q] /\ pc'[q] = pc[q]
        /\ reply'[r] = SendBody(p, w[r].buf) /\ pc'[r] = "put"
    BY <2>1 DEF TypeOK
  <2>3. reply[r] \in Reply /\ reply[r].status = None /\ reply[r].recorded = 200
    BY <2>1 DEF StatusInv, TypeOK
  <2>4. /\ p \in Reply
        /\ p.recorded = IF p.status = None THEN 200 ELSE p.status
    <3>1. CASE w[r].status = None
      BY <3>1, <2>3
    <3>2. CASE w[r].status # None
      <4>1. w[r].status \in Nat
        BY <3>2 DEF TypeOK, Wrapper
      <4>2. SendStatus(reply[r], w[r].status) \in Reply
        BY <4>1, <2>3, FirstStatus
      <4>3. p = SendStatus(reply[r], w[r].status)
        BY <3>2
      <4> QED BY <4>1, <4>2, <4>3, <2>3, FirstStatus, NoneAssumption
    <3> QED BY <3>1, <3>2
  <2>5. w[r].buf \in Seq(Chunk)
    BY DEF TypeOK, Wrapper
  <2> HIDE DEF p
  <2>6. /\ reply'[r].status = IF p.status = None THEN 200 ELSE p.status
        /\ reply'[r].recorded = p.recorded
    BY <2>2, <2>4, <2>5, BodyStatus
  <2> QED BY <1>0, <2>1, <2>2, <2>4, <2>6 DEF StatusInv
<1>7. CASE UNCHANGED gzipVars
  BY <1>7 DEF gzipVars, StatusInv
<1> QED
  BY <1>1, <1>2, <1>3, <1>4, <1>5, <1>6, <1>7 DEF Next, Write, Close

\* What the log and the metrics record is what the client got
\* (responseWriter.WriteHeader, gzipResponseWriter's deferred status).
THEOREM RecordedAsSent == Spec => []RecordedIsSent
<1>1. Init => StatusInv
  <2> SUFFICES ASSUME Init, NEW r \in Request
               PROVE  pc[r] = "idle" /\ reply[r].status = None /\ reply[r].recorded = 200
    BY DEF StatusInv
  <2> QED BY DEF Init
<1>2. GzipInv /\ GzipInv' /\ StatusInv /\ [Next]_gzipVars => StatusInv'
  BY StatusStep DEF GzipInv
<1>3. StatusInv => RecordedIsSent
  BY DEF StatusInv, RecordedIsSent
<1> QED
  BY <1>1, <1>2, <1>3, GzipCorrect, PTL DEF Spec

------------------------------------------------------------------------------
(* The reply as a whole.  The argument follows the body: it is in the wrapper *)
(* (Buffered), then in the gzip.Writer (Compressing), then with the client   *)
(* (Complete), and the steps of other requests touch none of the three,      *)
(* because a gzip.Writer serves one response at a time.                      *)

\* The first n chunks that the handler of r writes, each compressed so often.
Numbered(chunks, r, n, layers) ==
  Len(chunks) = n /\ \A i \in 1..n : chunks[i] = [of |-> r, nr |-> i, layers |-> layers]

Unsent(p) == p.status = None /\ p.encoding = None /\ p.body = <<>> /\ ~ p.ended

\* Until the body grows, all that was written is in the wrapper; ...
Buffered(r) ==
  Unsent(reply[r]) /\ reply[r].header = None /\ Numbered(w[r].buf, r, count[r], 0)

\* ... then it is in the gzip.Writer, and at most the header has been sent.
Compressing(r) ==
  /\ reply[r].body = <<>> /\ ~ reply[r].ended
  /\ reply[r].header = "gzip"
  /\ reply[r].status = handler[r].status /\ w[r].status = handler[r].status
  /\ reply[r].encoding = IF reply[r].status = None THEN None ELSE "gzip"
  /\ Numbered(gzip[w[r].gz].pending, r, count[r], 0)

Complete(r) ==
  LET p == reply[r] h == handler[r] IN
    /\ p.status = IF h.status # None THEN h.status ELSE 200
    /\ Numbered(p.body, r, h.chunks, IF p.encoding = "gzip" THEN 1 ELSE 0)
    /\ p.ended = (p.encoding = "gzip")

\* Where the body of r is, at every stage of its request.
BodyKept(r) ==
  ~ handler[r].encodes =>
    /\ w[r].status \in {None, handler[r].status}
    /\ pc[r] = "idle" => Buffered(r) /\ ~ w[r].compressed
    /\ pc[r] \in {"run", "close"} /\ ~ w[r].compressed => Buffered(r)
    /\ pc[r] \in {"run", "close"} /\ w[r].compressed => Compressing(r)
    /\ pc[r] = "close" => w[r].status = handler[r].status /\ count[r] = handler[r].chunks
    /\ pc[r] \in {"put", "done"} => Complete(r)

DeliveryInv == \A r \in Request : BodyKept(r)

------------------------------------------------------------------------------
(* Sequences of numbered chunks.                                             *)

\* The handler's next chunk is the next one of the sequence.
LEMMA NumberedAppend ==
  ASSUME NEW s \in Seq(Chunk), NEW r \in Request, NEW n \in Nat, Numbered(s, r, n, 0),
         NEW c \in Chunk, c = [of |-> r, nr |-> n + 1, layers |-> 0]
  PROVE  Numbered(Append(s, c), r, n + 1, 0)
<1>1. /\ Len(Append(s, c)) = n + 1
      /\ \A i \in 1..n : Append(s, c)[i] = s[i]
      /\ Append(s, c)[n + 1] = c
  BY AppendProperties DEF Numbered
<1>2. \A i \in 1..(n + 1) : i \in 1..n \/ i = n + 1
  OBVIOUS
<1>3. \A i \in 1..n : s[i] = [of |-> r, nr |-> i, layers |-> 0]
  BY DEF Numbered
<1> QED
  BY <1>1, <1>2, <1>3, Zenon DEF Numbered

\* Compression keeps the chunks and their order.
LEMMA NumberedCompress ==
  ASSUME NEW s \in Seq(Chunk), NEW r \in Request, NEW n \in Nat, Numbered(s, r, n, 0),
         Compress(s) \in Seq(Chunk)
  PROVE  Numbered(Compress(s), r, n, 1)
<1>1. DOMAIN s = 1..n /\ Len(s) = n
  BY DEF Numbered
<1>2. /\ DOMAIN Compress(s) = 1..n
      /\ \A i \in 1..n : Compress(s)[i] = [s[i] EXCEPT !.layers = @ + 1]
  BY <1>1, Zenon DEF Compress
<1>3. Len(Compress(s)) = n
  BY <1>2, LenProperties
<1>4. \A i \in 1..n : [s[i] EXCEPT !.layers = @ + 1] = [of |-> r, nr |-> i, layers |-> 1]
  BY DEF Numbered
<1> QED
  BY <1>2, <1>3, <1>4, Zenon DEF Numbered

LEMMA NumberedEmpty ==
  ASSUME NEW r \in Request
  PROVE  Numbered(<<>>, r, 0, 0)
BY DEF Numbered

\* The next chunk of a handler that does not compress.
LEMMA PlainChunk ==
  ASSUME NEW r \in Request, ~ handler[r].encodes
  PROVE  NextChunk(r) = [of |-> r, nr |-> count[r] + 1, layers |-> 0]
BY DEF NextChunk

\* What the server's writer makes of a status and of a body.
LEMMA Sent ==
  ASSUME NEW p \in Reply, NEW code \in Nat, p.status = None, p.body = <<>>
  PROVE  /\ SendStatus(p, code).status = code
         /\ SendStatus(p, code).encoding = p.header
         /\ SendStatus(p, code).header = p.header
         /\ SendStatus(p, code).body = <<>>
         /\ SendStatus(p, code).ended = p.ended
         /\ SendStatus(p, code) \in Reply
BY NoChunks, ReplyTypes DEF SendStatus, Send, Reply

LEMMA BodySent ==
  ASSUME NEW p \in Reply, NEW s \in Seq(Chunk), p.body = <<>>
  PROVE  /\ SendBody(p, s).status = IF p.status = None THEN 200 ELSE p.status
         /\ SendBody(p, s).encoding = IF p.status = None THEN p.header ELSE p.encoding
         /\ SendBody(p, s).body = s
         /\ SendBody(p, s).ended = p.ended
         /\ SendBody(p, s) \in Reply
<1>1. Send(p, 200) \in Reply /\ Send(p, 200).body = <<>>
  BY DEF Send, Reply
<1>2. <<>> \o s = s
  BY ConcatEmptySeq
<1>3. SendBody(p, s) = [Send(p, 200) EXCEPT !.body = s]
  BY <1>1, <1>2 DEF SendBody
<1> QED
  BY <1>1, <1>3 DEF Send, Reply

------------------------------------------------------------------------------
(* The steps.                                                                *)

\* A step of another request that leaves r's state and writer alone keeps r's
\* body where it is.
LEMMA Frame ==
  ASSUME NEW r \in Request, BodyKept(r),
         pc'[r] = pc[r], handler' = handler, count'[r] = count[r], w'[r] = w[r],
         reply'[r] = reply[r],
         pc[r] \in {"run", "close"} => gzip'[w[r].gz] = gzip[w[r].gz]
  PROVE  BodyKept(r)'
BY DEF BodyKept, Buffered, Unsent, Compressing, Complete

LEMMA DeliveryInit == Init => DeliveryInv
<1> SUFFICES ASSUME Init, NEW r \in Request
             PROVE  BodyKept(r)
  BY DEF DeliveryInv
<1>1. /\ pc[r] = "idle" /\ count[r] = 0
      /\ w[r].status = None /\ ~ w[r].compressed /\ w[r].buf = <<>>
      /\ reply[r].header = None /\ Unsent(reply[r])
  BY DEF Init, Unsent
<1> QED
  BY <1>1, NumberedEmpty DEF BodyKept, Buffered

\* Serving without the wrapper is outside what Delivered is about.
LEMMA ServePlainKeeps ==
  ASSUME GzipInv, DeliveryInv, NEW r \in Request, ServePlain(r)
  PROVE  DeliveryInv'
<1>1. /\ pc'[r] = "plain" /\ \A q \in Request \ {r} : pc'[q] = pc[q]
      /\ handler' = handler /\ count' = count /\ w' = w /\ reply' = reply /\ gzip' = gzip
  BY DEF ServePlain, Goto, GzipInv, TypeOK
<1>2. BodyKept(r)'
  BY <1>1 DEF DeliveryInv, BodyKept
<1>3. \A q \in Request \ {r} : BodyKept(q)'
  BY <1>1, Frame DEF DeliveryInv
<1> QED BY <1>2, <1>3 DEF DeliveryInv

LEMMA ServeWrappedKeeps ==
  ASSUME GzipInv, DeliveryInv, NEW r \in Request, ServeWrapped(r)
  PROVE  DeliveryInv'
<1> USE DEF GzipInv
<1>1. PICK g \in Writer : w' = [w EXCEPT ![r].gz = g]
  BY DEF ServeWrapped
<1>2. PICK header \in {None, "gzip"} :
        /\ reply' = [reply EXCEPT ![r].header = header]
        /\ ~ handler[r].encodes => header = None
  BY DEF ServeWrapped
<1>3. /\ pc[r] = "idle" /\ pc'[r] = "run" /\ \A q \in Request \ {r} : pc'[q] = pc[q]
      /\ handler' = handler /\ count' = count /\ gzip' = gzip
  BY DEF ServeWrapped, Goto, TypeOK
<1>4. \A q \in Request \ {r} : w'[q] = w[q] /\ reply'[q] = reply[q]
  BY <1>1, <1>2
<1>5. /\ w'[r].status = w[r].status /\ w'[r].buf = w[r].buf
      /\ w'[r].compressed = w[r].compressed
  BY <1>1 DEF TypeOK, Wrapper
<1>6. /\ reply'[r].header = header /\ reply'[r].status = reply[r].status
      /\ reply'[r].encoding = reply[r].encoding /\ reply'[r].body = reply[r].body
      /\ reply'[r].ended = reply[r].ended
  BY <1>2 DEF TypeOK, Reply
<1>7. BodyKept(r)'
  BY <1>2, <1>3, <1>5, <1>6 DEF DeliveryInv, BodyKept, Buffered, Unsent
<1>8. \A q \in Request \ {r} : BodyKept(q)'
  BY <1>3, <1>4, Frame DEF DeliveryInv
<1> QED BY <1>7, <1>8 DEF DeliveryInv

LEMMA WriteHeaderKeeps ==
  ASSUME GzipInv, DeliveryInv, NEW r \in Request, WriteHeader(r)
  PROVE  DeliveryInv'
<1> USE DEF GzipInv
<1>1. /\ w' = [w EXCEPT ![r].status = handler[r].status]
      /\ pc[r] = "run" /\ w[r].status = None /\ handler[r].status # None
      /\ pc' = pc /\ handler' = handler /\ count' = count /\ reply' = reply /\ gzip' = gzip
  BY DEF WriteHeader, MustSetStatus
<1>2. \A q \in Request \ {r} : w'[q] = w[q]
  BY <1>1
<1>3. /\ w'[r].status = handler[r].status /\ w'[r].buf = w[r].buf
      /\ w'[r].compressed = w[r].compressed
  BY <1>1 DEF TypeOK, Wrapper
<1>4. ~ handler[r].encodes => ~ w[r].compressed
  BY <1>1 DEF DeliveryInv, BodyKept, Compressing
<1>5. BodyKept(r)'
  BY <1>1, <1>3, <1>4 DEF DeliveryInv, BodyKept, Buffered, Unsent
<1>6. \A q \in Request \ {r} : BodyKept(q)'
  BY <1>1, <1>2, Frame DEF DeliveryInv
<1> QED BY <1>5, <1>6 DEF DeliveryInv

\* A step of r that changes no gzip.Writer but the one it holds keeps the bodies
\* of the others: none of them uses that one (WritersExclusive).
LEMMA OthersKept ==
  ASSUME GzipInv, DeliveryInv, NEW r \in Request, pc[r] \in {"run", "close", "put"},
         handler' = handler,
         \A q \in Request \ {r} :
           pc'[q] = pc[q] /\ count'[q] = count[q] /\ w'[q] = w[q] /\ reply'[q] = reply[q],
         \A g \in Writer \ {w[r].gz} : gzip'[g] = gzip[g]
  PROVE  \A q \in Request \ {r} : BodyKept(q)'
<1> SUFFICES ASSUME NEW q \in Request \ {r}
             PROVE  BodyKept(q)'
  OBVIOUS
<1>1. pc[q] \in {"run", "close"} => w[q].gz \in Writer \ {w[r].gz}
  BY Holds DEF GzipInv, WritersExclusive
<1> QED
  BY <1>1, Frame DEF DeliveryInv

\* What every write does.
LEMMA WriteCounts ==
  ASSUME GzipInv, NEW r \in Request, Writes(r)
  PROVE  /\ pc[r] = "run" /\ pc' = pc /\ handler' = handler
         /\ count'[r] = count[r] + 1
         /\ \A q \in Request \ {r} : count'[q] = count[q]
         /\ handler[r].status # None => w[r].status # None
         /\ w[r].gz \in Writer /\ count[r] \in Nat
<1>1. pc[r] = "run" /\ count' = [count EXCEPT ![r] = @ + 1] /\ ~ MustSetStatus(r)
  BY DEF Writes
<1> QED
  BY <1>1, Holds DEF Writes, MustSetStatus, GzipInv, TypeOK

LEMMA WriteCompressedKeeps ==
  ASSUME GzipInv, DeliveryInv, NEW r \in Request, WriteCompressed(r)
  PROVE  DeliveryInv'
<1> USE DEF GzipInv
<1>1. Writes(r) /\ w[r].compressed /\ w' = w /\ reply' = reply
  BY DEF WriteCompressed
<1>2. PICK g \in Writer : g = w[r].gz
  BY <1>1, WriteCounts
<1>3. /\ gzip'[g].pending = Append(gzip[g].pending, NextChunk(r))
      /\ \A h \in Writer \ {g} : gzip'[h] = gzip[h]
  <2>1. gzip' = [gzip EXCEPT ![g].pending = Append(@, NextChunk(r))]
    BY <1>2 DEF WriteCompressed
  <2> QED BY <2>1 DEF TypeOK, GzipState
<1>4. ASSUME ~ handler[r].encodes
      PROVE  BodyKept(r)'
  <2>1. Compressing(r) /\ w[r].status \in {None, handler[r].status}
    BY <1>1, <1>4, WriteCounts DEF DeliveryInv, BodyKept
  <2>2. /\ NextChunk(r) = [of |-> r, nr |-> count[r] + 1, layers |-> 0]
        /\ NextChunk(r) \in Chunk
    BY <1>4, PlainChunk, NextChunkTypes
  <2>3. /\ gzip[g].pending \in Seq(Chunk) /\ count[r] \in Nat
        /\ Numbered(gzip[g].pending, r, count[r], 0)
    BY <1>1, <1>2, <2>1, WriteCounts, Unwritten DEF Compressing
  <2>4. Numbered(gzip'[g].pending, r, count'[r], 0)
    BY <1>1, <1>3, <2>2, <2>3, NumberedAppend, WriteCounts
  <2>5. Compressing(r)'
    BY <1>1, <1>2, <2>1, <2>4, WriteCounts DEF Compressing
  <2> QED BY <1>1, <2>1, <2>5, WriteCounts DEF BodyKept
<1>5. BodyKept(r)'
  <2>1. CASE handler[r].encodes
    BY <1>1, <2>1, WriteCounts DEF BodyKept
  <2> QED BY <1>4, <2>1
<1>6. \A q \in Request \ {r} : BodyKept(q)'
  BY <1>1, <1>2, <1>3, WriteCounts, OthersKept
<1> QED BY <1>5, <1>6 DEF DeliveryInv

LEMMA WriteBufferedKeeps ==
  ASSUME GzipInv, DeliveryInv, NEW r \in Request, WriteBuffered(r)
  PROVE  DeliveryInv'
<1> USE DEF GzipInv
<1>1. Writes(r) /\ ~ w[r].compressed /\ gzip' = gzip /\ reply' = reply
  BY DEF WriteBuffered
<1>2. PICK n \in Sizes :
        w' = [w EXCEPT ![r] =
          [@ EXCEPT !.buf = Append(w[r].buf, NextChunk(r)), !.size = w[r].size + n]]
  BY DEF WriteBuffered
<1>3. /\ w'[r].buf = Append(w[r].buf, NextChunk(r))
      /\ w'[r].status = w[r].status /\ ~ w'[r].compressed
      /\ \A q \in Request \ {r} : w'[q] = w[q]
  BY <1>1, <1>2 DEF TypeOK, Wrapper
<1>4. ASSUME ~ handler[r].encodes
      PROVE  BodyKept(r)'
  <2>1. Buffered(r) /\ w[r].status \in {None, handler[r].status}
    BY <1>1, <1>4, WriteCounts DEF DeliveryInv, BodyKept
  <2>2. /\ NextChunk(r) = [of |-> r, nr |-> count[r] + 1, layers |-> 0]
        /\ NextChunk(r) \in Chunk
    BY <1>4, PlainChunk, NextChunkTypes
  <2>3. w[r].buf \in Seq(Chunk) /\ count[r] \in Nat /\ Numbered(w[r].buf, r, count[r], 0)
    BY <2>1 DEF Buffered, TypeOK, Wrapper
  <2>4. Numbered(w'[r].buf, r, count'[r], 0)
    BY <1>1, <1>3, <2>2, <2>3, NumberedAppend, WriteCounts
  <2>5. Buffered(r)'
    BY <1>1, <2>1, <2>4 DEF Buffered, Unsent
  <2> QED BY <1>1, <1>3, <2>1, <2>5, WriteCounts DEF BodyKept
<1>5. BodyKept(r)'
  <2>1. CASE handler[r].encodes
    BY <1>1, <2>1, WriteCounts DEF BodyKept
  <2> QED BY <1>4, <2>1
<1>6. \A q \in Request \ {r} : BodyKept(q)'
  BY <1>1, <1>3, WriteCounts, OthersKept
<1> QED BY <1>5, <1>6 DEF DeliveryInv

LEMMA StartCompressionKeeps ==
  ASSUME GzipInv, DeliveryInv, NEW r \in Request, StartCompression(r)
  PROVE  DeliveryInv'
<1> USE DEF GzipInv
<1> DEFINE p == [reply[r] EXCEPT !.header = "gzip"]
<1>1. /\ Writes(r) /\ ~ w[r].compressed
      /\ w' = [w EXCEPT ![r] = [@ EXCEPT !.compressed = TRUE, !.buf = <<>>, !.size = 0]]
      /\ reply' = [reply EXCEPT ![r] =
           IF w[r].status # None THEN SendStatus(p, w[r].status) ELSE p]
      /\ gzip' = [gzip EXCEPT ![w[r].gz] =
           [target |-> r, pending |-> Append(w[r].buf, NextChunk(r))]]
  BY DEF StartCompression
<1>2. PICK g \in Writer : g = w[r].gz
  BY <1>1, WriteCounts
<1>3. /\ gzip'[g].pending = Append(w[r].buf, NextChunk(r))
      /\ \A h \in Writer \ {g} : gzip'[h] = gzip[h]
  BY <1>1, <1>2 DEF TypeOK
<1>4. /\ w'[r].gz = g /\ w'[r].status = w[r].status /\ w'[r].compressed
      /\ \A q \in Request \ {r} : w'[q] = w[q]
  BY <1>1, <1>2 DEF TypeOK, Wrapper
<1>5. /\ reply'[r] = IF w[r].status # None THEN SendStatus(p, w[r].status) ELSE p
      /\ \A q \in Request \ {r} : reply'[q] = reply[q]
  BY <1>1 DEF TypeOK
<1>6. ASSUME ~ handler[r].encodes
      PROVE  BodyKept(r)'
  <2>1. Buffered(r) /\ w[r].status \in {None, handler[r].status}
    BY <1>1, <1>6, WriteCounts DEF DeliveryInv, BodyKept
  <2>2. w[r].status = handler[r].status
    BY <1>1, <2>1, WriteCounts
  <2>3. reply[r] \in Reply
    BY DEF TypeOK
  <2>4. /\ p \in Reply /\ p.status = None /\ p.encoding = None /\ p.header = "gzip"
        /\ p.body = <<>> /\ ~ p.ended
    BY <2>1, <2>3 DEF Buffered, Unsent, Reply
  <2>5. /\ reply'[r].status = w[r].status /\ reply'[r].header = "gzip"
        /\ reply'[r].encoding = IF w[r].status = None THEN None ELSE "gzip"
        /\ reply'[r].body = <<>> /\ ~ reply'[r].ended
    <3>1. CASE w[r].status = None
      BY <3>1, <1>5, <2>4
    <3>2. CASE w[r].status # None
      <4>1. w[r].status \in Nat /\ reply'[r] = SendStatus(p, w[r].status)
        BY <3>2, <1>5 DEF TypeOK, Wrapper
      <4> HIDE DEF p
      <4>2. /\ reply'[r].status = w[r].status /\ reply'[r].encoding = p.header
            /\ reply'[r].header = p.header /\ reply'[r].body = <<>>
            /\ reply'[r].ended = p.ended
        BY <4>1, <2>4, Sent
      <4> QED BY <3>2, <4>2, <2>4, Zenon
    <3> QED BY <3>1, <3>2
  <2>6. /\ NextChunk(r) = [of |-> r, nr |-> count[r] + 1, layers |-> 0]
        /\ NextChunk(r) \in Chunk
    BY <1>6, PlainChunk, NextChunkTypes
  <2>7. w[r].buf \in Seq(Chunk) /\ count[r] \in Nat /\ Numbered(w[r].buf, r, count[r], 0)
    BY <2>1 DEF Buffered, TypeOK, Wrapper
  <2>8. Numbered(gzip'[g].pending, r, count'[r], 0)
    BY <1>1, <1>3, <2>6, <2>7, NumberedAppend, WriteCounts
  <2>9. handler'[r].status = handler[r].status /\ handler' = handler /\ pc' = pc
        /\ pc[r] = "run"
    BY <1>1, WriteCounts
  <2>10. Compressing(r)'
    BY <1>4, <2>2, <2>5, <2>8, <2>9 DEF Compressing
  <2> QED BY <1>4, <2>1, <2>9, <2>10 DEF BodyKept
<1>7. BodyKept(r)'
  <2>1. CASE handler[r].encodes
    BY <1>1, <2>1, WriteCounts DEF BodyKept
  <2> QED BY <1>6, <2>1
<1>8. \A q \in Request \ {r} : BodyKept(q)'
  BY <1>1, <1>2, <1>3, <1>4, <1>5, WriteCounts, OthersKept
<1> QED BY <1>7, <1>8 DEF DeliveryInv

\* A handler returns with its status set and all its chunks written.
LEMMA ReturnKeeps ==
  ASSUME GzipInv, DeliveryInv, NEW r \in Request, Return(r)
  PROVE  DeliveryInv'
<1>1. /\ pc[r] = "run" /\ pc'[r] = "close" /\ \A q \in Request \ {r} : pc'[q] = pc[q]
      /\ handler[r].status # None => w[r].status # None
      /\ count[r] = handler[r].chunks
      /\ handler' = handler /\ count' = count /\ w' = w /\ reply' = reply /\ gzip' = gzip
  BY DEF Return, MustSetStatus, Goto, GzipInv, TypeOK
<1>2. BodyKept(r)'
  BY <1>1 DEF DeliveryInv, BodyKept, Buffered, Unsent, Compressing
<1>3. \A q \in Request \ {r} : BodyKept(q)'
  BY <1>1, Frame DEF DeliveryInv
<1> QED BY <1>2, <1>3 DEF DeliveryInv

LEMMA PutKeeps ==
  ASSUME GzipInv, DeliveryInv, NEW r \in Request, Put(r)
  PROVE  DeliveryInv'
<1>1. /\ pc[r] = "put" /\ pc'[r] = "done" /\ \A q \in Request \ {r} : pc'[q] = pc[q]
      /\ handler' = handler /\ count' = count /\ w' = w /\ reply' = reply /\ gzip' = gzip
  BY DEF Put, Goto, GzipInv, TypeOK
<1>2. BodyKept(r)'
  BY <1>1 DEF DeliveryInv, BodyKept, Complete
<1>3. \A q \in Request \ {r} : BodyKept(q)'
  BY <1>1, Frame DEF DeliveryInv
<1> QED BY <1>2, <1>3 DEF DeliveryInv

\* What was given to the gzip.Writer arrives, compressed once, under the header
\* that announced it, and is ended.
LEMMA CloseCompressedKeeps ==
  ASSUME GzipInv, DeliveryInv, NEW r \in Request, CloseCompressed(r)
  PROVE  DeliveryInv'
<1> USE DEF GzipInv
<1>1. /\ pc[r] = "close" /\ w[r].compressed /\ pc' = [pc EXCEPT ![r] = "put"]
      /\ handler' = handler /\ count' = count /\ w' = w
  BY DEF CloseCompressed, Goto
<1>2. PICK g \in Writer : g = w[r].gz /\ gzip[g].target = r
  BY <1>1, Holds DEF ChunksSeparate
<1>3. PICK chunks \in Seq(Chunk) :
        /\ chunks = Compress(gzip[g].pending)
        /\ reply' = [reply EXCEPT ![r] = [SendBody(@, chunks) EXCEPT !.ended = TRUE]]
  <2>1. Compress(gzip[g].pending) \in Seq(Chunk)
    BY Unwritten, CompressedChunks
  <2> QED BY <1>2, <2>1 DEF CloseCompressed
<1>4. /\ pc'[r] = "put" /\ \A q \in Request \ {r} : pc'[q] = pc[q]
      /\ reply'[r] = [SendBody(reply[r], chunks) EXCEPT !.ended = TRUE]
      /\ \A q \in Request \ {r} : reply'[q] = reply[q]
      /\ \A h \in Writer \ {g} : gzip'[h] = gzip[h]
  BY <1>1, <1>2, <1>3 DEF TypeOK, CloseCompressed
<1>5. ASSUME ~ handler[r].encodes
      PROVE  BodyKept(r)'
  <2>1. /\ Compressing(r) /\ w[r].status = handler[r].status
        /\ count[r] = handler[r].chunks
    BY <1>1, <1>5 DEF DeliveryInv, BodyKept
  <2>2. reply[r] \in Reply
    BY DEF TypeOK
  <2>3. /\ SendBody(reply[r], chunks) \in Reply
        /\ SendBody(reply[r], chunks).body = chunks
        /\ SendBody(reply[r], chunks).encoding = "gzip"
        /\ SendBody(reply[r], chunks).status =
             IF handler[r].status # None THEN handler[r].status ELSE 200
    BY <2>1, <2>2, BodySent DEF Compressing
  <2>4. /\ reply'[r].body = chunks /\ reply'[r].encoding = "gzip" /\ reply'[r].ended = TRUE
        /\ reply'[r].status = IF handler[r].status # None THEN handler[r].status ELSE 200
    BY <1>4, <2>3 DEF Reply
  <2>5. count[r] \in Nat /\ gzip[g].pending \in Seq(Chunk)
    BY Unwritten DEF TypeOK
  <2>6. Numbered(gzip[g].pending, r, count[r], 0)
    BY <1>2, <2>1 DEF Compressing
  <2>7. Numbered(chunks, r, handler[r].chunks, 1)
    BY <1>3, <2>1, <2>5, <2>6, NumberedCompress
  <2>8. Complete(r)'
    BY <1>1, <2>4, <2>7 DEF Complete
  <2> QED BY <1>1, <1>4, <2>1, <2>8 DEF BodyKept
<1>6. BodyKept(r)'
  <2>1. CASE handler[r].encodes
    BY <1>1, <2>1 DEF BodyKept
  <2> QED BY <1>5, <2>1
<1>7. \A q \in Request \ {r} : BodyKept(q)'
  BY <1>1, <1>2, <1>4, OthersKept
<1> QED BY <1>6, <1>7 DEF DeliveryInv

\* A small body goes out as it is, with the status that was kept for it.
LEMMA CloseBufferedKeeps ==
  ASSUME GzipInv, DeliveryInv, NEW r \in Request, CloseBuffered(r)
  PROVE  DeliveryInv'
<1> USE DEF GzipInv
<1> DEFINE p == IF w[r].status # None THEN SendStatus(reply[r], w[r].status) ELSE reply[r]
<1>1. /\ pc[r] = "close" /\ ~ w[r].compressed
      /\ reply' = [reply EXCEPT ![r] = SendBody(p, w[r].buf)]
      /\ handler' = handler /\ count' = count /\ w' = w /\ gzip' = gzip
  BY DEF CloseBuffered
<1>2. /\ pc'[r] = "put" /\ \A q \in Request \ {r} : pc'[q] = pc[q]
      /\ reply'[r] = SendBody(p, w[r].buf)
      /\ \A q \in Request \ {r} : reply'[q] = reply[q]
  BY <1>1 DEF TypeOK, CloseBuffered, Goto
<1>3. ASSUME ~ handler[r].encodes
      PROVE  BodyKept(r)'
  <2>1. /\ Buffered(r) /\ w[r].status = handler[r].status
        /\ count[r] = handler[r].chunks
    BY <1>1, <1>3 DEF DeliveryInv, BodyKept
  <2>2. /\ reply[r] \in Reply /\ w[r].buf \in Seq(Chunk)
        /\ reply[r].status = None /\ reply[r].encoding = None /\ reply[r].header = None
        /\ reply[r].body = <<>> /\ reply[r].ended = FALSE
    BY <2>1 DEF TypeOK, Reply, Wrapper, Buffered, Unsent
  <2>3. /\ p \in Reply /\ p.status = w[r].status /\ p.header = None /\ p.encoding = None
        /\ p.body = <<>> /\ p.ended = FALSE
    <3>1. CASE w[r].status = None
      BY <3>1, <2>2
    <3>2. CASE w[r].status # None
      <4>1. w[r].status \in Nat /\ p = SendStatus(reply[r], w[r].status)
        BY <3>2 DEF TypeOK, Wrapper
      <4> QED BY <4>1, <2>2, Sent
    <3> QED BY <3>1, <3>2
  <2> HIDE DEF p
  <2>4. /\ reply'[r].status = IF handler[r].status # None THEN handler[r].status ELSE 200
        /\ reply'[r].encoding = None /\ reply'[r].body = w[r].buf
        /\ reply'[r].ended = FALSE
    BY <1>2, <2>1, <2>2, <2>3, BodySent
  <2>5. Numbered(w[r].buf, r, handler[r].chunks, 0)
    BY <2>1 DEF Buffered
  <2>6. None # "gzip"
    BY NoneAssumption
  <2>7. Complete(r)'
    BY <1>1, <2>4, <2>5, <2>6 DEF Complete
  <2> QED BY <1>1, <1>2, <2>1, <2>7 DEF BodyKept
<1>4. BodyKept(r)'
  <2>1. CASE handler[r].encodes
    BY <1>1, <2>1 DEF BodyKept
  <2> QED BY <1>3, <2>1
<1>5. \A q \in Request \ {r} : BodyKept(q)'
  BY <1>1, <1>2, Frame DEF DeliveryInv
<1> QED BY <1>4, <1>5 DEF DeliveryInv

LEMMA DeliveryStep ==
  ASSUME GzipInv, DeliveryInv, [Next]_gzipVars
  PROVE  DeliveryInv'
<1>1. ASSUME NEW r \in Request, ServePlain(r) \/ ServeWrapped(r) \/ WriteHeader(r)
      PROVE  DeliveryInv'
  BY <1>1, ServePlainKeeps, ServeWrappedKeeps, WriteHeaderKeeps
<1>2. ASSUME NEW r \in Request, Write(r)
      PROVE  DeliveryInv'
  BY <1>2, WriteCompressedKeeps, WriteBufferedKeeps, StartCompressionKeeps DEF Write
<1>3. ASSUME NEW r \in Request, Return(r) \/ Close(r) \/ Put(r)
      PROVE  DeliveryInv'
  BY <1>3, ReturnKeeps, CloseCompressedKeeps, CloseBufferedKeeps, PutKeeps DEF Close
<1>4. CASE UNCHANGED gzipVars
  BY <1>4, Frame DEF gzipVars, DeliveryInv
<1> QED BY <1>1, <1>2, <1>3, <1>4 DEF Next

\* The client gets exactly what the handler wrote, in order and complete, with
\* its status, and compressed as the header says (GzipMiddleware,
\* gzipResponseWriter.Write and Close).
THEOREM DeliveredComplete == Spec => []Delivered
<1>1. GzipInv /\ DeliveryInv /\ [Next]_gzipVars => DeliveryInv'
  BY DeliveryStep
<1>2. DeliveryInv => Delivered
  <2> SUFFICES ASSUME DeliveryInv, NEW r \in Request, pc[r] \in {"put", "done"},
                      ~ handler[r].encodes
               PROVE  Complete(r)
    BY DEF Delivered, Complete, Numbered
  <2> QED BY DEF DeliveryInv, BodyKept
<1> QED
  BY <1>1, <1>2, DeliveryInit, GzipCorrect, PTL DEF Spec

==============================================================================
