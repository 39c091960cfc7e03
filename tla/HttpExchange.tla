----------------------------- MODULE HttpExchange -----------------------------
(***************************************************************************)
(* One end of an HTTP connection.  As a "session" it is                    *)
(* HTTPSever::handleCilent, which receives requests with                   *)
(* HTTPSession::recvRequest and answers them; as a "connection" it is      *)
(* HTTPConnection::recvResponse.  Each step is one call of read or write   *)
(* on the socket and what the code does with its result.  A read returns   *)
(* any part of what has arrived.  The other end is any correct peer, which *)
(* may leave at any time.  Where the code has lost its place and takes the *)
(* bytes of a body for a head, what follows depends on those bytes, and    *)
(* anything may: "astray".  Where it writes behind its memory it may die:  *)
(* "crashed".                                                              *)
(***************************************************************************)
EXTENDS HttpParser, FiniteSetsExt

CONSTANTS Lengths,     \* of the bodies of requests and of plain responses
          Chunkings,   \* sequences of chunk sizes, the last one 0
          Buffer,      \* http.request.buffer_size, http.response.buffer_size
          Answer,      \* bytes of a response of the session
          Pipelining,  \* whether clients ask again before they are answered
          MaxRequests

ASSUME HttpAssumption ==
  /\ Lengths \subseteq Nat
  /\ Buffer \in Nat \ {0} /\ Answer \in Nat \ {0} /\ MaxRequests \in Nat
  /\ Pipelining \in BOOLEAN
  /\ \A c \in Chunkings :
       /\ c \in Seq(0 .. Radix * Radix - 1) \ {<<>>}
       /\ \A i \in DOMAIN c : c[i] = 0 <=> i = Len(c)

VARIABLES kind,    \* "session" or "connection"
          wire,    \* bytes sent by the peer and not yet read
          sizes,   \* of the parts of the last body sent by the peer
          asked, answered, \* messages begun and messages dealt with
          gone,    \* the peer has left
          pc,
          data,    \* what the buffer holds that the parser has not consumed
          length, chunked, \* what the parser says of the head
          body,
          left,    \* bytes that must still be read or written
          last,    \* chunks_done, or that the session closes after its answer
          torn     \* history: tokens that two calls of excute had to share

peerVars   == <<kind, wire, sizes, asked, gone>>
parserVars == <<length, chunked, torn>>
vars == <<kind, wire, sizes, asked, answered, gone, pc, data, length,
          chunked, body, left, last, torn>>

Unset == Byte("unset", "only", 0)  \* what the buffer holds behind the data

TypeOK ==
  /\ kind \in {"session", "connection"}
  /\ asked \in 0 .. MaxRequests /\ answered \in 0 .. asked
  /\ gone \in BOOLEAN /\ chunked \in BOOLEAN /\ last \in BOOLEAN
  /\ pc \in {"head", "fixed", "handle", "write", "chunk", "content",
             "done", "closed", "crashed", "astray"}
  /\ Len(data) <= Buffer
  /\ length \in Lengths \cup {0} /\ left \in Nat
  /\ torn \subseteq HeadTokens \cup {"digit", "crlf"}

Init ==
  /\ kind \in {"session", "connection"}
  /\ wire = <<>> /\ sizes = <<>>
  /\ asked = 0 /\ answered = 0 /\ gone = FALSE
  /\ pc = "head" /\ data = <<>>
  /\ length = 0 /\ chunked = FALSE
  /\ body = <<>> /\ left = 0 /\ last = FALSE
  /\ torn = {}

-----------------------------------------------------------------------------
(* The other end.                                                          *)

Send(bytes, parts) ==
  /\ ~gone /\ pc \notin {"closed", "crashed"} /\ asked < MaxRequests
  /\ wire' = wire \o bytes /\ sizes' = parts
  /\ asked' = asked + 1
  /\ UNCHANGED <<kind, answered, gone, pc, data, parserVars, body, left, last>>

ClientAsks ==
  /\ kind = "session" /\ (Pipelining \/ asked = answered)
  /\ \E n \in Lengths : Send(Request(n), <<n>>)

ServerAnswers ==
  /\ kind = "connection" /\ asked = 0
  /\ \/ \E n \in Lengths : Send(PlainResponse(n), <<n>>)
     \/ \E c \in Chunkings : Send(ChunkedResponse(c), c)

PeerLeaves ==
  /\ ~gone /\ gone' = TRUE
  /\ UNCHANGED <<kind, wire, sizes, asked, answered, pc, data, parserVars,
                 body, left, last>>

-----------------------------------------------------------------------------
(* read and write of SocketStream.                                         *)

Prefix(s, n) == SubSeq(s, 1, n)
Suffix(s, n) == SubSeq(s, n + 1, Len(s))

\* How many bytes read may return of at most n that were asked for.
Reads(n) == 1 .. Min({n, Len(wire)})

Taken(k) == /\ wire' = Suffix(wire, k)
            /\ UNCHANGED <<kind, sizes, asked, gone>>

Close == /\ pc' = "closed" /\ data' = <<>> /\ body' = <<>> /\ left' = 0
         /\ UNCHANGED <<answered, parserVars, last>>

\* Bytes of a body are parsed as the beginning of a message.
GoAstray == /\ pc' = "astray" /\ data' = <<>> /\ body' = <<>> /\ left' = 0
            /\ UNCHANGED <<answered, parserVars, last>>

\* 0 or -1: the peer has left, or nothing came before the receive timeout.
ReadFails ==
  /\ pc \in {"head", "fixed", "chunk", "content", "astray"}
  /\ Close /\ UNCHANGED peerVars

-----------------------------------------------------------------------------
(* The body of a request: what the parser left of the buffer, then the     *)
(* rest from the socket.  `len' is 0 when it is compared with offset.      *)

CopiedNone(n, d) == [i \in 1 .. n |-> Unset]  \* mutant: nothing is copied

Copied(n, d) ==
  IF Len(d) = 0 THEN <<>>
  ELSE [i \in 1 .. n |-> IF i <= Len(d) THEN d[i] ELSE Unset]

MissingAll(n, d) == n  \* mutant: what was copied is asked for again
Missing(n, d) == n - Len(d)

\* A part of a body longer than the buffer: more is copied than the buffer has.
Beyond(n, d) == Len(d) > 0 /\ n > Buffer

RequestBody(n, d) ==
  IF n = 0
  THEN body' = <<>> /\ left' = 0 /\ pc' = "handle"
  ELSE /\ body' = Copied(n, d)
       /\ left' = IF Missing(n, d) > 0 THEN Missing(n, d) ELSE 0
       /\ \/ pc' = IF Missing(n, d) > 0 THEN "fixed" ELSE "handle"
          \/ Beyond(n, d) /\ pc' = "crashed"

\* getContentLength of a response asks for "content_length": it is always 0.
ResponseBody(c) ==
  /\ body' = <<>> /\ left' = 0
  /\ pc' = IF c THEN "chunk" ELSE "done"

Returned == IF pc' = "done" THEN answered' = 1 ELSE UNCHANGED answered

ReadHead ==
  /\ pc = "head"
  /\ \E k \in Reads(Buffer - Len(data)) :
       LET s == data \o Prefix(wire, k)
           p == Piece(s, "end")
           rest == Rest(s, "end") IN
       /\ Taken(k)
       /\ \E error \in Errors(p) :
            IF error \/ Len(rest) = Buffer THEN Close
            ELSE IF Foreign(p) THEN GoAstray
            ELSE /\ torn' = torn \cup Torn(p)
                 /\ length' = NewLength(p, length)
                 /\ chunked' = (chunked \/ Coding(p))
                 /\ data' = rest
                 /\ IF ~Finished(s, "end")
                    THEN UNCHANGED <<pc, body, left>>
                    ELSE IF kind = "session" THEN RequestBody(length', rest)
                    ELSE ResponseBody(chunked')
                 /\ Returned /\ UNCHANGED last

Overruns(b) == Len(b) > length

\* readFixSize.  A body that came in part with its head has its full length
\* already, and the rest is written behind its end: into memory of others.
ReadFixed ==
  /\ pc = "fixed"
  /\ \E k \in Reads(left) :
       /\ Taken(k)
       /\ body' = body \o Prefix(wire, k)
       /\ left' = left - k
       /\ \/ pc' = IF left' = 0 THEN "handle" ELSE pc
          \/ Overruns(body') /\ pc' = "crashed"
  /\ UNCHANGED <<answered, data, parserVars, last>>

-----------------------------------------------------------------------------
(* The rest of HTTPSever::handleCilent.                                    *)

\* The request's connection header and m_isKeepAlive decide.
Handle ==
  /\ pc = "handle"
  /\ last' \in BOOLEAN
  /\ left' = Answer /\ pc' = "write"
  /\ data' = <<>> /\ body' = <<>>  \* the buffer was recvRequest's own
  /\ UNCHANGED <<peerVars, answered, parserVars>>

NextRequest == /\ pc' = IF last THEN "closed" ELSE "head"
               /\ length' = 0 /\ UNCHANGED <<chunked, torn>>

\* writeFixSize.
Write ==
  /\ pc = "write"
  /\ \E k \in 1 .. left :
       /\ left' = left - k
       /\ IF left' = 0 THEN NextRequest /\ answered' = answered + 1
          ELSE UNCHANGED <<pc, parserVars, answered>>
  /\ UNCHANGED <<peerVars, data, body, last>>

\* sendResponse's result is ignored.
WriteFails ==
  /\ pc = "write" /\ gone
  /\ NextRequest /\ left' = 0
  /\ UNCHANGED <<peerVars, answered, data, body, last>>

-----------------------------------------------------------------------------
(* What the caller gets.                                                   *)

\* The body that is put into a message which is handed on: recvResponse sets
\* it, recvRequest keeps what it received in a variable of its own.
Handed == IF kind = "connection" THEN body ELSE <<>>

-----------------------------------------------------------------------------
(* The chunked body of a response.                                         *)

AfterChunk(done) == /\ pc' = IF done THEN "done" ELSE "chunk"
                    /\ Returned

CompleteBare(n, s) == n <= Len(s)  \* mutant: the chunk's line end is forgotten
Complete(n, s) == n + 2 <= Len(s)

\* Content of n bytes of which s is in the buffer, perhaps with more.
TakeChunk(n, s) ==
  IF Complete(n, s)
  THEN /\ body' = body \o Prefix(s, n)
       /\ data' = Suffix(s, n + 2) /\ left' = 0
       /\ AfterChunk(n = 0) /\ UNCHANGED last
  ELSE /\ body' = body \o s
       /\ data' = <<>> /\ left' = n - Len(s) + 2
       /\ last' = (n = 0) /\ pc' = "content" /\ UNCHANGED answered

ParseChunk(s) ==
  LET p == Piece(s, "eol")
      rest == Rest(s, "eol") IN
  IF Misplaced(p) \/ Len(rest) = Buffer THEN Close
  ELSE IF Mistakable(p) THEN Close \/ GoAstray
  ELSE /\ torn' = torn \cup Torn(p)
       /\ UNCHANGED <<length, chunked>>
       /\ IF Finished(s, "eol") THEN TakeChunk(ChunkSize(p), rest)
          ELSE data' = rest /\ UNCHANGED <<pc, body, left, last, answered>>

\* The socket is read only when the buffer is empty.
ChunkHeader ==
  /\ pc = "chunk"
  /\ \/ data # <<>> /\ ParseChunk(data) /\ UNCHANGED peerVars
     \/ /\ data = <<>>
        /\ \E k \in Reads(Buffer) : Taken(k) /\ ParseChunk(Prefix(wire, k))

ReadContent ==
  /\ pc = "content"
  /\ \E k \in Reads(Min({left, Buffer})) :
       /\ Taken(k)
       /\ left' = left - k
       /\ LET all == body \o Prefix(wire, k) IN
          IF left' > 0 THEN body' = all /\ UNCHANGED <<pc, answered>>
          ELSE body' = Prefix(all, Len(all) - 2) /\ AfterChunk(last)
  /\ UNCHANGED <<data, parserVars, last>>

-----------------------------------------------------------------------------
(* The bytes of a body, read as anything: an error, a message that nobody  *)
(* sent, which is answered or returned, or a size that is waited for.      *)

Stray ==
  /\ pc = "astray"
  /\ \E k \in 0 .. Min({Buffer, Len(wire)}) : Taken(k)
  /\ \/ Close
     \/ /\ IF kind = "session" THEN pc' = pc /\ answered' \in answered .. asked
           ELSE pc' \in {"astray", "done"} /\ Returned
        /\ UNCHANGED <<data, parserVars, body, left, last>>

-----------------------------------------------------------------------------
Peer == ClientAsks \/ ServerAnswers \/ PeerLeaves

Session == ReadFixed \/ Handle \/ Write \/ WriteFails
Connection == ChunkHeader \/ ReadContent

Next == Peer \/ ReadHead \/ ReadFails \/ Session \/ Connection \/ Stray

\* The worker goes on as long as read and write return, and the end of the
\* connection is seen.  No timeout, nothing of the peer, and nothing that the
\* bytes of a body may be taken for, is fair.
Spec ==
  /\ Init /\ [][Next]_vars
  /\ WF_vars(ReadHead \/ Session \/ Connection)
  /\ WF_vars(gone /\ ReadFails)

-----------------------------------------------------------------------------
(* Properties.                                                             *)

\* When a request goes to the servlets, the whole of its body has been read,
\* and the next read begins at the next request, however the bytes were split
\* between the reads: the body is the one its client sent, or, if it came in
\* part with the head, was written beyond its end (httpSession.cpp:51) -- unless
\* the name of the content length was split, of which only the tail is seen
\* then (recvRequest).
SessionFramed ==
  kind = "session" /\ pc = "handle" /\ "name" \notin torn
    => wire = <<>> /\ (body = Content(0, sizes[1]) \/ Len(body) > sizes[1])

\* A chunked response is returned with the content of its chunks in their
\* order, without their line ends, and it was read to its end and no further,
\* however it was split between the reads -- unless the size of a chunk was
\* split, which is then read as its tail (httpConnection.cpp, recvResponse).
ChunksDecoded ==
  kind = "connection" /\ pc = "done" /\ chunked /\ "digit" \notin torn
    => Handed = Content(0, Total(sizes)) /\ wire = <<>> /\ data = <<>>

\* Whoever has sent a whole message gets it dealt with, or the connection ends:
\* neither end waits for bytes that it has in its buffer already or that will
\* not come, and no timeout is needed for it -- unless the name of a length or
\* the digits of a chunk's size were split.
Answered ==
  asked > answered ~> \/ asked = answered \/ pc \in {"closed", "crashed"}
                      \/ torn \cap {"name", "digit"} # {}

\* What stream.h:44 says of readFixSize: its length is the size of the memory
\* that is read into, here what the body has not got yet.
ReadFits == pc = "fixed" => Len(body) + left <= length

\* What http.h:241 says of HTTPRequest::getBody, which the servlets call: it is
\* the body of the request.
BodyHanded ==
  kind = "session" /\ pc = "handle" /\ torn = {} => Handed = Content(0, sizes[1])
=============================================================================
