------------------------------ MODULE HttpParser ------------------------------
(***************************************************************************)
(* What HTTPRequestParser and HTTPResponseParser make of the bytes they    *)
(* are given.  A head is a sequence of tokens of two bytes, the second of  *)
(* which stands for the token's end and the separator after it, where the  *)
(* automaton calls back.  The automaton's state survives from one call of  *)
(* excute to the next, but the marks that say where a token began do not:  *)
(* they point into a buffer whose bytes excute has moved away.  A chunk's  *)
(* header is parsed by an automaton that starts anew in every call.        *)
(***************************************************************************)
EXTENDS Integers, Sequences, SequencesExt

CONSTANT Radix  \* of the two digits of a chunk's size; 16 in the protocol

ASSUME RadixAssumption == Radix \in Nat \ {0, 1}

Byte(t, p, v) == [tok |-> t, part |-> p, val |-> v]
Token(t, v)   == << Byte(t, "first", v), Byte(t, "last", v) >>
End           == << Byte("end", "only", 0) >>

Content(from, n) == [i \in 1 .. n |-> Byte("content", "only", from + i)]

\* "content-length" and its value; a request without a body has neither.
Length(n) == IF n = 0 THEN <<>> ELSE Token("name", 0) \o Token("value", n)

Request(n) == Token("method", 0) \o Token("path", 0) \o Token("version", 0)
              \o Length(n) \o End \o Content(0, n)

PlainResponse(n) == Token("version", 0) \o Token("status", 0)
                    \o Length(n) \o End \o Content(0, n)

Chunk(from, n) ==
  << Byte("digit", "first", n \div Radix), Byte("digit", "last", n % Radix),
     Byte("eol", "only", 0) >>
  \o Content(from, n) \o Token("crlf", 0)

Total(sizes) == FoldLeft(LAMBDA sum, n : sum + n, 0, sizes)

ChunkedResponse(sizes) ==
  Token("version", 0) \o Token("status", 0)
  \o Token("name", 0) \o Token("coding", 0) \o End
  \o FlattenSeq([i \in 1 .. Len(sizes) |->
                   Chunk(Total(SubSeq(sizes, 1, i - 1)), sizes[i])])

-----------------------------------------------------------------------------
(* One call of excute consumes its input up to the byte `stop', or all.    *)

Places(s, t) == {i \in DOMAIN s : s[i].tok = t}

Finished(s, stop) == Places(s, stop) # {}
Consumed(s, stop) ==
  IF Finished(s, stop)
  THEN CHOOSE i \in Places(s, stop) : \A j \in Places(s, stop) : i <= j
  ELSE Len(s)

Piece(s, stop) == SubSeq(s, 1, Consumed(s, stop))
Rest(s, stop)  == SubSeq(s, Consumed(s, stop) + 1, Len(s))

\* The token whose first byte came in an earlier call: it is cut short.
Torn(p) == IF p[1].part = "last" THEN {p[1].tok} ELSE {}

-----------------------------------------------------------------------------
(* Heads.  A field whose name ended in an earlier call has an empty name,  *)
(* which is error 1002; of a name that is cut only the tail is left, and   *)
(* the header is stored under it.  A method or a version that is cut is    *)
(* most often, but not always, an error.                                   *)

HeadTokens == {"method", "path", "version", "status",
               "name", "value", "coding", "end"}

Fatal(p) == p[1].tok \in {"value", "coding"}

\* Bytes of a body: what the automaton makes of them is up to what they are.
Foreign(p) == \E i \in DOMAIN p : p[i].tok \notin HeadTokens

Errors(p) == IF Fatal(p) THEN {TRUE}
             ELSE IF Foreign(p) \/ Torn(p) \cap {"method", "version"} # {}
             THEN BOOLEAN ELSE {FALSE}

\* The content length once p was consumed, if it was n before.
NewLength(p, n) ==
  IF \E i, j \in DOMAIN p : /\ p[i] = Byte("name", "first", 0)
                            /\ p[j].tok = "value" /\ p[j].part = "last"
  THEN p[CHOOSE j \in DOMAIN p : p[j].tok = "value"].val
  ELSE n

\* The automaton itself sets the flag, whatever became of the marks.
Coding(p) == \E i \in DOMAIN p : p[i] = Byte("coding", "last", 0)

-----------------------------------------------------------------------------
(* Chunk headers.                                                          *)

\* A header is a size or an error; what begins with a byte of the content may
\* be taken for either, or for the beginning of a response.
Misplaced(p) == p[1].tok \notin {"digit", "content"}
Mistakable(p) == p[1].tok = "content"

ChunkSize(p) ==
  FoldLeft(LAMBDA n, b : IF b.tok = "digit" THEN n * Radix + b.val ELSE n, 0, p)
=============================================================================
