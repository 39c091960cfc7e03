----------------------------- MODULE HttpProofs -----------------------------
(***************************************************************************)
(* Proofs about both ends of HttpExchange, for every buffer size and every *)
(* division of the bytes into reads.  Sessions: for every set of lengths a *)
(* request of a client that waits for its answers is received as it was    *)
(* sent.  What has not been read is always the end of one request, whose   *)
(* i-th byte is At(n, i): the invariant says how far the session has come. *)
(* Connections: for every set of chunkings a chunked response is returned  *)
(* as the content of its chunks.  What has not been read is what remains   *)
(* from a place inside one chunk on, and the invariant names the chunk.    *)
(***************************************************************************)
EXTENDS HttpExchange, SequenceTheorems, FiniteSetTheorems, WellFoundedInduction, TLAPS

\* The bytes that are sent, and the one that nobody wrote.
Tokens == {"method", "path", "version", "status", "name", "value", "coding", "end",
           "content", "digit", "eol", "crlf", "unset"}
Parts == {"first", "last", "only"}
Bytes == [tok : Tokens, part : Parts, val : Nat]

\* The head of a request with a body of n bytes has so many bytes.
HeadLength(n) == IF n = 0 THEN 7 ELSE 11

\* The i-th byte of such a request.
At(n, i) ==
  CASE i = 1 -> Byte("method", "first", 0)
    [] i = 2 -> Byte("method", "last", 0)
    [] i = 3 -> Byte("path", "first", 0)
    [] i = 4 -> Byte("path", "last", 0)
    [] i = 5 -> Byte("version", "first", 0)
    [] i = 6 -> Byte("version", "last", 0)
    [] i = HeadLength(n) -> Byte("end", "only", 0)
    [] i = 7 /\ n # 0 -> Byte("name", "first", 0)
    [] i = 8 /\ n # 0 -> Byte("name", "last", 0)
    [] i = 9 /\ n # 0 -> Byte("value", "first", n)
    [] i = 10 /\ n # 0 -> Byte("value", "last", n)
    [] OTHER -> Byte("content", "only", 0 + (i - HeadLength(n)))

\* The k bytes of it that follow the first c.
Seg(n, c, k) == [i \in 1..k |-> At(n, c + i)]

\* q is s with a and b after it.
Ended(q, s, a, b) ==
  /\ q \in Seq(Bytes) /\ Len(q) = Len(s) + 2
  /\ \A i \in 1..Len(s) : q[i] = s[i]
  /\ q[Len(s) + 1] = a /\ q[Len(s) + 2] = b

\* Two bytes behind a sequence, as tokens are put together.
LEMMA Pair ==
  ASSUME NEW s \in Seq(Bytes), NEW a \in Bytes, NEW b \in Bytes
  PROVE  Ended(s \o <<a, b>>, s, a, b)
<1>1. PICK t : t = <<a, b>> OBVIOUS
<1>2. t \in Seq(Bytes) /\ Len(t) = 2 /\ t[1] = a /\ t[2] = b BY <1>1
<1>3. /\ s \o t \in Seq(Bytes) /\ Len(s \o t) = Len(s) + Len(t)
      /\ \A i \in 1 .. Len(s) + Len(t) : (s \o t)[i] = IF i <= Len(s) THEN s[i] ELSE t[i - Len(s)]
  BY <1>2, ConcatProperties
<1>4. PICK q : q = s \o t OBVIOUS
<1>5. PICK m \in Nat : m = Len(s) OBVIOUS
<1>6. /\ q \in Seq(Bytes) /\ Len(q) = m + 2
      /\ \A i \in 1 .. m + 2 : q[i] = IF i <= m THEN s[i] ELSE t[i - m]
  BY <1>2, <1>3, <1>4, <1>5
<1>7. /\ \A i \in 1..m : q[i] = s[i]
      /\ q[m + 1] = a /\ q[m + 2] = b
  <2>1. \A i \in 1..m : i \in 1..m + 2 /\ i <= m BY ONLY m \in Nat
  <2>2. m + 1 \in 1..m + 2 /\ m + 2 \in 1..m + 2 /\ ~(m + 1 <= m) /\ ~(m + 2 <= m)
        /\ (m + 1) - m = 1 /\ (m + 2) - m = 2
    BY ONLY m \in Nat
  <2>3. QED BY ONLY <1>2, <1>6, <2>1, <2>2
<1>8. QED BY <1>1, <1>4, <1>5, <1>6, <1>7 DEF Ended

\* All bytes of a request are bytes.
LEMMA AtType ==
  ASSUME NEW n \in Nat, NEW i \in Nat, i > 0
  PROVE  At(n, i) \in Bytes
<1>1. CASE i <= HeadLength(n)
  <2>1. i \in 1..11 BY <1>1 DEF HeadLength
  <2> USE DEF At, HeadLength, Byte, Bytes, Tokens, Parts
  <2>2. CASE i = 1 BY <2>2
  <2>3. CASE i = 2 BY <2>3
  <2>4. CASE i = 3 BY <2>4
  <2>5. CASE i = 4 BY <2>5
  <2>6. CASE i = 5 BY <2>6
  <2>7. CASE i = 6 BY <2>7
  <2>8. CASE i = 7 BY <1>1, <2>8
  <2>9. CASE i = 8 BY <1>1, <2>9
  <2>10. CASE i = 9 BY <1>1, <2>10
  <2>11. CASE i = 10 BY <1>1, <2>11
  <2>12. CASE i = 11 BY <1>1, <2>12
  <2>13. QED BY <2>1, <2>2, <2>3, <2>4, <2>5, <2>6, <2>7, <2>8, <2>9, <2>10, <2>11, <2>12
<1>2. CASE i > HeadLength(n)
  <2>1. 0 + (i - HeadLength(n)) \in Nat BY <1>2 DEF HeadLength
  <2>2. At(n, i) = Byte("content", "only", 0 + (i - HeadLength(n)))
    BY <1>2 DEF At, HeadLength
  <2>3. QED BY <2>1, <2>2 DEF Byte, Bytes, Tokens, Parts
<1>3. QED BY <1>1, <1>2 DEF HeadLength

\* What the parser looks at.
LEMMA AtShape ==
  ASSUME NEW n \in Nat, NEW i \in Nat, i > 0
  PROVE  /\ At(n, i).tok = "end" <=> i = HeadLength(n)
         /\ At(n, i).tok \notin HeadTokens <=> i > HeadLength(n)
         /\ At(n, i) = Byte("name", "first", 0) <=> n # 0 /\ i = 7
         /\ At(n, i).tok = "value" <=> n # 0 /\ i \in {9, 10}
         /\ At(n, i).tok = "value" => At(n, i).val = n
         /\ At(n, i).tok = "value" /\ At(n, i).part = "last" <=> n # 0 /\ i = 10
         /\ At(n, i).tok = "name" /\ At(n, i).part = "last" <=> n # 0 /\ i = 8
<1>1. CASE i <= 6
  <2>1. i = 1 \/ i = 2 \/ i = 3 \/ i = 4 \/ i = 5 \/ i = 6 BY <1>1
  <2>2. CASE i = 1 BY <2>2 DEF At, HeadLength, Byte, HeadTokens
  <2>3. CASE i = 2 BY <2>3 DEF At, HeadLength, Byte, HeadTokens
  <2>4. CASE i = 3 BY <2>4 DEF At, HeadLength, Byte, HeadTokens
  <2>5. CASE i = 4 BY <2>5 DEF At, HeadLength, Byte, HeadTokens
  <2>6. CASE i = 5 BY <2>6 DEF At, HeadLength, Byte, HeadTokens
  <2>7. CASE i = 6 BY <2>7 DEF At, HeadLength, Byte, HeadTokens
  <2>8. QED BY <2>1, <2>2, <2>3, <2>4, <2>5, <2>6, <2>7
<1>2. CASE i > 6 /\ n = 0 BY <1>2 DEF At, HeadLength, Byte, HeadTokens
<1>3. CASE i > 6 /\ n # 0 /\ i <= 11
  <2>1. i = 7 \/ i = 8 \/ i = 9 \/ i = 10 \/ i = 11 BY <1>3
  <2>2. CASE i = 7 BY <1>3, <2>2 DEF At, HeadLength, Byte, HeadTokens
  <2>3. CASE i = 8 BY <1>3, <2>3 DEF At, HeadLength, Byte, HeadTokens
  <2>4. CASE i = 9 BY <1>3, <2>4 DEF At, HeadLength, Byte, HeadTokens
  <2>5. CASE i = 10 BY <1>3, <2>5 DEF At, HeadLength, Byte, HeadTokens
  <2>6. CASE i = 11 BY <1>3, <2>6 DEF At, HeadLength, Byte, HeadTokens
  <2>7. QED BY <2>1, <2>2, <2>3, <2>4, <2>5, <2>6
<1>4. CASE i > 11 /\ n # 0
  <2>1. HeadLength(n) = 11 BY <1>4 DEF HeadLength
  <2>2. At(n, i) = Byte("content", "only", 0 + (i - 11)) BY <1>4, <2>1 DEF At
  <2>3. At(n, i).tok = "content" /\ At(n, i) # Byte("name", "first", 0) BY <2>2 DEF Byte
  <2>4. QED BY <1>4, <2>1, <2>3 DEF HeadTokens
<1>5. QED BY <1>1, <1>2, <1>3, <1>4

\* s is these k bytes, one by one.
Slice(s, n, c, k) ==
  s \in Seq(Bytes) /\ Len(s) = k /\ \A i \in 1..k : s[i] = At(n, c + i)

\* Seg is the sequence of these bytes.
LEMMA SegType ==
  ASSUME NEW n \in Nat, NEW c \in Nat, NEW k \in Nat
  PROVE  Slice(Seg(n, c, k), n, c, k)
<1>1. \A i \in 1..k : At(n, c + i) \in Bytes BY AtType
<1>2. [i \in 1..k |-> At(n, c + i)] \in Seq(Bytes) /\ Len([i \in 1..k |-> At(n, c + i)]) = k
  BY <1>1
<1>3. QED BY <1>2 DEF Seg, Slice

\* And the only one.
LEMMA IsSeg ==
  ASSUME NEW n \in Nat, NEW c \in Nat, NEW k \in Nat, NEW s, Slice(s, n, c, k)
  PROVE  s = Seg(n, c, k)
<1>1. PICK t : t = Seg(n, c, k) OBVIOUS
<1>2. t \in Seq(Bytes) /\ Len(t) = k /\ \A i \in 1..k : t[i] = At(n, c + i)
  <2>1. Slice(Seg(n, c, k), n, c, k) BY SegType
  <2>2. Slice(t, n, c, k) BY <1>1, <2>1
  <2>3. QED BY <2>2 DEF Slice
<1>3. s = t BY <1>2, SeqEqual DEF Slice
<1>4. QED BY <1>1, <1>3

\* No bytes.
LEMMA SegEmpty ==
  ASSUME NEW n \in Nat, NEW c \in Nat
  PROVE  Seg(n, c, 0) = <<>>
BY SegType DEF Slice

\* The first k + j bytes after c are the k after c and the j after d.
Parted(n, c, k, d, j) ==
  /\ Prefix(Seg(n, c, k + j), k) = Seg(n, c, k)
  /\ Suffix(Seg(n, c, k + j), k) = Seg(n, d, j)
  /\ Seg(n, c, k) \o Seg(n, d, j) = Seg(n, c, k + j)

\* Bytes that follow each other can be divided and put together anywhere:
\* what a read leaves on the wire, and what it appends to the buffer.
LEMMA SegParts ==
  ASSUME NEW n \in Nat, NEW c \in Nat, NEW k \in Nat, NEW j \in Nat, NEW d, d = c + k
  PROVE  Parted(n, c, k, d, j)
<1>p. PICK m : m = k + j OBVIOUS
<1>0. m \in Nat /\ k \in 0..m /\ c + k \in Nat /\ m - k = j /\ d \in Nat BY <1>p
<1>1. PICK s : s = Seg(n, c, m) OBVIOUS
<1>2. s \in Seq(Bytes) /\ Len(s) = m /\ \A i \in 1..m : s[i] = At(n, c + i)
  <2>1. Slice(Seg(n, c, m), n, c, m) BY <1>0, SegType
  <2>2. QED BY <1>1, <2>1 DEF Slice
<1>3. PICK a : a = Seg(n, c, k) OBVIOUS
<1>4. a \in Seq(Bytes) /\ Len(a) = k /\ \A i \in 1..k : a[i] = At(n, c + i)
  BY <1>3, SegType DEF Slice
<1>5. PICK b : b = Seg(n, d, j) OBVIOUS
<1>6. b \in Seq(Bytes) /\ Len(b) = m - k /\ \A i \in 1..m - k : b[i] = At(n, c + k + i)
  <2>1. Slice(Seg(n, d, j), n, d, j) BY <1>0, SegType
  <2>2. QED BY <1>0, <1>5, <2>1 DEF Slice
<1>7. SubSeq(s, 1, k) = a
  <2>1. \A i \in 1..k : s[i] \in Bytes BY <1>0, <1>2
  <2>2. SubSeq(s, 1, k) \in Seq(Bytes) /\ Len(SubSeq(s, 1, k)) = (IF 1 <= k THEN k - 1 + 1 ELSE 0)
        /\ \A i \in 1..k - 1 + 1 : SubSeq(s, 1, k)[i] = s[1 + i - 1]
    BY <2>1, SubSeqProperties
  <2>3. PICK q : q = SubSeq(s, 1, k) OBVIOUS
  <2>4. q \in Seq(Bytes) /\ Len(q) = k /\ \A i \in 1..k : q[i] = s[i] BY <2>2, <2>3
  <2>5. \A i \in 1..k : q[i] = a[i] BY <1>0, <1>2, <1>4, <2>4
  <2>6. q = a BY <1>4, <2>4, <2>5, SeqEqual
  <2>7. QED BY <2>3, <2>6
<1>8. SubSeq(s, k + 1, m) = b
  <2>1. \A i \in k + 1..m : s[i] \in Bytes BY <1>2
  <2>2. SubSeq(s, k + 1, m) \in Seq(Bytes)
        /\ Len(SubSeq(s, k + 1, m)) = (IF k + 1 <= m THEN m - (k + 1) + 1 ELSE 0)
        /\ \A i \in 1..m - (k + 1) + 1 : SubSeq(s, k + 1, m)[i] = s[(k + 1) + i - 1]
    BY <1>0, <2>1, SubSeqProperties
  <2>3. PICK q : q = SubSeq(s, k + 1, m) OBVIOUS
  <2>4. /\ m - (k + 1) + 1 = m - k
        /\ (IF k + 1 <= m THEN m - (k + 1) + 1 ELSE 0) = m - k
        /\ \A i \in 1..m - k : (k + 1) + i - 1 = k + i /\ k + i \in 1..m
        /\ \A i \in 1..m - k : c + (k + i) = c + k + i
    BY ONLY <1>0, c \in Nat, k \in Nat
  <2>5. q \in Seq(Bytes) /\ Len(q) = m - k /\ \A i \in 1..m - k : q[i] = s[k + i]
    BY ONLY <2>2, <2>3, <2>4
  <2>6. \A i \in 1..m - k : q[i] = b[i] BY ONLY <1>2, <1>6, <2>4, <2>5
  <2>7. q = b BY <1>6, <2>5, <2>6, SeqEqual
  <2>8. QED BY <2>3, <2>7
<1>9. a \o b = s
  <2>1. /\ a \o b \in Seq(Bytes) /\ Len(a \o b) = Len(a) + Len(b)
        /\ \A i \in 1 .. Len(a) + Len(b) : (a \o b)[i] = IF i <= Len(a) THEN a[i] ELSE b[i - Len(a)]
    BY <1>4, <1>6, ConcatProperties
  <2>2. PICK q : q = a \o b OBVIOUS
  <2>3. k + (m - k) = m BY ONLY <1>0, k \in Nat
  <2>4. q \in Seq(Bytes) /\ Len(q) = m
        /\ \A i \in 1..m : q[i] = IF i <= k THEN a[i] ELSE b[i - k]
    BY ONLY <1>4, <1>6, <2>1, <2>2, <2>3
  <2>5. ASSUME NEW i \in 1..m PROVE q[i] = s[i]
    <3>1. CASE i <= k
      <4>1. i \in 1..k BY <3>1
      <4>2. QED BY ONLY <1>2, <1>4, <2>4, <3>1, <4>1, i \in 1..m
    <3>2. CASE ~(i <= k)
      <4>1. i - k \in 1..m - k /\ c + k + (i - k) = c + i BY <1>0, <3>2
      <4>2. QED BY ONLY <1>2, <1>6, <2>4, <3>2, <4>1, i \in 1..m
    <3>3. QED BY <3>1, <3>2
  <2>6. q = s BY <1>2, <2>4, <2>5, SeqEqual
  <2>7. QED BY <2>2, <2>6
<1>10. Prefix(Seg(n, c, m), k) = Seg(n, c, k)
  BY <1>1, <1>3, <1>7 DEF Prefix
<1>11. Suffix(Seg(n, c, m), k) = Seg(n, d, j)
  BY <1>1, <1>2, <1>5, <1>8 DEF Suffix
<1>12. QED BY <1>p, <1>1, <1>3, <1>5, <1>9, <1>10, <1>11 DEF Parted

\* A request is its bytes one by one, and its body the last n of them.
LEMMA RequestShape ==
  ASSUME NEW n \in Nat
  PROVE  Request(n) = Seg(n, 0, HeadLength(n) + n) /\ Content(0, n) = Seg(n, HeadLength(n), n)
<1>c. Content(0, n) = Seg(n, HeadLength(n), n)
  <2>1. ASSUME NEW i \in 1..n
        PROVE  At(n, HeadLength(n) + i) = Byte("content", "only", 0 + i)
    <3>1. HeadLength(n) + i > 11 /\ n # 0 /\ HeadLength(n) = 11 /\ (HeadLength(n) + i) - 11 = i
      BY DEF HeadLength
    <3>2. QED BY ONLY <3>1, <2>1 DEF At
  <2>2. QED BY <2>1 DEF Content, Seg
<1>1. PICK m, p, v, e, l, k : /\ m = Token("method", 0) /\ p = Token("path", 0)
                              /\ v = Token("version", 0) /\ l = Length(n)
                              /\ e = End /\ k = Content(0, n)
  OBVIOUS
<1> DEFINE h == (m \o p) \o v
<1>2. /\ m \in Seq(Bytes) /\ Len(m) = 2 /\ m[1] = At(n, 1) /\ m[2] = At(n, 2)
      /\ p = <<At(n, 3), At(n, 4)>> /\ v = <<At(n, 5), At(n, 6)>>
  <2>1. /\ m = <<Byte("method", "first", 0), Byte("method", "last", 0)>>
        /\ p = <<Byte("path", "first", 0), Byte("path", "last", 0)>>
        /\ v = <<Byte("version", "first", 0), Byte("version", "last", 0)>>
    BY <1>1 DEF Token
  <2>2. /\ At(n, 1) = Byte("method", "first", 0) /\ At(n, 2) = Byte("method", "last", 0)
        /\ At(n, 3) = Byte("path", "first", 0) /\ At(n, 4) = Byte("path", "last", 0)
        /\ At(n, 5) = Byte("version", "first", 0) /\ At(n, 6) = Byte("version", "last", 0)
    <3>1. HeadLength(n) \notin 1..6 BY DEF HeadLength
    <3>2. At(n, 1) = Byte("method", "first", 0) BY <3>1 DEF At
    <3>3. At(n, 2) = Byte("method", "last", 0) BY <3>1 DEF At
    <3>4. At(n, 3) = Byte("path", "first", 0) BY <3>1 DEF At
    <3>5. At(n, 4) = Byte("path", "last", 0) BY <3>1 DEF At
    <3>6. At(n, 5) = Byte("version", "first", 0) BY <3>1 DEF At
    <3>7. At(n, 6) = Byte("version", "last", 0) BY <3>1 DEF At
    <3>8. QED BY <3>2, <3>3, <3>4, <3>5, <3>6, <3>7
  <2>3. At(n, 1) \in Bytes /\ At(n, 2) \in Bytes BY AtType
  <2>4. QED BY <2>1, <2>2, <2>3
<1>3. h \in Seq(Bytes) /\ Len(h) = 6 /\ \A i \in 1..6 : h[i] = At(n, i)
  <2>1. \A i \in 1..6 : At(n, i) \in Bytes BY AtType
  <2>2. PICK a, b : a = m \o p /\ b = h OBVIOUS
  <2>3. /\ a \in Seq(Bytes) /\ Len(a) = 4 /\ \A i \in 1..2 : a[i] = m[i]
        /\ a[3] = At(n, 3) /\ a[4] = At(n, 4)
    <3>1. At(n, 3) \in Bytes /\ At(n, 4) \in Bytes BY <2>1
    <3>2. PICK x, y : x = At(n, 3) /\ y = At(n, 4) OBVIOUS
    <3>3. a = m \o <<x, y>> /\ x \in Bytes /\ y \in Bytes BY <1>2, <2>2, <3>1, <3>2
    <3>4. Ended(m \o <<x, y>>, m, x, y) BY <1>2, <3>3, Pair
    <3>5. QED BY <1>2, <3>2, <3>3, <3>4 DEF Ended
  <2>4. /\ b \in Seq(Bytes) /\ Len(b) = 6 /\ \A i \in 1..4 : b[i] = a[i]
        /\ b[5] = At(n, 5) /\ b[6] = At(n, 6)
    <3>1. At(n, 5) \in Bytes /\ At(n, 6) \in Bytes BY <2>1
    <3>2. PICK x, y : x = At(n, 5) /\ y = At(n, 6) OBVIOUS
    <3>3. b = a \o <<x, y>> /\ x \in Bytes /\ y \in Bytes BY <1>2, <2>2, <3>1, <3>2
    <3>4. Ended(a \o <<x, y>>, a, x, y) BY <2>3, <3>3, Pair
    <3>5. QED BY <2>3, <3>2, <3>3, <3>4 DEF Ended
  <2>5. b[1] = At(n, 1) /\ b[2] = At(n, 2) /\ b[3] = At(n, 3) /\ b[4] = At(n, 4)
    BY <1>2, <2>3, <2>4
  <2>6. \A i \in 1..6 : b[i] = At(n, i)
    BY <2>4, <2>5
  <2>7. QED BY <2>2, <2>4, <2>6
<1> HIDE DEF h
<1>4. h = Seg(n, 0, 6)
  <2>1. \A i \in 1..6 : h[i] = At(n, 0 + i) BY <1>3
  <2>2. PICK z : z = 0 OBVIOUS
  <2>3. z \in Nat /\ \A i \in 1..6 : h[i] = At(n, z + i) BY <2>1, <2>2
  <2>4. h = Seg(n, z, 6)
    <3>1. Slice(h, n, z, 6) BY <1>3, <2>3 DEF Slice
    <3>2. QED BY <2>3, <3>1, IsSeg
  <2>5. QED BY <2>2, <2>4
<1>5. h \o l = Seg(n, 0, HeadLength(n) - 1)
  <2>1. CASE n = 0
    <3>1. l = <<>> BY <1>1, <2>1 DEF Length
    <3>2. QED BY <1>3, <1>4, <2>1, <3>1, ConcatEmptySeq DEF HeadLength
  <2>2. CASE n # 0
    <3>1. l = Seg(n, 6, 4)
      <4>1. PICK x, y : x = Token("name", 0) /\ y = Token("value", n) OBVIOUS
      <4>2. x = <<At(n, 7), At(n, 8)>> /\ y = <<At(n, 9), At(n, 10)>>
        BY <2>2, <4>1 DEF Token, At, HeadLength
      <4>3. At(n, 7) \in Bytes /\ At(n, 8) \in Bytes /\ At(n, 9) \in Bytes /\ At(n, 10) \in Bytes
        BY AtType
      <4>4. PICK z : z = x \o y OBVIOUS
      <4>5. x \in Seq(Bytes) /\ Len(x) = 2 /\ x[1] = At(n, 7) /\ x[2] = At(n, 8)
        BY <4>2, <4>3
      <4>6. /\ z \in Seq(Bytes) /\ Len(z) = 4 /\ z[1] = x[1] /\ z[2] = x[2]
            /\ z[3] = At(n, 9) /\ z[4] = At(n, 10)
        BY <4>2, <4>3, <4>4, <4>5, Pair DEF Ended
      <4>7. \A i \in 1..4 : z[i] = At(n, 6 + i) BY <4>5, <4>6
      <4>8. z = Seg(n, 6, 4)
        <5>1. Slice(z, n, 6, 4) BY <4>6, <4>7 DEF Slice
        <5>2. QED BY <5>1, IsSeg
      <4>9. l = z BY <1>1, <2>2, <4>1, <4>4 DEF Length
      <4>10. QED BY <4>8, <4>9
    <3>2. Seg(n, 0, 6) \o Seg(n, 6, 4) = Seg(n, 0, 10) 
      <4>1. 6 = 0 + 6 /\ 6 + 4 = 10 OBVIOUS
      <4>2. Parted(n, 0, 6, 6, 4) BY <4>1, SegParts
      <4>3. QED BY <4>1, <4>2 DEF Parted
    <3>3. QED BY <1>4, <2>2, <3>1, <3>2 DEF HeadLength
  <2>3. QED BY <2>1, <2>2
<1>6. (h \o l) \o e = Seg(n, 0, HeadLength(n))
  <2>1. e = Seg(n, HeadLength(n) - 1, 1)
    <3>1. e = <<At(n, HeadLength(n))>> BY <1>1 DEF End, At, HeadLength
    <3>2. HeadLength(n) - 1 \in Nat /\ HeadLength(n) > 0 /\ HeadLength(n) \in Nat
          /\ (HeadLength(n) - 1) + 1 = HeadLength(n)
      BY DEF HeadLength
    <3>3. At(n, HeadLength(n)) \in Bytes BY <3>2, AtType
    <3>4. PICK z \in Bytes : z = At(n, HeadLength(n)) BY <3>3
    <3>5. e = <<z>> BY <3>1, <3>4
    <3>6. e \in Seq(Bytes) /\ Len(e) = 1 /\ e[1] = z BY <3>5
    <3>7. \A i \in 1..1 : e[i] = At(n, (HeadLength(n) - 1) + i) BY <3>2, <3>4, <3>6
    <3>8. Slice(e, n, HeadLength(n) - 1, 1) BY <3>6, <3>7 DEF Slice
    <3>9. QED BY <3>2, <3>8, IsSeg
  <2>2. PICK q \in Nat : q = HeadLength(n) - 1 BY DEF HeadLength
  <2>3. q = 0 + q BY ONLY q \in Nat
  <2>4. Seg(n, 0, q) \o Seg(n, q, 1) = Seg(n, 0, q + 1)
    <3>1. Parted(n, 0, q, q, 1) BY <2>3, SegParts
    <3>2. QED BY <3>1 DEF Parted
  <2>5. HeadLength(n) = q + 1 BY <2>2 DEF HeadLength
  <2>6. QED BY <1>5, <2>1, <2>2, <2>3, <2>4, <2>5
<1>7. ((h \o l) \o e) \o k = Seg(n, 0, HeadLength(n) + n)
  <2>1. PICK q \in Nat : q = HeadLength(n) BY DEF HeadLength
  <2>2. q = 0 + q BY ONLY q \in Nat
  <2>3. Seg(n, 0, q) \o Seg(n, q, n) = Seg(n, 0, q + n)
    <3>1. Parted(n, 0, q, q, n) BY <2>2, SegParts
    <3>2. QED BY <3>1 DEF Parted
  <2>4. QED BY <1>1, <1>c, <1>6, <2>1, <2>2, <2>3
<1>8. Request(n) = ((h \o l) \o e) \o k BY <1>1 DEF Request, h
<1>9. QED BY <1>c, <1>7, <1>8

\* One call of excute that is given k bytes behind the first c consumes q of them.
Eaten(n, c, k) == IF c + k >= HeadLength(n) THEN HeadLength(n) - c ELSE k

\* What it leaves of them, and whether the head is complete.
Eats(n, c, k, q) ==
  /\ q \in 1..k /\ c + q <= HeadLength(n)
  /\ Finished(Seg(n, c, k), "end") <=> c + q = HeadLength(n)
  /\ c + q < HeadLength(n) => q = k
  /\ Piece(Seg(n, c, k), "end") = Seg(n, c, q)
  /\ Rest(Seg(n, c, k), "end") = Seg(n, c + q, k - q)

\* excute consumes the head to its end, or all it is given.
LEMMA ExcuteEats ==
  ASSUME NEW n \in Nat, NEW c \in 0..HeadLength(n) - 1, NEW k \in Nat \ {0},
         NEW q, q = Eaten(n, c, k)
  PROVE  Eats(n, c, k, q)
<1>1. PICK h \in {7, 11} : h = HeadLength(n) BY DEF HeadLength
<1>2. /\ c \in Nat /\ c < h /\ k \in Nat /\ k > 0
      /\ q = IF c + k >= h THEN h - c ELSE k
  BY <1>1 DEF Eaten
<1>3. q \in 1..k /\ c + q <= h /\ (c + q = h <=> c + k >= h) /\ (c + q < h => q = k)
      /\ q \in Nat /\ k - q \in Nat /\ c + q \in Nat /\ q + (k - q) = k
  BY ONLY <1>1, <1>2
<1>4. PICK s : s = Seg(n, c, k) OBVIOUS
<1>5. Slice(s, n, c, k)
  <2>1. Slice(Seg(n, c, k), n, c, k) BY <1>2, SegType
  <2>2. QED BY <1>4, <2>1
<1>6. DOMAIN s = 1..k BY <1>5 DEF Slice
<1>7. ASSUME NEW i \in 1..k PROVE s[i].tok = "end" <=> c + i = h
  <2>1. s[i] = At(n, c + i) BY <1>5 DEF Slice
  <2>2. c + i \in Nat /\ c + i > 0 BY <1>2
  <2>3. QED BY <1>1, <2>1, <2>2, AtShape
<1>8. Finished(s, "end") <=> c + q = h
  <2>1. ASSUME c + k >= h PROVE h - c \in 1..k /\ c + (h - c) = h BY ONLY <1>1, <1>2, <2>1
  <2>2. ASSUME NEW i \in 1..k, c + i = h PROVE c + k >= h BY ONLY <1>1, <1>2, <2>2, i \in 1..k
  <2>3. Finished(s, "end") <=> \E i \in 1..k : c + i = h
    BY <1>6, <1>7 DEF Finished, Places
  <2>4. QED BY <1>3, <2>1, <2>2, <2>3
<1>9. Consumed(s, "end") = q
  <2>1. CASE c + q = h
    <3>1. Places(s, "end") = {q}
      <4>1. \A i \in 1..k : c + i = h <=> i = q BY ONLY <1>1, <1>2, <1>3, <2>1
      <4>2. \A i \in 1..k : s[i].tok = "end" <=> i = q BY <1>7, <4>1
      <4>3. QED BY <1>3, <1>6, <4>2 DEF Places
    <3>2. q <= q BY <1>3
    <3>3. QED BY <1>8, <2>1, <3>1, <3>2 DEF Consumed
  <2>2. CASE c + q # h
    BY <1>3, <1>5, <1>8, <2>2 DEF Consumed, Slice
  <2>3. QED BY <2>1, <2>2
<1>10. Parted(n, c, q, c + q, k - q) BY <1>2, <1>3, SegParts
<1>11. SubSeq(s, 1, q) = Seg(n, c, q) /\ SubSeq(s, q + 1, k) = Seg(n, c + q, k - q)
  <2>1. Prefix(s, q) = Seg(n, c, q) /\ Suffix(s, q) = Seg(n, c + q, k - q)
    BY <1>3, <1>4, <1>10 DEF Parted
  <2>2. QED BY <1>5, <2>1 DEF Prefix, Suffix, Slice
<1>12. Piece(s, "end") = Seg(n, c, q) BY <1>9, <1>11 DEF Piece
<1>13. Rest(s, "end") = Seg(n, c + q, k - q) BY <1>5, <1>9, <1>11 DEF Rest, Slice
<1>14. QED BY <1>1, <1>3, <1>4, <1>8, <1>12, <1>13 DEF Eats

\* The content length once c bytes of the head were consumed.
LengthAt(n, c) == IF n # 0 /\ c >= 10 THEN n ELSE 0

\* The content length is what the parser has seen of it (getContentLength),
\* if no call of excute began inside the name and none is an error.
LEMMA LengthSeen ==
  ASSUME NEW n \in Nat, NEW c \in Nat, NEW q \in Nat \ {0}, c + q <= HeadLength(n),
         FALSE \in Errors(Seg(n, c, q)), "name" \notin Torn(Seg(n, c, q))
  PROVE  NewLength(Seg(n, c, q), LengthAt(n, c)) = LengthAt(n, c + q)
<1>1. PICK p : p = Seg(n, c, q) OBVIOUS
<1>2. Slice(p, n, c, q)
  <2>1. Slice(Seg(n, c, q), n, c, q) BY SegType
  <2>2. QED BY <1>1, <2>1
<1>3. DOMAIN p = 1..q /\ \A i \in 1..q : p[i] = At(n, c + i) BY <1>2 DEF Slice
<1>4. \A i \in 1..q : c + i \in Nat /\ c + i > 0 OBVIOUS
<1>5. 1 \in 1..q OBVIOUS
<1>6. n # 0 => c \notin {7, 8, 9}
  <2> SUFFICES ASSUME n # 0 PROVE c # 7 /\ c # 8 /\ c # 9 OBVIOUS
  <2>1. p[1] = At(n, c + 1) /\ c + 1 \in Nat /\ c + 1 > 0 BY <1>3, <1>5
  <2>2. ASSUME c = 7 PROVE FALSE
    <3>1. p[1].tok = "name" /\ p[1].part = "last" BY <2>1, <2>2, AtShape
    <3>2. QED BY <1>1, <3>1 DEF Torn
  <2>3. ASSUME c = 8 \/ c = 9 PROVE FALSE
    <3>1. p[1].tok = "value" BY <2>1, <2>3, AtShape
    <3>2. Errors(p) = {TRUE} BY <3>1 DEF Errors, Fatal
    <3>3. QED BY <1>1, <3>2
  <2>4. QED BY <2>2, <2>3
<1>7. \A i \in 1..q : p[i] = Byte("name", "first", 0) <=> n # 0 /\ c + i = 7
  <2> SUFFICES ASSUME NEW i \in 1..q
               PROVE  p[i] = Byte("name", "first", 0) <=> n # 0 /\ c + i = 7
    OBVIOUS
  <2>1. PICK j \in Nat : j = c + i /\ j > 0 BY <1>4
  <2>2. p[i] = At(n, j) BY <1>3, <2>1
  <2>3. QED BY <2>1, <2>2, AtShape
<1>8. \A i \in 1..q : p[i].tok = "value" /\ p[i].part = "last" <=> n # 0 /\ c + i = 10
  <2> SUFFICES ASSUME NEW i \in 1..q
               PROVE  p[i].tok = "value" /\ p[i].part = "last" <=> n # 0 /\ c + i = 10
    OBVIOUS
  <2>1. PICK j \in Nat : j = c + i /\ j > 0 BY <1>4
  <2>2. p[i] = At(n, j) BY <1>3, <2>1
  <2>3. QED BY <2>1, <2>2, AtShape
<1>9. \A i \in 1..q : p[i].tok = "value" => p[i].val = n
  BY <1>3, <1>4, AtShape
<1>10. CASE n # 0 /\ c < 7 /\ c + q >= 10
  <2>1. 7 - c \in 1..q /\ 10 - c \in 1..q /\ c + (7 - c) = 7 /\ c + (10 - c) = 10 BY <1>10
  <2>2. p[7 - c] = Byte("name", "first", 0) BY <1>7, <1>10, <2>1
  <2>3. p[10 - c].tok = "value" /\ p[10 - c].part = "last" BY <1>8, <1>10, <2>1
  <2>4. PICK j : j = CHOOSE i \in DOMAIN p : p[i].tok = "value" OBVIOUS
  <2>5. j \in 1..q /\ p[j].tok = "value" BY <1>3, <2>1, <2>3, <2>4
  <2>6. NewLength(p, LengthAt(n, c)) = p[j].val
    BY <1>3, <2>1, <2>2, <2>3, <2>4 DEF NewLength
  <2>7. LengthAt(n, c + q) = n BY <1>10 DEF LengthAt
  <2>8. QED BY <1>1, <1>9, <2>5, <2>6, <2>7
<1>11. CASE ~(n # 0 /\ c < 7 /\ c + q >= 10)
  <2>1. ~\E i, j \in DOMAIN p : /\ p[i] = Byte("name", "first", 0)
                               /\ p[j].tok = "value" /\ p[j].part = "last"
    <3> SUFFICES ASSUME NEW i \in 1..q, NEW j \in 1..q, n # 0, c + i = 7, c + j = 10
                 PROVE  FALSE
      BY <1>3, <1>7, <1>8
    <3>1. QED BY <1>11
  <2>2. NewLength(p, LengthAt(n, c)) = LengthAt(n, c) BY <2>1 DEF NewLength
  <2>3. LengthAt(n, c) = LengthAt(n, c + q)
    <3>1. CASE n = 0 BY <3>1 DEF LengthAt
    <3>2. CASE n # 0
      <4>1. c < 7 \/ c >= 10 BY <1>6, <3>2
      <4>2. QED BY <1>11, <3>2, <4>1 DEF LengthAt
    <3>3. QED BY <3>1, <3>2
  <2>4. QED BY <1>1, <2>2, <2>3
<1>12. QED BY <1>10, <1>11

-----------------------------------------------------------------------------
\* Nothing is under way.
Idle == wire = <<>> /\ length = 0

\* c bytes of the head of a request were consumed, and the rest is on the wire.
Asking ==
  /\ asked # answered
  /\ \E n \in Lengths : sizes = <<n>> /\ \E c \in 0..HeadLength(n) - 1 :
       /\ wire = Seg(n, c, HeadLength(n) + n - c)
       /\ length = LengthAt(n, c)

\* The body has the bytes that came before the last m, or it had its full length
\* before they came: it began with the head.
Begun(n, m) ==
  \/ body = Seg(n, HeadLength(n), n - m)
  \/ body \in Seq(Bytes) /\ Len(body) >= n

\* The last m bytes of the body are on the wire.
Fixed ==
  \E n \in Lengths \ {0} : sizes = <<n>> /\ length = n /\ \E m \in 1..n :
    /\ left = m /\ wire = Seg(n, HeadLength(n) + n - m, m) /\ Begun(n, m)

\* The request has been received.
Whole ==
  wire = <<>> /\ \E n \in Lengths : sizes = <<n>> /\ (body = Content(0, n) \/ Len(body) > n)

\* What a session has read, left and stored at each place of recvRequest.
Exact ==
  /\ pc = "head" => data = <<>> /\ (Idle \/ Asking)
  /\ pc \in {"fixed", "handle", "write"} => asked # answered
  /\ pc = "fixed" => Fixed
  /\ pc = "handle" => Whole
  /\ pc = "write" => wire = <<>> /\ data = <<>>

\* The invariant.  The torn name is the exception that SessionFramed makes.
SessionInv ==
  /\ asked \in Nat
  /\ kind = "session" =>
       pc \in {"head", "fixed", "handle", "write", "closed", "crashed", "astray"}
  /\ kind = "session" /\ "name" \notin torn => Exact

\* A read returns no more than was asked for and no more than has come.
LEMMA MinBound ==
  ASSUME NEW a \in Nat, NEW b \in Nat, NEW k \in 1..Min({a, b})
  PROVE  k \in 1..a /\ k \in 1..b
<1>1. \E x \in {a, b} : \A y \in {a, b} : x <= y
  <2>1. CASE a <= b BY <2>1
  <2>2. CASE b <= a BY <2>2
  <2>3. QED BY <2>1, <2>2
<1>2. PICK m : m = Min({a, b}) OBVIOUS
<1>3. m \in {a, b} /\ \A y \in {a, b} : m <= y BY <1>1, <1>2 DEF Min
<1>4. k \in 1..m BY <1>2
<1>5. QED BY <1>3, <1>4

\* A new connection is idle.
LEMMA InitSession == Init => SessionInv
BY DEF Init, SessionInv, Exact, Idle

\* A client that waits for its answer asks when nothing is under way.
LEMMA PeerKeeps ==
  ASSUME ~Pipelining, SessionInv, Peer
  PROVE  SessionInv'
<1>0. UNCHANGED <<kind, answered, pc, data, length, torn, body, left>>
  BY DEF Peer, ClientAsks, ServerAnswers, PeerLeaves, Send, parserVars
<1>1. CASE PeerLeaves
  <2>1. UNCHANGED <<asked, wire, sizes>> BY <1>1 DEF PeerLeaves
  <2>2. QED BY <1>0, <2>1 DEF SessionInv, Exact, Idle, Asking, Fixed, Begun, Whole
<1>2. CASE ServerAnswers
  <2>1. kind # "session" /\ asked' = asked + 1 BY <1>2 DEF ServerAnswers, Send
  <2>2. QED BY <1>0, <2>1 DEF SessionInv
<1>3. CASE ClientAsks
  <2>1. PICK n \in Lengths :
          /\ wire' = wire \o Request(n) /\ sizes' = <<n>>
          /\ asked' = asked + 1 /\ asked = answered
    BY <1>3 DEF ClientAsks, Send
  <2>2. asked' \in Nat /\ asked' # answered' BY <1>0, <2>1 DEF SessionInv
  <2>3. SUFFICES ASSUME kind = "session", "name" \notin torn PROVE Exact'
    BY <1>0, <2>2 DEF SessionInv
  <2>4. Exact BY <2>3 DEF SessionInv
  <2>5. CASE pc = "head"
    <3>1. data = <<>> /\ wire = <<>> /\ length = 0
      BY <2>1, <2>4, <2>5 DEF Exact, Idle, Asking
    <3>2. n \in Nat BY HttpAssumption
    <3>3. wire' = Seg(n, 0, HeadLength(n) + n)
      <4>1. PICK r : r = Request(n) OBVIOUS
      <4>2. PICK h \in Nat : h = HeadLength(n) BY DEF HeadLength
      <4>3. r = Seg(n, 0, h + n) BY <3>2, <4>1, <4>2, RequestShape
      <4>4. Slice(Seg(n, 0, h + n), n, 0, h + n) BY <3>2, SegType
      <4>5. r \in Seq(Bytes) BY <4>3, <4>4 DEF Slice
      <4>6. <<>> \o r = r BY <4>5, ConcatEmptySeq
      <4>7. QED BY <2>1, <3>1, <4>1, <4>2, <4>3, <4>6
    <3>4. 0 \in 0..HeadLength(n) - 1 /\ HeadLength(n) + n - 0 = HeadLength(n) + n
          /\ LengthAt(n, 0) = 0
      BY <3>2 DEF HeadLength, LengthAt
    <3>5. length' = LengthAt(n, 0) /\ wire' = Seg(n, 0, HeadLength(n) + n - 0)
      BY <1>0, <3>1, <3>3, <3>4
    <3>6. Asking' BY <2>1, <2>2, <3>4, <3>5 DEF Asking
    <3>7. QED BY <1>0, <2>5, <3>1, <3>6 DEF Exact
  <2>6. CASE pc # "head"
    <3>1. pc' \notin {"head", "fixed", "handle", "write"} BY <1>0, <2>1, <2>4, <2>6 DEF Exact
    <3>2. QED BY <3>1 DEF Exact
  <2>7. QED BY <2>5, <2>6
<1>4. QED BY <1>1, <1>2, <1>3 DEF Peer

\* Answering (handleCilent, sendResponse) leaves the wire alone.
LEMMA WriteKeeps ==
  ASSUME SessionInv, Handle \/ Write \/ WriteFails
  PROVE  SessionInv'
<1>0. UNCHANGED <<kind, wire, asked, sizes, torn>>
  BY DEF Handle, Write, WriteFails, NextRequest, peerVars, parserVars
<1>1. CASE Handle
  <2>1. pc = "handle" /\ pc' = "write" /\ data' = <<>> /\ answered' = answered
    BY <1>1 DEF Handle
  <2>2. QED BY <1>0, <2>1 DEF SessionInv, Exact, Whole
<1>2. CASE Write \/ WriteFails
  <2>1. /\ pc = "write" /\ data' = data
        /\ \/ pc' = pc /\ answered' = answered
           \/ pc' \in {"head", "closed"} /\ length' = 0
    BY <1>2 DEF Write, WriteFails, NextRequest
  <2>2. CASE pc' = pc /\ answered' = answered
    BY <1>0, <2>1, <2>2 DEF SessionInv, Exact
  <2>3. CASE pc' \in {"head", "closed"} /\ length' = 0
    BY <1>0, <2>1, <2>3 DEF SessionInv, Exact, Idle
  <2>4. QED BY <2>1, <2>2, <2>3
<1>3. QED BY <1>1, <1>2

\* readFixSize takes what is missing of the body off the wire, and puts it where
\* it belongs or, if the body came in part with the head, behind its end
\* (httpSession.cpp:51).
LEMMA ReadFixedKeeps ==
  ASSUME SessionInv, ReadFixed
  PROVE  SessionInv'
<1>1. PICK k \in Reads(left) :
        /\ wire' = Suffix(wire, k) /\ body' = body \o Prefix(wire, k)
        /\ left' = left - k
        /\ pc' = (IF left' = 0 THEN "handle" ELSE pc) \/ pc' = "crashed"
        /\ pc = "fixed"
        /\ UNCHANGED <<kind, sizes, asked, answered, length, torn>>
  BY DEF ReadFixed, Taken, parserVars
<1>2. SUFFICES ASSUME kind = "session", "name" \notin torn, pc' # "crashed" PROVE Exact'
  <2>1. pc' \in {"fixed", "handle", "crashed"} BY <1>1
  <2>2. pc' = "crashed" => Exact' BY DEF Exact
  <2>3. QED BY <1>1, <1>2, <2>1, <2>2 DEF SessionInv
<1>3. asked # answered /\ Fixed BY <1>1, <1>2 DEF SessionInv, Exact
<1>a. PICK n \in Lengths \ {0} : sizes = <<n>> /\ length = n /\ \E m \in 1..n :
        left = m /\ wire = Seg(n, HeadLength(n) + n - m, m) /\ Begun(n, m)
  BY <1>3 DEF Fixed
<1>b. PICK m \in 1..n : left = m /\ wire = Seg(n, HeadLength(n) + n - m, m) /\ Begun(n, m)
  BY <1>a
<1>4. /\ sizes = <<n>> /\ length = n /\ left = m /\ wire = Seg(n, HeadLength(n) + n - m, m)
      /\ body = Seg(n, HeadLength(n), n - m) \/ (body \in Seq(Bytes) /\ Len(body) >= n)
  BY <1>a, <1>b DEF Begun
<1>5. PICK h, c : h = HeadLength(n) /\ c = h + n - m OBVIOUS
<1>6. n \in Nat /\ m \in Nat /\ h \in Nat /\ c \in Nat /\ c = h + (n - m) /\ n - m \in Nat
  BY <1>5, HttpAssumption DEF HeadLength
<1>7. wire = Seg(n, c, m) BY <1>4, <1>5
<1>8. k \in 1..m
  <2>1. Slice(Seg(n, c, m), n, c, m) BY <1>6, SegType
  <2>2. Len(wire) = m BY <1>7, <2>1 DEF Slice
  <2>3. k \in 1..Min({m, m}) BY <1>1, <1>4, <2>2 DEF Reads
  <2>4. QED BY <1>6, <2>3, MinBound
<1>9. k \in Nat /\ m - k \in Nat /\ k + (m - k) = m /\ c + k \in Nat BY <1>6, <1>8
<1>10. Prefix(wire, k) = Seg(n, c, k) /\ wire' = Seg(n, c + k, m - k)
  <2>1. Parted(n, c, k, c + k, m - k) BY <1>6, <1>9, SegParts
  <2>2. QED BY <1>1, <1>7, <1>9, <2>1 DEF Parted
<1>11. Slice(Seg(n, c, k), n, c, k) BY <1>6, <1>9, SegType
<1>12. n - m + k \in Nat /\ n - m + k = n - (m - k) /\ c + k = h + n - (m - k)
  BY <1>6, <1>8
\* What is in the body then.
<1>13. \/ body' = Seg(n, h, n - m + k)
       \/ body' \in Seq(Bytes) /\ Len(body') > n
  <2>1. CASE body = Seg(n, h, n - m)
    <3>1. Parted(n, h, n - m, c, k) BY <1>6, <1>9, SegParts
    <3>2. QED BY <1>1, <1>10, <2>1, <3>1 DEF Parted
  <2>2. CASE body \in Seq(Bytes) /\ Len(body) >= n
    <3>1. PICK a, b, l : a = body /\ b = Seg(n, c, k) /\ l = Len(a) OBVIOUS
    <3>2. a \in Seq(Bytes) /\ b \in Seq(Bytes) /\ l \in Nat /\ l >= n /\ Len(b) = k
      BY <1>11, <2>2, <3>1 DEF Slice
    <3>3. a \o b \in Seq(Bytes) /\ Len(a \o b) = Len(a) + Len(b) BY <3>2, ConcatProperties
    <3>4. body' \in Seq(Bytes) /\ Len(body') = l + k BY <1>1, <1>10, <3>1, <3>2, <3>3
    <3>5. l + k > n BY <1>6, <1>8, <3>2
    <3>6. QED BY <3>4, <3>5
  <2>3. QED BY <1>4, <1>5, <2>1, <2>2
<1>14. CASE m = k
  <2>1. pc' = "handle" BY <1>1, <1>2, <1>4, <1>6, <1>14
  <2>2. wire' = <<>> BY <1>6, <1>9, <1>10, <1>14, SegEmpty
  <2>3. n - m + k = n BY <1>6, <1>14
  <2>4. body' = Content(0, n) \/ Len(body') > n
    BY <1>5, <1>6, <1>13, <2>3, RequestShape
  <2>5. Whole' BY <1>1, <1>4, <2>2, <2>4 DEF Whole
  <2>6. QED BY <1>1, <1>3, <2>1, <2>5 DEF Exact
<1>15. CASE m # k
  <2>1. m - k \in 1..n /\ left' = m - k /\ left' # 0 BY <1>1, <1>4, <1>6, <1>8, <1>15
  <2>2. pc' = "fixed" BY <1>1, <1>2, <2>1
  <2>3. PICK j : j = m - k OBVIOUS
  <2>4. /\ j \in 1..n /\ left' = j /\ wire' = Seg(n, h + n - j, j)
        /\ n - m + k = n - j
    BY <1>10, <1>12, <2>1, <2>3
  <2>5. body' = Seg(n, h, n - j) \/ (body' \in Seq(Bytes) /\ Len(body') >= n)
    <3>1. body' \in Seq(Bytes) /\ Len(body') > n => Len(body') >= n BY <1>6
    <3>2. QED BY <1>13, <2>4, <3>1
  <2>6. Begun(n, j)' BY <1>5, <2>5 DEF Begun
  <2>7. Fixed' BY <1>1, <1>4, <1>5, <2>4, <2>6 DEF Fixed
  <2>8. QED BY <1>1, <1>3, <2>2, <2>7 DEF Exact
<1>16. QED BY <1>14, <1>15

\* The head is complete, and j bytes of the body came with it.
LEMMA BodyBegun ==
  ASSUME NEW n \in Lengths, NEW j \in 0..n, NEW d, d = Seg(n, HeadLength(n), j),
         wire' = Seg(n, HeadLength(n) + j, n - j), sizes' = <<n>>, length' = n,
         asked' # answered', RequestBody(n, d)
  PROVE  Exact'
<1>1. n \in Nat /\ j \in Nat /\ n - j \in Nat /\ HeadLength(n) \in Nat
  BY HttpAssumption DEF HeadLength
<1>2. Slice(d, n, HeadLength(n), j)
  <2>1. Slice(Seg(n, HeadLength(n), j), n, HeadLength(n), j) BY <1>1, SegType
  <2>2. QED BY <2>1
<1>3. d \in Seq(Bytes) /\ Len(d) = j BY <1>2 DEF Slice
<1>c. CASE pc' = "crashed" BY <1>c DEF Exact
<1>4. CASE n = 0
  <2>1. body' = <<>> /\ pc' = "handle" BY <1>4 DEF RequestBody
  <2>2. wire' = <<>> BY <1>1, <1>4, SegEmpty
  <2>3. Content(0, 0) = <<>> BY <1>4, RequestShape, SegEmpty DEF HeadLength
  <2>4. Whole' BY <1>4, <2>1, <2>2, <2>3 DEF Whole
  <2>5. QED BY <2>1, <2>4 DEF Exact
<1>5. CASE n # 0 /\ j = n /\ pc' # "crashed"
  <2>1. body' = Copied(n, d) /\ pc' = "handle"
    BY <1>1, <1>3, <1>5 DEF RequestBody, Missing
  <2>2. body' = d
    <3>1. Copied(n, d) = [i \in 1..n |-> d[i]]
      BY <1>1, <1>3, <1>5 DEF Copied
    <3>2. d = [i \in 1..n |-> d[i]] BY <1>3, <1>5
    <3>3. QED BY <2>1, <3>1, <3>2
  <2>3. wire' = <<>> BY <1>1, <1>5, SegEmpty
  <2>4. body' = Content(0, n) BY <1>1, <1>5, <2>2, RequestShape
  <2>5. Whole' BY <2>3, <2>4 DEF Whole
  <2>6. QED BY <2>1, <2>5 DEF Exact
<1>6. CASE n # 0 /\ j < n /\ pc' # "crashed"
  <2>1. body' = Copied(n, d) /\ pc' = "fixed" /\ left' = n - j
    BY <1>1, <1>3, <1>6 DEF RequestBody, Missing
  <2>2. PICK m : m = n - j OBVIOUS
  <2>3. m \in 1..n /\ HeadLength(n) + n - m = HeadLength(n) + j BY <1>1, <1>6, <2>2
  <2>4. left' = m /\ wire' = Seg(n, HeadLength(n) + n - m, m) BY <2>1, <2>2, <2>3
  <2>5. body' = Seg(n, HeadLength(n), n - m) \/ (body' \in Seq(Bytes) /\ Len(body') >= n)
    <3>1. CASE j = 0
      <4>1. body' = <<>> BY <1>3, <2>1, <3>1 DEF Copied
      <4>2. n - m = 0 BY <1>1, <2>2, <3>1
      <4>3. Seg(n, HeadLength(n), 0) = <<>> BY <1>1, SegEmpty
      <4>4. QED BY <4>1, <4>2, <4>3
    <3>2. CASE j # 0
      <4>1. body' = [i \in 1..n |-> IF i <= Len(d) THEN d[i] ELSE Unset]
        BY <1>1, <1>3, <2>1, <3>2 DEF Copied
      <4>2. Unset \in Bytes BY DEF Unset, Byte, Bytes, Tokens, Parts
      <4>3. \A i \in 1..n : (IF i <= Len(d) THEN d[i] ELSE Unset) \in Bytes BY <1>3, <4>2
      <4>4. QED BY <1>1, <4>1, <4>3
    <3>3. QED BY <3>1, <3>2
  <2>6. Begun(n, m)' BY <2>5 DEF Begun
  <2>8. Fixed' BY <1>6, <2>3, <2>4, <2>6 DEF Fixed
  <2>7. QED BY <2>1, <2>8 DEF Exact
<1>7. QED BY <1>1, <1>c, <1>4, <1>5, <1>6

\* A read of recvRequest's loop and the excute behind it.
LEMMA ReadHeadKeeps ==
  ASSUME SessionInv, ReadHead
  PROVE  SessionInv'
<1>1. UNCHANGED <<kind, sizes, asked>> /\ pc = "head" BY DEF ReadHead, Taken
<1>2. CASE kind # "session" BY <1>1, <1>2 DEF SessionInv
<1>3. CASE kind = "session"
  <2>1. PICK k, s, p, rest :
          /\ k \in Reads(Buffer - Len(data))
          /\ s = data \o Prefix(wire, k) /\ p = Piece(s, "end") /\ rest = Rest(s, "end")
          /\ wire' = Suffix(wire, k)
          /\ \E error \in Errors(p) :
               IF error \/ Len(rest) = Buffer THEN Close
               ELSE IF Foreign(p) THEN GoAstray
               ELSE /\ torn' = torn \cup Torn(p)
                    /\ length' = NewLength(p, length)
                    /\ data' = rest
                    /\ IF ~Finished(s, "end")
                       THEN UNCHANGED <<pc, body, left>>
                       ELSE RequestBody(length', rest)
                    /\ Returned
    BY <1>3 DEF ReadHead, Taken
  <2>2. PICK error \in Errors(p) :
               IF error \/ Len(rest) = Buffer THEN Close
               ELSE IF Foreign(p) THEN GoAstray
               ELSE /\ torn' = torn \cup Torn(p)
                    /\ length' = NewLength(p, length)
                    /\ data' = rest
                    /\ IF ~Finished(s, "end")
                       THEN UNCHANGED <<pc, body, left>>
                       ELSE RequestBody(length', rest)
                    /\ Returned
    BY <2>1
  <2>3. CASE error \/ Len(rest) = Buffer
    <3>1. pc' = "closed" BY <2>2, <2>3 DEF Close
    <3>2. QED BY <1>1, <3>1 DEF SessionInv, Exact
  <2>a. CASE ~(error \/ Len(rest) = Buffer) /\ Foreign(p)
    <3>1. pc' = "astray" BY <2>2, <2>a DEF GoAstray
    <3>2. QED BY <1>1, <3>1 DEF SessionInv, Exact
  <2>4. CASE ~(error \/ Len(rest) = Buffer) /\ ~Foreign(p)
    <3>1. /\ torn' = torn \cup Torn(p) /\ length' = NewLength(p, length) /\ data' = rest
          /\ ~Finished(s, "end") => pc' = pc
          /\ Finished(s, "end") => RequestBody(length', rest)
          /\ pc' # "done" => answered' = answered
      BY <2>2, <2>4 DEF Returned
    <3>2. FALSE \in Errors(p)
      <4>1. error \in BOOLEAN BY DEF Errors
      <4>2. QED BY <2>4, <4>1
    <3>3. pc' \in {"head", "fixed", "handle", "crashed"} /\ answered' = answered
      BY <1>1, <3>1 DEF RequestBody
    <3>4. SUFFICES ASSUME "name" \notin torn' PROVE Exact'
      BY <1>1, <3>3 DEF SessionInv
    <3>5. "name" \notin torn /\ "name" \notin Torn(p) BY <3>1, <3>4
    <3>6. data = <<>> /\ (Idle \/ Asking) BY <1>1, <1>3, <3>5 DEF SessionInv, Exact
    <3>7. Buffer \in Nat /\ Len(data) = 0 BY <3>6, HttpAssumption
    <3>8. Len(wire) \in Nat => k \in 1..Len(wire)
      <4> SUFFICES ASSUME Len(wire) \in Nat PROVE k \in 1..Len(wire) OBVIOUS
      <4>1. k \in 1..Min({Buffer, Len(wire)}) BY <2>1, <3>7 DEF Reads
      <4>2. QED BY <3>7, <4>1, MinBound
    <3>9. ~Idle BY <3>8 DEF Idle
    <3>10. PICK n \in Lengths : sizes = <<n>> /\ \E c \in 0..HeadLength(n) - 1 :
             /\ wire = Seg(n, c, HeadLength(n) + n - c)
             /\ length = LengthAt(n, c)
      BY <3>6, <3>9 DEF Asking
    <3>11. PICK c \in 0..HeadLength(n) - 1 :
             /\ wire = Seg(n, c, HeadLength(n) + n - c)
             /\ length = LengthAt(n, c)
      BY <3>10
    <3>12. PICK h \in {7, 11} : h = HeadLength(n) BY DEF HeadLength
    <3>13. PICK m : m = h + n - c OBVIOUS
    <3>14. n \in Nat /\ c \in Nat /\ c < h /\ m \in Nat /\ wire = Seg(n, c, m)
      BY <3>11, <3>12, <3>13, HttpAssumption
    <3>15. k \in 1..m
      <4>1. Slice(Seg(n, c, m), n, c, m) BY <3>14, SegType
      <4>2. QED BY <3>8, <3>14, <4>1 DEF Slice
    <3>16. k \in Nat /\ k # 0 /\ m - k \in Nat /\ m = k + (m - k) /\ c + k \in Nat
      BY <3>14, <3>15
    <3>17. Prefix(wire, k) = Seg(n, c, k) /\ wire' = Seg(n, c + k, m - k)
      <4>1. Parted(n, c, k, c + k, m - k) BY <3>14, <3>16, SegParts
      <4>2. QED BY <2>1, <3>14, <3>16, <4>1 DEF Parted
    <3>18. s = Seg(n, c, k)
      <4>1. PICK b : b = Seg(n, c, k) OBVIOUS
      <4>2. Slice(Seg(n, c, k), n, c, k) BY <3>14, <3>16, SegType
      <4>3. b \in Seq(Bytes) BY <4>1, <4>2 DEF Slice
      <4>4. <<>> \o b = b BY <4>3, ConcatEmptySeq
      <4>5. QED BY <2>1, <3>6, <3>17, <4>1, <4>4
    <3>19. PICK q : q = Eaten(n, c, k) OBVIOUS
    <3>20. /\ q \in 1..k /\ c + q <= h
           /\ Finished(s, "end") <=> c + q = h
           /\ c + q < h => q = k
           /\ p = Seg(n, c, q) /\ rest = Seg(n, c + q, k - q)
      <4>1. Eats(n, c, k, q) BY <3>14, <3>16, <3>19, ExcuteEats
      <4>2. QED BY ONLY <2>1, <3>12, <3>18, <4>1 DEF Eats
    <3>21. length' = LengthAt(n, c + q)
      <4>1. q \in Nat \ {0} BY <3>16, <3>20
      <4>2. NewLength(Seg(n, c, q), LengthAt(n, c)) = LengthAt(n, c + q)
        BY <3>2, <3>5, <3>12, <3>14, <3>20, <4>1, LengthSeen
      <4>3. QED BY <3>1, <3>11, <3>20, <4>2
    <3>22. asked' # answered' BY <1>1, <3>3, <3>6, <3>9 DEF Asking
    <3>23. CASE c + q < h
      <4>1. pc' = "head" /\ q = k BY <1>1, <3>1, <3>20, <3>23
      <4>2. data' = <<>>
        <5>1. k - q = 0 /\ c + q \in Nat BY <3>14, <3>16, <4>1
        <5>2. QED BY <3>1, <3>14, <3>20, <5>1, SegEmpty
      <4>3. PICK e : e = c + k OBVIOUS
      <4>4. e \in 0..h - 1 /\ m - k = h + n - e
        <5>1. h \in Nat /\ k \in Nat /\ c \in Nat /\ n \in Nat BY ONLY <3>12, <3>14, <3>16
        <5>2. e < h BY ONLY <3>23, <4>1, <4>3
        <5>3. e \in 0..h - 1 BY ONLY <4>3, <5>1, <5>2
        <5>4. m - k = h + n - e BY ONLY <3>13, <4>3, <5>1
        <5>5. QED BY <5>3, <5>4
      <4>5. wire' = Seg(n, e, h + n - e) /\ length' = LengthAt(n, e)
        BY <3>17, <3>21, <4>1, <4>3, <4>4
      <4>6. Asking' BY <1>1, <3>10, <3>12, <3>22, <4>4, <4>5 DEF Asking
      <4>7. QED BY <4>1, <4>2, <4>6 DEF Exact
    <3>24. CASE c + q = h
      <4>1. PICK j : j = k - q OBVIOUS
      <4>2. j \in 0..n /\ c + k = h + j /\ m - k = n - j
        <5>1. /\ h \in Nat /\ k \in Nat /\ c \in Nat /\ n \in Nat /\ q \in Nat
              /\ q <= k /\ k <= m
          BY ONLY <3>12, <3>14, <3>15, <3>16, <3>20, n \in Nat
        <5>2. c + k = h + j BY ONLY <3>24, <4>1, <5>1
        <5>3. m - k = n - j BY ONLY <3>13, <5>1, <5>2, <4>1, <3>24
        <5>4. j \in 0..n BY ONLY <3>13, <3>24, <4>1, <5>1
        <5>5. QED BY <5>2, <5>3, <5>4
      <4>3. rest = Seg(n, h, j) /\ wire' = Seg(n, h + j, n - j)
        BY <3>17, <3>20, <3>24, <4>1, <4>2
      <4>4. length' = n BY <3>12, <3>14, <3>21, <3>24 DEF LengthAt, HeadLength
      <4>5. RequestBody(n, rest) BY <3>1, <3>20, <3>24, <4>4
      <4>6. sizes' = <<n>> BY <1>1, <3>10
      <4>7. QED BY <3>12, <3>22, <4>2, <4>3, <4>4, <4>5, <4>6, BodyBegun
    <3>25. QED BY <3>12, <3>14, <3>20, <3>23, <3>24
  <2>5. QED BY <2>3, <2>a, <2>4
<1>4. QED BY <1>2, <1>3

\* Every step keeps the invariant.
LEMMA StepSession == ~Pipelining /\ SessionInv /\ [Next]_vars => SessionInv'
<1> SUFFICES ASSUME ~Pipelining, SessionInv, [Next]_vars PROVE SessionInv' OBVIOUS
<1>1. CASE Peer BY <1>1, PeerKeeps
<1>2. CASE ReadHead BY <1>2, ReadHeadKeeps
<1>3. CASE ReadFails
  <2>1. pc' = "closed" /\ UNCHANGED <<kind, asked>> BY <1>3 DEF ReadFails, Close, peerVars
  <2>2. QED BY <2>1 DEF SessionInv, Exact
<1>4. CASE ReadFixed BY <1>4, ReadFixedKeeps
<1>5. CASE Handle \/ Write \/ WriteFails BY <1>5, WriteKeeps
<1>6. CASE Connection
  <2>1. pc \in {"chunk", "content"} BY <1>6 DEF Connection, ChunkHeader, ReadContent
  <2>2. kind # "session" BY <2>1 DEF SessionInv
  <2>3. UNCHANGED <<kind, asked>>
    BY <1>6 DEF Connection, ChunkHeader, ReadContent, Taken, peerVars
  <2>4. QED BY <2>2, <2>3 DEF SessionInv
<1>s. CASE Stray
  <2>1. /\ pc = "astray" /\ kind' = kind /\ asked' = asked
        /\ kind = "session" => pc' \in {"closed", "astray"}
    BY <1>s DEF Stray, Taken, Close
  <2>2. QED BY <2>1 DEF SessionInv, Exact
<1>7. CASE UNCHANGED vars
  BY <1>7 DEF vars, SessionInv, Exact, Idle, Asking, Fixed, Begun, Whole
<1>8. QED BY <1>1, <1>2, <1>3, <1>4, <1>5, <1>6, <1>s, <1>7 DEF Next, Session

\* SessionFramed for clients that ask again only when they are answered: when a
\* request goes to the servlets its whole body has been read, the next read begins
\* at the next request, and the body is the one its client sent or was overrun
\* (HTTPSession::recvRequest).
THEOREM RequestsFramed ==
  ASSUME ~Pipelining
  PROVE  Spec => []SessionFramed
<1>1. SessionInv => SessionFramed
  <2> SUFFICES ASSUME SessionInv, kind = "session", pc = "handle", "name" \notin torn
               PROVE  wire = <<>> /\ (body = Content(0, sizes[1]) \/ Len(body) > sizes[1])
    BY DEF SessionFramed
  <2>1. Whole BY DEF SessionInv, Exact
  <2>2. QED BY <2>1 DEF Whole
<1>2. SessionInv /\ [Next]_vars => SessionInv' BY StepSession
<1>3. QED BY <1>1, <1>2, InitSession, PTL DEF Spec

(* Recursion: the functions that the model defines by it are what their    *)
(* definitions say.  TLA+ promises that only if there is such a function,  *)
(* and there is one if the value at x depends on smaller arguments only.   *)

\* Induction: if a property of numbers fails it fails for a least one.
LEMMA Least ==
  ASSUME NEW S \in SUBSET Nat, S # {}
  PROVE  \E m \in S : \A k \in S : m <= k
<1>1. \E m \in S : \A k \in S : ~(<<k, m>> \in OpToRel(<, Nat))
  BY WFMin, NatLessThanWellFounded, Zenon
<1>2. PICK m \in S : \A k \in S : ~(<<k, m>> \in OpToRel(<, Nat))
  BY <1>1
<1>3. \A k \in S : ~ (k < m)
  BY <1>2, Zenon DEF OpToRel
<1>4. QED BY <1>3

\* g is what it should be wherever the rank is below n.
Upto(D, rank, step, n, g) ==
  \A x \in D : rank[x] < n => g[x] = step[x][g]

\* The value at x depends on those of lower rank only.
Lowers(D, T, rank, step) ==
  \A x \in D : \A f, g \in [D -> T] :
    (\A y \in D : rank[y] < rank[x] => f[y] = g[y]) => step[x][f] = step[x][g]

\* Two functions that are what they should be below n agree there.
LEMMA Agree ==
  ASSUME NEW D, NEW T, NEW rank \in [D -> Nat], NEW step, Lowers(D, T, rank, step),
         NEW n \in Nat, NEW f \in [D -> T], NEW g \in [D -> T],
         Upto(D, rank, step, n, f), Upto(D, rank, step, n, g)
  PROVE  \A x \in D : rank[x] < n => f[x] = g[x]
<1> DEFINE S == {k \in Nat : k < n /\ \E x \in D : rank[x] = k /\ f[x] # g[x]}
<1>1. SUFFICES ASSUME S # {} PROVE FALSE OBVIOUS
<1>2. PICK m \in S : \A k \in S : m <= k BY <1>1, Least
<1>3. PICK x \in D : rank[x] = m /\ f[x] # g[x] OBVIOUS
<1>4. \A y \in D : rank[y] < rank[x] => f[y] = g[y]
  <2> SUFFICES ASSUME NEW y \in D, rank[y] < rank[x], f[y] # g[y] PROVE FALSE OBVIOUS
  <2>1. rank[y] \in Nat /\ rank[y] < n BY <1>3
  <2>2. rank[y] \in S BY <2>1
  <2>3. QED BY <1>2, <1>3, <2>1, <2>2
<1>5. step[x][f] = step[x][g] BY <1>4 DEF Lowers
<1>6. f[x] = step[x][f] /\ g[x] = step[x][g] BY <1>3 DEF Upto
<1>7. QED BY <1>3, <1>5, <1>6

\* There is such a function for each n.
LEMMA Reaches ==
  ASSUME NEW D, NEW T, NEW t \in T, NEW rank \in [D -> Nat],
         NEW step \in [D -> [[D -> T] -> T]], Lowers(D, T, rank, step), NEW n \in Nat
  PROVE  \E g \in [D -> T] : Upto(D, rank, step, n, g)
<1> DEFINE S == {k \in Nat : ~\E g \in [D -> T] : Upto(D, rank, step, k, g)}
<1>1. SUFFICES ASSUME S # {} PROVE FALSE OBVIOUS
<1>2. PICK m \in S : \A k \in S : m <= k BY <1>1, Least
<1>3. m # 0
  <2>1. Upto(D, rank, step, 0, [x \in D |-> t]) BY DEF Upto
  <2>2. [x \in D |-> t] \in [D -> T] OBVIOUS
  <2>3. QED BY <2>1, <2>2
<1>4. m - 1 \in Nat /\ m - 1 \notin S BY <1>2, <1>3
<1>5. PICK g \in [D -> T] : Upto(D, rank, step, m - 1, g) BY <1>4
<1>6. PICK h : h = [x \in D |-> step[x][g]] OBVIOUS
<1>7. h \in [D -> T] BY <1>6
<1>8. \A y \in D : rank[y] < m - 1 => g[y] = h[y] BY <1>5, <1>6 DEF Upto
<1>9. Upto(D, rank, step, m, h)
  <2> SUFFICES ASSUME NEW x \in D, rank[x] < m PROVE h[x] = step[x][h] BY DEF Upto
  <2>1. \A y \in D : rank[y] < rank[x] => g[y] = h[y] BY <1>2, <1>8
  <2>2. step[x][g] = step[x][h] BY <1>7, <2>1 DEF Lowers
  <2>3. QED BY <1>6, <2>2
<1>10. QED BY <1>7, <1>9

\* A function that is what it should be everywhere.
Solvable(D, T, step) == \E f \in [D -> T] : \A x \in D : f[x] = step[x][f]

\* Recursion on a rank has a solution.
LEMMA Recursion ==
  ASSUME NEW D, NEW T, NEW t \in T, NEW rank \in [D -> Nat],
         NEW step \in [D -> [[D -> T] -> T]], Lowers(D, T, rank, step)
  PROVE  Solvable(D, T, step)
<1> DEFINE G(n) == CHOOSE g \in [D -> T] : Upto(D, rank, step, n, g)
<1>1. \A n \in Nat : G(n) \in [D -> T] /\ Upto(D, rank, step, n, G(n)) BY Reaches
<1> HIDE DEF G
<1>2. PICK f : f = [x \in D |-> G(rank[x] + 1)[x]] OBVIOUS
<1>3. f \in [D -> T] BY <1>1, <1>2
<1>4. ASSUME NEW x \in D PROVE f[x] = step[x][f]
  <2>1. rank[x] + 1 \in Nat /\ rank[x] < rank[x] + 1 OBVIOUS
  <2>2. PICK g \in [D -> T] : g = G(rank[x] + 1) /\ Upto(D, rank, step, rank[x] + 1, g)
    BY <1>1, <2>1
  <2>3. ASSUME NEW y \in D, rank[y] < rank[x] PROVE f[y] = g[y]
    <3>1. rank[y] + 1 \in Nat /\ rank[y] < rank[y] + 1 OBVIOUS
    <3>2. PICK h \in [D -> T] : h = G(rank[y] + 1) /\ Upto(D, rank, step, rank[y] + 1, h)
      BY <1>1, <3>1
    <3>3. Upto(D, rank, step, rank[y] + 1, g)
      <4> SUFFICES ASSUME NEW z \in D, rank[z] < rank[y] + 1 PROVE g[z] = step[z][g] BY DEF Upto
      <4>1. rank[z] < rank[x] + 1 BY <2>3
      <4>2. QED BY <2>2, <4>1 DEF Upto
    <3>4. h[y] = g[y] BY <3>1, <3>2, <3>3, Agree
    <3>5. QED BY <1>2, <3>2, <3>4
  <2>4. step[x][f] = step[x][g] BY <1>3, <2>3 DEF Lowers
  <2>5. f[x] = g[x] BY <1>2, <2>2
  <2>6. QED BY <2>1, <2>2, <2>4, <2>5 DEF Upto
<1>5. QED BY <1>3, <1>4 DEF Solvable

-----------------------------------------------------------------------------
(* Folds.                                                                  *)

\* A set of numbers up to n has a greatest one.
LEMMA Greatest ==
  ASSUME NEW n \in Nat, NEW s \in SUBSET (1 .. n), s # {}
  PROVE  Max(s) \in s /\ \A y \in s : Max(s) >= y
<1> DEFINE S == {k \in Nat : \E x \in s : k = n - x}
<1>1. S # {}
  <2>1. PICK x \in s : TRUE OBVIOUS
  <2>2. n - x \in S BY <2>1
  <2>3. QED BY <2>2
<1>2. PICK m \in S : \A k \in S : m <= k BY <1>1, Least
<1>3. PICK x \in s : m = n - x OBVIOUS
<1>4. ASSUME NEW y \in s PROVE x >= y
  <2>1. n - y \in S OBVIOUS
  <2>2. m <= n - y BY <1>2, <2>1
  <2>3. QED BY <1>3, <2>2
<1>5. \E z \in s : \A y \in s : z >= y BY <1>4
<1>6. QED BY <1>5 DEF Max

\* Taking the greatest away.
LEMMA UptoLess ==
  ASSUME NEW n \in Nat, NEW k \in Nat \ {0}, k <= n
  PROVE  1 .. k \in SUBSET (1 .. n) /\ 1 .. k # {} /\ (1 .. k) \ {k} = 1 .. k - 1
<1>1. 1 .. k \subseteq 1 .. n OBVIOUS
<1>2. k \in 1 .. k OBVIOUS
<1>3. \A x : x \in (1 .. k) \ {k} <=> x \in 1 .. k - 1 OBVIOUS
<1>4. QED BY <1>1, <1>2, <1>3

\* It is n.
LEMMA GreatestUpto ==
  ASSUME NEW n \in Nat \ {0}
  PROVE  Max(1 .. n) = n
<1>1. 1 .. n \in SUBSET (1 .. n) /\ n \in 1 .. n OBVIOUS
<1>2. Max(1 .. n) \in 1 .. n /\ \A y \in 1 .. n : Max(1 .. n) >= y BY <1>1, Greatest
<1>3. QED BY <1>1, <1>2

\* What a fold of a sequence computes for the parts of its domain.
Folds(it, base, op, p) ==
  it = [s \in SUBSET (DOMAIN p) |->
          IF s = {} THEN base ELSE op[p[Max(s)]][it[s \ {Max(s)}]]]

\* There is such a function.
LEMMA FoldExists ==
  ASSUME NEW S, NEW T, NEW base \in T, NEW op \in [S -> [T -> T]], NEW p \in Seq(S)
  PROVE  \E it \in [SUBSET (DOMAIN p) -> T] : Folds(it, base, op, p)
<1> DEFINE D == SUBSET (DOMAIN p)
           rank == [s \in D |-> Cardinality(s)]
           step == [s \in D |-> [f \in [D -> T] |->
                      IF s = {} THEN base ELSE op[p[Max(s)]][f[s \ {Max(s)}]]]]
<1>1. PICK n \in Nat : n = Len(p) /\ DOMAIN p = 1 .. n OBVIOUS
<1>2. ASSUME NEW s \in D
      PROVE  IsFiniteSet(s) /\ Cardinality(s) \in Nat
  <2>1. 1 \in Int /\ n \in Int OBVIOUS
  <2>2. IsFiniteSet(1 .. n) BY <2>1, FS_Interval
  <2>3. IsFiniteSet(s) BY <1>1, <2>2, FS_Subset
  <2>4. QED BY <2>3, FS_CardinalityType
<1>3. rank \in [D -> Nat] BY <1>2
<1>4. ASSUME NEW s \in D, s # {}
      PROVE  /\ Max(s) \in s /\ s \ {Max(s)} \in D
             /\ rank[s \ {Max(s)}] < rank[s] /\ p[Max(s)] \in S
  <2>1. Max(s) \in s BY <1>1, <1>4, Greatest
  <2>2. s \ {Max(s)} \in D OBVIOUS
  <2>3. Cardinality(s \ {Max(s)}) = Cardinality(s) - 1 BY <1>2, <2>1, FS_RemoveElement
  <2>4. QED BY <1>1, <1>2, <2>1, <2>2, <2>3
<1>5. step \in [D -> [[D -> T] -> T]]
  <2>1. ASSUME NEW s \in D, NEW f \in [D -> T]
        PROVE  (IF s = {} THEN base ELSE op[p[Max(s)]][f[s \ {Max(s)}]]) \in T
    <3>1. s # {} => p[Max(s)] \in S /\ f[s \ {Max(s)}] \in T BY <1>4
    <3>2. QED BY <3>1
  <2>2. QED BY <2>1
<1>6. Lowers(D, T, rank, step)
  <2>1. ASSUME NEW s \in D, NEW f \in [D -> T], NEW g \in [D -> T],
               \A y \in D : rank[y] < rank[s] => f[y] = g[y]
        PROVE  step[s][f] = step[s][g]
    <3>1. s # {} => f[s \ {Max(s)}] = g[s \ {Max(s)}] BY <1>4, <2>1
    <3>2. QED BY <3>1
  <2>2. QED BY <2>1 DEF Lowers
<1>7. PICK f \in [D -> T] : \A s \in D : f[s] = step[s][f]
  <2> HIDE DEF D, rank, step
  <2>1. Solvable(D, T, step) BY <1>3, <1>5, <1>6, Recursion
  <2>2. QED BY <2>1 DEF Solvable
<1>8. Folds(f, base, op, p) BY <1>7 DEF Folds
<1>9. QED BY <1>8

\* The sums of a sequence's beginnings.
Sums(h, p) == h[0] = 0 /\ \A k \in 1 .. Len(p) : h[k] = h[k - 1] + p[k]

\* Total, the fold of the sizes, is the last of the sums.
LEMMA TotalSums ==
  ASSUME NEW p \in Seq(Nat)
  PROVE  \E h : Sums(h, p) /\ Total(p) = h[Len(p)]
<1>0. PICK n \in Nat : n = Len(p) /\ DOMAIN p = 1 .. n OBVIOUS
<1> DEFINE op == [x \in Nat |-> [m \in Nat |-> m + x]]
<1>1. PICK f \in [SUBSET (DOMAIN p) -> Nat] : Folds(f, 0, op, p)
  <2>1. op \in [Nat -> [Nat -> Nat]] OBVIOUS
  <2> HIDE DEF op
  <2>2. QED BY <2>1, FoldExists
<1>2. f = [s \in SUBSET (DOMAIN p) |-> IF s = {} THEN 0 ELSE f[s \ {Max(s)}] + p[Max(s)]]
  <2>1. ASSUME NEW s \in SUBSET (DOMAIN p), s # {}
        PROVE  op[p[Max(s)]][f[s \ {Max(s)}]] = f[s \ {Max(s)}] + p[Max(s)]
    <3>1. Max(s) \in DOMAIN p BY <1>0, <2>1, Greatest
    <3>2. p[Max(s)] \in Nat /\ f[s \ {Max(s)}] \in Nat BY <3>1
    <3>3. QED BY <3>2
  <2>2. \A s \in SUBSET (DOMAIN p) :
          f[s] = IF s = {} THEN 0 ELSE op[p[Max(s)]][f[s \ {Max(s)}]]
    BY <1>1 DEF Folds
  <2> HIDE DEF op
  <2>3. \A s \in SUBSET (DOMAIN p) : f[s] = IF s = {} THEN 0 ELSE f[s \ {Max(s)}] + p[Max(s)]
    BY <2>1, <2>2
  <2>4. QED BY <2>3
<1>3. PICK it : it = CHOOSE g : g = [s \in SUBSET (DOMAIN p) |->
                  IF s = {} THEN 0 ELSE g[s \ {Max(s)}] + p[Max(s)]]
  OBVIOUS
<1>4. it = [s \in SUBSET (DOMAIN p) |-> IF s = {} THEN 0 ELSE it[s \ {Max(s)}] + p[Max(s)]]
  BY ONLY <1>2, <1>3
<1>5. Total(p) = it[DOMAIN p] BY <1>3 DEF Total, FoldLeft, MapThenFoldSet
<1>6. PICK h : h = [k \in 0 .. n |-> it[1 .. k]] OBVIOUS
<1>7. h[0] = 0
  <2>1. 1 .. 0 = {} OBVIOUS
  <2>2. it[{}] = 0 BY <1>4
  <2>3. 0 \in 0 .. n OBVIOUS
  <2>4. QED BY <1>6, <2>1, <2>2, <2>3
<1>8. ASSUME NEW k \in 1 .. n PROVE h[k] = h[k - 1] + p[k]
  <2>0. k \in Nat \ {0} /\ k <= n OBVIOUS
  <2>1. 1 .. k \in SUBSET (DOMAIN p) /\ 1 .. k # {} /\ (1 .. k) \ {k} = 1 .. k - 1
    BY <1>0, <2>0, UptoLess
  <2>2. Max(1 .. k) = k BY <2>0, GreatestUpto
  <2>3. it[1 .. k] = it[(1 .. k) \ {Max(1 .. k)}] + p[Max(1 .. k)] BY <1>4, <2>1
  <2>4. k \in 0 .. n /\ k - 1 \in 0 .. n OBVIOUS
  <2>5. QED BY <1>6, <2>1, <2>2, <2>3, <2>4
<1>9. h[n] = it[1 .. n] BY <1>6
<1>10. QED BY <1>0, <1>5, <1>7, <1>8, <1>9 DEF Sums

\* The sums of sequences that begin alike are alike.
LEMMA SumsAgree ==
  ASSUME NEW p \in Seq(Nat), NEW q \in Seq(Nat), NEW g, NEW h, Sums(g, p), Sums(h, q),
         NEW n \in Nat, n <= Len(p), n <= Len(q), \A i \in 1 .. n : p[i] = q[i]
  PROVE  g[n] = h[n] /\ g[n] \in Nat
<1> DEFINE S == {k \in Nat : k <= n /\ ~(g[k] = h[k] /\ g[k] \in Nat)}
<1>1. ASSUME S # {} PROVE FALSE
  <2>1. PICK m \in S : \A k \in S : m <= k BY <1>1, Least
  <2>2. m # 0 BY <2>1 DEF Sums
  <2>3. m - 1 \in Nat /\ m - 1 \notin S BY <2>1, <2>2
  <2>4. g[m - 1] = h[m - 1] /\ g[m - 1] \in Nat BY <2>1, <2>3
  <2>5. m \in 1 .. Len(p) /\ m \in 1 .. Len(q) /\ m \in 1 .. n BY <2>1, <2>2
  <2>6. g[m] = g[m - 1] + p[m] /\ h[m] = h[m - 1] + q[m] BY <2>5 DEF Sums
  <2>7. p[m] = q[m] /\ p[m] \in Nat BY <2>5
  <2>8. g[m - 1] + p[m] \in Nat BY <2>4, <2>7
  <2>9. g[m] = h[m] /\ g[m] \in Nat BY ONLY <2>4, <2>6, <2>7, <2>8
  <2>10. QED BY <2>1, <2>9
<1>2. n \notin S BY <1>1
<1>3. QED BY <1>2

\* The content before chunk i, and what chunk i adds to it.
Before(c, i) == Total(SubSeq(c, 1, i - 1))

\* Nothing is before the first chunk, and everything before the end.
LEMMA BeforeStep ==
  ASSUME NEW c \in Seq(Nat)
  PROVE  /\ \A i \in 1 .. Len(c) + 1 : Before(c, i) \in Nat
         /\ Before(c, 1) = 0
         /\ \A i \in 1 .. Len(c) : Before(c, i + 1) = Before(c, i) + c[i]
         /\ Before(c, Len(c) + 1) = Total(c)
<1>1. PICK h : Sums(h, c) /\ Total(c) = h[Len(c)] BY TotalSums
<1>2. ASSUME NEW i \in 0 .. Len(c)
      PROVE  Total(SubSeq(c, 1, i)) = h[i] /\ h[i] \in Nat
  <2>0. /\ SubSeq(c, 1, i) \in Seq(Nat)
        /\ Len(SubSeq(c, 1, i)) = (IF 1 <= i THEN i - 1 + 1 ELSE 0)
        /\ \A k \in 1 .. i - 1 + 1 : SubSeq(c, 1, i)[k] = c[1 + k - 1]
    <3>1. \A k \in 1 .. i : c[k] \in Nat OBVIOUS
    <3>2. QED BY <3>1, SubSeqProperties
  <2>1. PICK p \in Seq(Nat) : p = SubSeq(c, 1, i) BY <2>0
  <2>2. Len(p) = i /\ \A k \in 1 .. i : p[k] = c[k]
    <3>1. i - 1 + 1 = i /\ \A k \in 1 .. i : 1 + k - 1 = k OBVIOUS
    <3>2. i \in Nat OBVIOUS
    <3>3. QED BY <2>0, <2>1, <3>1, <3>2
  <2>3. PICK g : Sums(g, p) /\ Total(p) = g[Len(p)] BY TotalSums
  <2>4. i \in Nat /\ i <= Len(p) /\ i <= Len(c) BY <2>2
  <2>5. g[i] = h[i] /\ g[i] \in Nat
    <3>1. Sums(g, p) /\ Sums(h, c) BY <1>1, <2>3
    <3>2. \A k \in 1 .. i : p[k] = c[k] BY <2>2
    <3>3. QED BY <2>4, <3>1, <3>2, SumsAgree
  <2>6. QED BY <2>1, <2>2, <2>3, <2>5
<1>3. ASSUME NEW i \in 1 .. Len(c) + 1 PROVE Before(c, i) = h[i - 1] /\ h[i - 1] \in Nat
  <2>1. i - 1 \in 0 .. Len(c) OBVIOUS
  <2>2. QED BY <1>2, <2>1 DEF Before
<1>4. Before(c, 1) = 0
  <2>1. 1 \in 1 .. Len(c) + 1 /\ 1 - 1 = 0 OBVIOUS
  <2>2. QED BY <1>1, <1>3, <2>1 DEF Sums
<1>5. ASSUME NEW i \in 1 .. Len(c) PROVE Before(c, i + 1) = Before(c, i) + c[i]
  <2>1. i + 1 \in 1 .. Len(c) + 1 /\ i \in 1 .. Len(c) + 1 /\ (i + 1) - 1 = i OBVIOUS
  <2>2. Before(c, i + 1) = h[i] /\ Before(c, i) = h[i - 1]
    <3>1. Before(c, i + 1) = h[(i + 1) - 1] BY <1>3, <2>1
    <3>2. QED BY <1>3, <2>1, <3>1
  <2>3. h[i] = h[i - 1] + c[i] BY <1>1 DEF Sums
  <2>4. QED BY <2>2, <2>3
<1>6. Before(c, Len(c) + 1) = Total(c)
  <2>1. Len(c) + 1 \in 1 .. Len(c) + 1 /\ (Len(c) + 1) - 1 = Len(c) OBVIOUS
  <2>2. Before(c, Len(c) + 1) = h[(Len(c) + 1) - 1] BY <1>3, <2>1
  <2>3. QED BY <1>1, <2>1, <2>2
<1>7. QED BY <1>3, <1>4, <1>5, <1>6

\* The two digits of a chunk's header are read as the number they stand for.
LEMMA ChunkSizeIs ==
  ASSUME NEW a \in Bytes, NEW b \in Bytes, NEW e \in Bytes,
         a.tok = "digit", b.tok = "digit", e.tok # "digit"
  PROVE  ChunkSize(<<a, b, e>>) = a.val * Radix + b.val
<1>0. PICK p \in Seq(Bytes) : p = <<a, b, e>>
  <2>1. <<a, b, e>> \in Seq(Bytes) OBVIOUS
  <2>2. QED BY <2>1
<1>a. DOMAIN p = 1 .. 3 /\ p[1] = a /\ p[2] = b /\ p[3] = e BY <1>0
<1>b. \A x \in Bytes : x.val \in Nat BY DEF Bytes
<1>c. \A m \in Nat, x \in Bytes : m * Radix + x.val \in Nat
  <2>1. \A m, v \in Nat : m * Radix + v \in Nat BY RadixAssumption, SMT
  <2>2. QED BY <1>b, <2>1
<1> DEFINE op == [x \in Bytes |-> [m \in Nat |-> IF x.tok = "digit" THEN m * Radix + x.val ELSE m]]
<1>1. PICK f \in [SUBSET (DOMAIN p) -> Nat] : Folds(f, 0, op, p)
  <2>1. op \in [Bytes -> [Nat -> Nat]] BY <1>c
  <2> HIDE DEF op
  <2>2. QED BY <2>1, FoldExists
<1>2. f = [s \in SUBSET (DOMAIN p) |-> IF s = {} THEN 0 ELSE
             IF p[Max(s)].tok = "digit" THEN f[s \ {Max(s)}] * Radix + p[Max(s)].val
             ELSE f[s \ {Max(s)}]]
  <2>1. ASSUME NEW s \in SUBSET (DOMAIN p), s # {}
        PROVE  op[p[Max(s)]][f[s \ {Max(s)}]] =
                 IF p[Max(s)].tok = "digit" THEN f[s \ {Max(s)}] * Radix + p[Max(s)].val
                 ELSE f[s \ {Max(s)}]
    <3>1. Max(s) \in DOMAIN p BY <1>a, <2>1, Greatest
    <3>2. p[Max(s)] \in Bytes /\ f[s \ {Max(s)}] \in Nat BY <3>1
    <3>3. QED BY <3>2
  <2>2. \A s \in SUBSET (DOMAIN p) :
          f[s] = IF s = {} THEN 0 ELSE op[p[Max(s)]][f[s \ {Max(s)}]]
    BY <1>1 DEF Folds
  <2> HIDE DEF op
  <2>3. \A s \in SUBSET (DOMAIN p) : f[s] = IF s = {} THEN 0 ELSE
             IF p[Max(s)].tok = "digit" THEN f[s \ {Max(s)}] * Radix + p[Max(s)].val
             ELSE f[s \ {Max(s)}]
    BY <2>1, <2>2
  <2>4. QED BY <2>3
<1>3. PICK it : it = CHOOSE g : g = [s \in SUBSET (DOMAIN p) |-> IF s = {} THEN 0 ELSE
             IF p[Max(s)].tok = "digit" THEN g[s \ {Max(s)}] * Radix + p[Max(s)].val
             ELSE g[s \ {Max(s)}]]
  OBVIOUS
<1>4. it = [s \in SUBSET (DOMAIN p) |-> IF s = {} THEN 0 ELSE
             IF p[Max(s)].tok = "digit" THEN it[s \ {Max(s)}] * Radix + p[Max(s)].val
             ELSE it[s \ {Max(s)}]]
  BY ONLY <1>2, <1>3
<1>5. ChunkSize(p) = it[DOMAIN p] BY <1>3 DEF ChunkSize, FoldLeft, MapThenFoldSet
<1>6. it[{}] = 0 BY <1>4
<1>7. ASSUME NEW k \in 1 .. 3
      PROVE  it[1 .. k] = IF p[k].tok = "digit" THEN it[1 .. k - 1] * Radix + p[k].val
                          ELSE it[1 .. k - 1]
  <2>0. k \in Nat \ {0} /\ k <= 3 OBVIOUS
  <2>1. 1 .. k \in SUBSET (DOMAIN p) /\ 1 .. k # {} /\ (1 .. k) \ {k} = 1 .. k - 1
    BY <1>a, <2>0, UptoLess
  <2>2. Max(1 .. k) = k BY <2>0, GreatestUpto
  <2>3. it[1 .. k] = IF p[Max(1 .. k)].tok = "digit"
                     THEN it[(1 .. k) \ {Max(1 .. k)}] * Radix + p[Max(1 .. k)].val
                     ELSE it[(1 .. k) \ {Max(1 .. k)}]
    BY <1>4, <2>1
  <2>4. QED BY <2>1, <2>2, <2>3
<1>8. it[1 .. 1] = a.val
  <2>1. 1 .. 1 - 1 = {} OBVIOUS
  <2>2. it[1 .. 1] = it[1 .. 1 - 1] * Radix + p[1].val BY <1>a, <1>7
  <2>3. QED BY <1>6, <1>a, <1>b, <2>1, <2>2, RadixAssumption
<1>9. it[1 .. 2] = it[1 .. 2 - 1] * Radix + b.val BY <1>a, <1>7
<1>10. it[1 .. 3] = it[1 .. 3 - 1] BY <1>a, <1>7
<1>11. 2 - 1 = 1 /\ 3 - 1 = 2 OBVIOUS
<1>12. QED BY <1>0, <1>a, <1>5, <1>8, <1>9, <1>10, <1>11

-----------------------------------------------------------------------------
(* Sequences of bytes, taken apart and put together.                       *)

\* s cut behind its first k bytes.
CutAt(s, k) ==
  /\ Prefix(s, k) \in Seq(Bytes) /\ Suffix(s, k) \in Seq(Bytes)
  /\ Len(Prefix(s, k)) = k /\ Len(Suffix(s, k)) = Len(s) - k
  /\ \A i \in 1 .. k : Prefix(s, k)[i] = s[i]
  /\ \A i \in 1 .. Len(s) - k : Suffix(s, k)[i] = s[k + i]

\* What a read returns and what it leaves.
LEMMA CutParts ==
  ASSUME NEW s \in Seq(Bytes), NEW k \in 0 .. Len(s)
  PROVE  CutAt(s, k)
<1>1. PICK m \in Nat : m = Len(s) OBVIOUS
<1>2. k \in Nat /\ k <= m BY <1>1
<1>3. /\ SubSeq(s, 1, k) \in Seq(Bytes)
      /\ Len(SubSeq(s, 1, k)) = (IF 1 <= k THEN k - 1 + 1 ELSE 0)
      /\ \A i \in 1 .. k - 1 + 1 : SubSeq(s, 1, k)[i] = s[1 + i - 1]
  <2>1. \A i \in 1 .. k : s[i] \in Bytes BY <1>1, <1>2
  <2>2. QED BY <1>2, <2>1, SubSeqProperties
<1>4. /\ SubSeq(s, k + 1, m) \in Seq(Bytes)
      /\ Len(SubSeq(s, k + 1, m)) = (IF k + 1 <= m THEN m - (k + 1) + 1 ELSE 0)
      /\ \A i \in 1 .. m - (k + 1) + 1 : SubSeq(s, k + 1, m)[i] = s[(k + 1) + i - 1]
  <2>1. \A i \in k + 1 .. m : s[i] \in Bytes BY <1>1, <1>2
  <2>2. k + 1 \in Nat /\ k + 1 > 0 BY <1>2
  <2>3. QED BY <1>2, <2>1, <2>2, SubSeqProperties
<1>5. /\ (IF 1 <= k THEN k - 1 + 1 ELSE 0) = k /\ k - 1 + 1 = k
      /\ (IF k + 1 <= m THEN m - (k + 1) + 1 ELSE 0) = m - k
      /\ m - (k + 1) + 1 = m - k
      /\ \A i \in 1 .. k : 1 + i - 1 = i
      /\ \A i \in 1 .. m - k : (k + 1) + i - 1 = k + i
  BY ONLY <1>2, m \in Nat
<1>6. PICK a : a = Prefix(s, k) OBVIOUS
<1>7. PICK b : b = Suffix(s, k) OBVIOUS
<1>8. a \in Seq(Bytes) /\ Len(a) = k /\ \A i \in 1 .. k : a[i] = s[i]
  <2>1. a = SubSeq(s, 1, k) BY <1>6 DEF Prefix
  <2>2. QED BY ONLY <1>3, <1>5, <2>1
<1>9. b \in Seq(Bytes) /\ Len(b) = m - k /\ \A i \in 1 .. m - k : b[i] = s[k + i]
  <2>1. b = SubSeq(s, k + 1, m) BY <1>1, <1>7 DEF Suffix
  <2>2. QED BY ONLY <1>4, <1>5, <2>1
<1>10. QED BY <1>1, <1>6, <1>7, <1>8, <1>9 DEF CutAt

\* a with b behind it.
Behind(a, b) ==
  /\ a \o b \in Seq(Bytes) /\ Len(a \o b) = Len(a) + Len(b)
  /\ \A i \in 1 .. Len(a) : (a \o b)[i] = a[i]
  /\ \A i \in 1 .. Len(b) : (a \o b)[Len(a) + i] = b[i]

\* What an append to the buffer or to the body makes.
LEMMA Joined ==
  ASSUME NEW a \in Seq(Bytes), NEW b \in Seq(Bytes)
  PROVE  Behind(a, b)
<1>1. /\ a \o b \in Seq(Bytes) /\ Len(a \o b) = Len(a) + Len(b)
      /\ \A i \in 1 .. Len(a) + Len(b) : (a \o b)[i] = IF i <= Len(a) THEN a[i] ELSE b[i - Len(a)]
  BY ConcatProperties
<1>2. PICK q : q = a \o b OBVIOUS
<1>3. PICK m : m = Len(a) OBVIOUS
<1>4. PICK n : n = Len(b) OBVIOUS
<1>5. m \in Nat /\ n \in Nat BY <1>3, <1>4
<1>6. /\ \A i \in 1 .. m : i \in 1 .. m + n /\ i <= m
      /\ \A i \in 1 .. n : m + i \in 1 .. m + n /\ ~(m + i <= m) /\ (m + i) - m = i
  BY ONLY <1>5
<1>7. /\ \A i \in 1 .. m : q[i] = a[i]
      /\ \A i \in 1 .. n : q[m + i] = b[i]
  BY ONLY <1>1, <1>2, <1>3, <1>4, <1>6
<1>8. QED BY ONLY <1>1, <1>2, <1>3, <1>4, <1>7 DEF Behind

\* Cutting where it was joined.
TwoParts(a, b) == Prefix(a \o b, Len(a)) = a /\ Suffix(a \o b, Len(a)) = b

\* It gives back the parts.
LEMMA Apart ==
  ASSUME NEW a \in Seq(Bytes), NEW b \in Seq(Bytes)
  PROVE  TwoParts(a, b)
<1>1. Behind(a, b) BY Joined
<1>2. PICK q : q = a \o b OBVIOUS
<1>3. PICK m : m = Len(a) OBVIOUS
<1>4. PICK n : n = Len(b) OBVIOUS
<1>5. /\ q \in Seq(Bytes) /\ Len(q) = m + n /\ m \in Nat /\ n \in Nat
      /\ \A i \in 1 .. m : q[i] = a[i]
      /\ \A i \in 1 .. n : q[m + i] = b[i]
  BY <1>1, <1>2, <1>3, <1>4 DEF Behind
<1>6. m \in 0 .. Len(q) BY <1>5
<1>7. CutAt(q, m) BY <1>5, <1>6, CutParts
<1>8. Prefix(q, m) = a
  <2>1. PICK x : x = Prefix(q, m) OBVIOUS
  <2>2. x \in Seq(Bytes) /\ Len(x) = m /\ \A i \in 1 .. m : x[i] = a[i]
    BY <1>5, <1>7, <2>1 DEF CutAt
  <2>3. x = a BY <1>3, <2>2, SeqEqual
  <2>4. QED BY <2>1, <2>3
<1>9. Suffix(q, m) = b
  <2>1. PICK x : x = Suffix(q, m) OBVIOUS
  <2>2. (m + n) - m = n BY <1>5
  <2>3. x \in Seq(Bytes) /\ Len(x) = n /\ \A i \in 1 .. n : x[i] = b[i]
    BY <1>5, <1>7, <2>1, <2>2 DEF CutAt
  <2>4. x = b BY <1>4, <2>3, SeqEqual
  <2>5. QED BY <2>1, <2>4
<1>10. QED BY <1>2, <1>3, <1>8, <1>9 DEF TwoParts

\* Joining where it was cut.
LEMMA Together ==
  ASSUME NEW s \in Seq(Bytes), NEW k \in 0 .. Len(s)
  PROVE  Prefix(s, k) \o Suffix(s, k) = s
<1>1. CutAt(s, k) BY CutParts
<1>2. PICK a : a = Prefix(s, k) OBVIOUS
<1>3. PICK b : b = Suffix(s, k) OBVIOUS
<1>4. PICK m \in Nat : m = Len(s) OBVIOUS
<1>5. k \in Nat /\ k <= m /\ m - k \in Nat BY <1>4
<1>6. /\ a \in Seq(Bytes) /\ Len(a) = k /\ \A i \in 1 .. k : a[i] = s[i]
      /\ b \in Seq(Bytes) /\ Len(b) = m - k /\ \A i \in 1 .. m - k : b[i] = s[k + i]
  BY <1>1, <1>2, <1>3, <1>4 DEF CutAt
<1>7. Behind(a, b) BY <1>6, Joined
<1>8. PICK q : q = a \o b OBVIOUS
<1>9. k + (m - k) = m BY ONLY <1>5, m \in Nat
<1>10. /\ q \in Seq(Bytes) /\ Len(q) = m
       /\ \A i \in 1 .. k : q[i] = s[i]
       /\ \A i \in 1 .. m - k : q[k + i] = s[k + i]
  BY <1>6, <1>7, <1>8, <1>9 DEF Behind
<1>11. ASSUME NEW i \in 1 .. m PROVE q[i] = s[i]
  <2>1. CASE i <= k BY <1>5, <1>10, <2>1
  <2>2. CASE ~(i <= k)
    <3>1. i - k \in 1 .. m - k /\ k + (i - k) = i BY <1>5, <2>2
    <3>2. QED BY ONLY <1>10, <3>1
  <2>3. QED BY <2>1, <2>2
<1>12. q = s BY <1>4, <1>10, <1>11, SeqEqual
<1>13. QED BY <1>2, <1>3, <1>8, <1>12

\* It does not matter in which order parts are put together.
Regroups(a, b, c) == (a \o b) \o c = a \o (b \o c)

\* The library's theorem for bytes.
LEMMA Associative ==
  ASSUME NEW a \in Seq(Bytes), NEW b \in Seq(Bytes), NEW c \in Seq(Bytes)
  PROVE  Regroups(a, b, c)
BY ConcatAssociative DEF Regroups

\* If two divisions of the same bytes differ, one part is longer than the other.
Divided(a, b, s, w) == Prefix(s, Len(a)) = a /\ Suffix(s, Len(a)) \o w = b

\* The longer part begins with the shorter one.
LEMMA Longer ==
  ASSUME NEW a \in Seq(Bytes), NEW b \in Seq(Bytes), NEW s \in Seq(Bytes), NEW w \in Seq(Bytes),
         s \o w = a \o b, Len(a) <= Len(s)
  PROVE  Divided(a, b, s, w)
<1>1. PICK m \in Nat : m = Len(a) OBVIOUS
<1>2. m \in 0 .. Len(s) BY <1>1
<1>3. PICK x : x = Prefix(s, m) OBVIOUS
<1>4. PICK y : y = Suffix(s, m) OBVIOUS
<1>5. x \in Seq(Bytes) /\ y \in Seq(Bytes) /\ Len(x) = m
  BY <1>2, <1>3, <1>4, CutParts DEF CutAt
<1>6. s = x \o y BY <1>2, <1>3, <1>4, Together
<1>7. PICK z : z = y \o w OBVIOUS
<1>8. z \in Seq(Bytes) BY <1>5, <1>7, Joined DEF Behind
<1>9. x \o z = a \o b
  <2>1. (x \o y) \o w = x \o (y \o w)
    <3>1. Regroups(x, y, w) BY <1>5, Associative
    <3>2. QED BY ONLY <3>1 DEF Regroups
  <2>2. QED BY <1>6, <1>7, <2>1
<1>10. TwoParts(x, z) /\ TwoParts(a, b) BY <1>5, <1>8, Apart
<1>11. x = a /\ z = b BY <1>1, <1>5, <1>9, <1>10 DEF TwoParts
<1>12. QED BY <1>1, <1>3, <1>4, <1>7, <1>11 DEF Divided

-----------------------------------------------------------------------------
(* The chunks of a response.                                               *)

\* R has what remains of the sequences S put together, from each of them on.
Tails(R, S) ==
  /\ R[1] = FlattenSeq(S) /\ R[Len(S) + 1] = <<>>
  /\ \A i \in 1 .. Len(S) : R[i] = S[i] \o R[i + 1]
  /\ \A i \in 1 .. Len(S) + 1 : R[i] \in Seq(Bytes)

\* The beginnings of S put together.
Heads(G, S) ==
  /\ G \in [1 .. Len(S) -> Seq(Bytes)]
  /\ \A i \in 1 .. Len(S) : G[i] = IF i = 1 THEN S[i] ELSE G[i - 1] \o S[i]

\* The beginnings are a function, and FlattenSeq is the last of them.
LEMMA HeadsExist ==
  ASSUME NEW S \in Seq(Seq(Bytes)), S # <<>>
  PROVE  \E G : Heads(G, S) /\ FlattenSeq(S) = G[Len(S)]
<1>0. PICK l \in Nat : l = Len(S) /\ l # 0 OBVIOUS
<1> DEFINE D == 1 .. l
           T == Seq(Bytes)
           rank == [i \in D |-> i]
           step == [i \in D |-> [f \in [D -> T] |-> IF i = 1 THEN S[i] ELSE f[i - 1] \o S[i]]]
<1>1. rank \in [D -> Nat] OBVIOUS
<1>2. step \in [D -> [[D -> T] -> T]]
  <2>1. ASSUME NEW i \in D, NEW f \in [D -> T]
        PROVE  (IF i = 1 THEN S[i] ELSE f[i - 1] \o S[i]) \in T
    <3>1. S[i] \in T BY <1>0
    <3>2. CASE i # 1
      <4>1. i - 1 \in D BY <3>2
      <4>2. PICK a \in T : a = f[i - 1] BY <4>1
      <4>3. PICK b \in T : b = S[i] BY <3>1
      <4>4. a \o b \in T BY Joined DEF Behind
      <4>5. QED BY <3>2, <4>2, <4>3, <4>4
    <3>3. QED BY <3>1, <3>2
  <2>2. QED BY <2>1
<1>3. Lowers(D, T, rank, step)
  <2>1. ASSUME NEW i \in D, NEW f \in [D -> T], NEW g \in [D -> T],
               \A y \in D : rank[y] < rank[i] => f[y] = g[y]
        PROVE  step[i][f] = step[i][g]
    <3>1. i # 1 => f[i - 1] = g[i - 1]
      <4>1. i # 1 => i - 1 \in D /\ i - 1 < i OBVIOUS
      <4>2. QED BY <2>1, <4>1
    <3>2. QED BY <3>1
  <2>2. QED BY <2>1 DEF Lowers
<1>4. <<>> \in T OBVIOUS
<1>5. PICK G \in [D -> T] : \A i \in D : G[i] = step[i][G]
  <2> HIDE DEF D, T, rank, step
  <2>1. Solvable(D, T, step) BY <1>1, <1>2, <1>3, <1>4, Recursion
  <2>2. QED BY <2>1 DEF Solvable
<1>6. \A i \in 1 .. l : G[i] = IF i = 1 THEN S[i] ELSE G[i - 1] \o S[i] BY <1>5
<1>7. G = [i \in 1 .. Len(S) |-> IF i = 1 THEN S[i] ELSE G[i - 1] \o S[i]] BY <1>0, <1>6
<1>8. PICK H : H = CHOOSE f : f = [i \in 1 .. Len(S) |-> IF i = 1 THEN S[i] ELSE f[i - 1] \o S[i]]
  OBVIOUS
<1>9. H = [i \in 1 .. Len(S) |-> IF i = 1 THEN S[i] ELSE H[i - 1] \o S[i]] BY ONLY <1>7, <1>8
<1>10. FlattenSeq(S) = H[Len(S)] BY <1>0, <1>8 DEF FlattenSeq
<1>11. H \in [1 .. l -> Seq(Bytes)]
  <2> DEFINE B == {k \in Nat : k \in 1 .. l /\ H[k] # G[k]}
  <2>1. SUFFICES ASSUME B # {} PROVE FALSE
    <3>1. \A k \in 1 .. l : H[k] = G[k]
      <4> SUFFICES ASSUME NEW k \in 1 .. l, H[k] # G[k] PROVE FALSE OBVIOUS
      <4>1. k \in Nat OBVIOUS
      <4>2. k \in B BY <4>1
      <4>3. QED BY <2>1, <4>2
    <3>2. DOMAIN H = 1 .. l BY <1>0, <1>9
    <3>3. H = [k \in 1 .. l |-> H[k]] BY <1>0, <1>9, <3>2
    <3>4. QED BY <3>1, <3>3
  <2>2. PICK m \in B : \A k \in B : m <= k BY <2>1, Least
  <2>3. m \in 1 .. l /\ H[m] # G[m] OBVIOUS
  <2>4. m # 1 => H[m - 1] = G[m - 1]
    <3> SUFFICES ASSUME m # 1 PROVE H[m - 1] = G[m - 1] OBVIOUS
    <3>1. m - 1 \in 1 .. l /\ m - 1 \in Nat BY <2>3
    <3>2. m - 1 \notin B BY <2>2, <3>1
    <3>3. QED BY <3>1, <3>2
  <2>5. H[m] = IF m = 1 THEN S[m] ELSE H[m - 1] \o S[m] BY <1>0, <1>9, <2>3
  <2>6. QED BY <1>6, <2>3, <2>4, <2>5
<1>12. Heads(H, S) BY <1>0, <1>9, <1>11 DEF Heads
<1>13. QED BY <1>10, <1>12

\* The remainders are a function, and FlattenSeq is the first of them.
LEMMA TailsExist ==
  ASSUME NEW S \in Seq(Seq(Bytes)), S # <<>>
  PROVE  \E R : Tails(R, S)
<1>0. PICK l \in Nat : l = Len(S) /\ l # 0 OBVIOUS
<1>1. PICK G : Heads(G, S) /\ FlattenSeq(S) = G[Len(S)] BY HeadsExist
<1>2. G \in [1 .. l -> Seq(Bytes)] BY <1>0, <1>1 DEF Heads
<1>3. \A i \in 1 .. l : S[i] \in Seq(Bytes) BY <1>0
<1>4. PICK F \in Seq(Bytes) : F = G[l] BY <1>0, <1>2
\* Every beginning of S begins the whole.
<1>5. ASSUME NEW i \in 1 .. l PROVE \E w \in Seq(Bytes) : F = G[i] \o w
  <2> DEFINE B == {k \in Nat : k < l /\ ~\E w \in Seq(Bytes) : F = G[l - k] \o w}
  <2>1. ASSUME B # {} PROVE FALSE
    <3>1. PICK m \in B : \A k \in B : m <= k BY <2>1, Least
    <3>2. m # 0
      <4>1. <<>> \in Seq(Bytes) OBVIOUS
      <4>2. F = F \o <<>> BY ConcatEmptySeq
      <4>3. l - 0 = l OBVIOUS
      <4>4. m = 0 => \E w \in Seq(Bytes) : F = G[l - m] \o w BY <1>4, <4>1, <4>2, <4>3
      <4>5. QED BY <4>4
    <3>a. m \in Nat /\ m < l OBVIOUS
    <3>b. m - 1 \in Nat /\ m - 1 < l /\ ~(m <= m - 1) BY <3>2, <3>a
    <3>3. m - 1 \notin B
      <4> HIDE DEF B
      <4>1. QED BY <3>1, <3>b
    <3>4. PICK w \in Seq(Bytes) : F = G[l - (m - 1)] \o w BY <3>3, <3>b
    <3>5. PICK j : j = l - (m - 1) OBVIOUS
    <3>6. j \in 1 .. l /\ j # 1 /\ j - 1 = l - m /\ j - 1 \in 1 .. l BY <3>1, <3>2, <3>5
    <3>7. G[j] = G[j - 1] \o S[j] BY <1>0, <1>1, <3>6 DEF Heads
    <3>8. PICK a \in Seq(Bytes) : a = G[j - 1] BY <1>2, <3>6
    <3>9. PICK b \in Seq(Bytes) : b = S[j] BY <1>3, <3>6
    <3>10. F = a \o (b \o w)
      <4>1. F = (a \o b) \o w BY <3>4, <3>5, <3>7, <3>8, <3>9
      <4>2. Regroups(a, b, w) BY Associative
      <4>3. QED BY ONLY <4>1, <4>2 DEF Regroups
    <3>11. b \o w \in Seq(Bytes) BY Joined DEF Behind
    <3>12. QED BY <3>1, <3>6, <3>8, <3>10, <3>11
  <2>2. l - i \in Nat /\ l - i < l /\ l - (l - i) = i OBVIOUS
  <2>3. QED BY <2>1, <2>2
<1>6. PICK R : R = [i \in 1 .. l + 1 |-> IF i = 1 THEN F ELSE Suffix(F, Len(G[i - 1]))]
  OBVIOUS
<1>7. R[1] = F /\ \A i \in 1 .. l : R[i + 1] = Suffix(F, Len(G[i]))
  <2>1. 1 \in 1 .. l + 1 OBVIOUS
  <2>2. \A i \in 1 .. l : i + 1 \in 1 .. l + 1 /\ i + 1 # 1 /\ (i + 1) - 1 = i OBVIOUS
  <2>3. QED BY <1>6, <2>1, <2>2
<1>8. R[l + 1] = <<>>
  <2>1. l \in 1 .. l BY <1>0
  <2>2. R[l + 1] = Suffix(F, Len(F)) BY <1>4, <1>7, <2>1
  <2>3. <<>> \in Seq(Bytes) /\ F \o <<>> = F BY ConcatEmptySeq
  <2>4. TwoParts(F, <<>>) BY <2>3, Apart
  <2>5. QED BY <2>2, <2>3, <2>4 DEF TwoParts
<1>9. ASSUME NEW i \in 1 .. l
      PROVE  R[i] = S[i] \o R[i + 1] /\ R[i] \in Seq(Bytes)
  <2>1. PICK w \in Seq(Bytes) : F = G[i] \o w BY <1>5
  <2>2. PICK g \in Seq(Bytes) : g = G[i] BY <1>2
  <2>3. PICK b \in Seq(Bytes) : b = S[i] BY <1>3
  <2>4. R[i + 1] = w
    <3>1. TwoParts(g, w) BY Apart
    <3>2. QED BY <1>7, <2>1, <2>2, <3>1 DEF TwoParts
  <2>5. b \o w \in Seq(Bytes) BY Joined DEF Behind
  <2>6. R[i] = b \o w
    <3>1. CASE i = 1
      <4>1. g = b BY <1>0, <1>1, <2>2, <2>3, <3>1 DEF Heads
      <4>2. QED BY <1>7, <2>1, <2>2, <3>1, <4>1
    <3>2. CASE i # 1
      <4>1. i - 1 \in 1 .. l /\ (i - 1) + 1 = i BY <3>2
      <4>2. PICK a \in Seq(Bytes) : a = G[i - 1] BY <1>2, <4>1
      <4>3. g = a \o b BY <1>0, <1>1, <2>2, <2>3, <3>2, <4>2 DEF Heads
      <4>4. F = a \o (b \o w)
        <5>1. F = (a \o b) \o w BY <2>1, <2>2, <4>3
        <5>2. Regroups(a, b, w) BY Associative
        <5>3. QED BY ONLY <5>1, <5>2 DEF Regroups
      <4>5. R[i] = Suffix(F, Len(a)) BY <1>7, <4>1, <4>2
      <4>6. TwoParts(a, b \o w) BY <2>5, Apart
      <4>7. QED BY <4>4, <4>5, <4>6 DEF TwoParts
    <3>3. QED BY <3>1, <3>2
  <2>7. QED BY <2>3, <2>4, <2>5, <2>6
<1>10. \A i \in 1 .. l + 1 : R[i] \in Seq(Bytes)
  <2>1. <<>> \in Seq(Bytes) OBVIOUS
  <2>2. \A i \in 1 .. l + 1 : i = l + 1 \/ i \in 1 .. l OBVIOUS
  <2>3. QED BY <1>8, <1>9, <2>1, <2>2
<1>11. R[1] = FlattenSeq(S) BY <1>0, <1>1, <1>4, <1>7
<1>12. Tails(R, S) BY <1>0, <1>8, <1>9, <1>10, <1>11 DEF Tails
<1>13. QED BY <1>12

\* The three bytes before the content of a chunk, and the two behind it.
Header(n) == << Byte("digit", "first", n \div Radix), Byte("digit", "last", n % Radix),
                Byte("eol", "only", 0) >>
LineEnd == Token("crlf", 0)

\* The chunks of a response, and what remains of them from one of them on.
Chunks(c) == [i \in 1 .. Len(c) |-> Chunk(Before(c, i), c[i])]
Rem(c, i) == (CHOOSE R : Tails(R, Chunks(c)))[i]

\* Content(b, n) is n bytes.
LEMMA ContentType ==
  ASSUME NEW b \in Nat, NEW n \in Nat
  PROVE  Content(b, n) \in Seq(Bytes) /\ Len(Content(b, n)) = n
<1>1. \A i \in 1 .. n : Byte("content", "only", b + i) \in Bytes
  BY DEF Byte, Bytes, Tokens, Parts
<1>2. QED BY <1>1 DEF Content

\* Contents that follow each other.
LEMMA ContentJoins ==
  ASSUME NEW m \in Nat, NEW n \in Nat
  PROVE  Content(0, m) \o Content(m, n) = Content(0, m + n)
<1>1. PICK a : a = Content(0, m) OBVIOUS
<1>2. PICK b : b = Content(m, n) OBVIOUS
<1>3. PICK s : s = Content(0, m + n) OBVIOUS
<1>4. /\ a \in Seq(Bytes) /\ Len(a) = m /\ b \in Seq(Bytes) /\ Len(b) = n
      /\ s \in Seq(Bytes) /\ Len(s) = m + n
  <2>1. 0 \in Nat /\ m + n \in Nat OBVIOUS
  <2>2. QED BY <1>1, <1>2, <1>3, <2>1, ContentType
<1>5. PICK q : q = a \o b OBVIOUS
<1>6. /\ q \in Seq(Bytes) /\ Len(q) = m + n
      /\ \A i \in 1 .. m : q[i] = a[i]
      /\ \A i \in 1 .. n : q[m + i] = b[i]
  <2>1. Behind(a, b) BY <1>4, Joined
  <2>2. QED BY <1>4, <1>5, <2>1 DEF Behind
<1>7. /\ \A i \in 1 .. m : a[i] = Byte("content", "only", i)
      /\ \A i \in 1 .. n : b[i] = Byte("content", "only", m + i)
      /\ \A i \in 1 .. m + n : s[i] = Byte("content", "only", i)
  <2>1. \A i \in 1 .. m + n : 0 + i = i OBVIOUS
  <2>2. \A i \in 1 .. m : 0 + i = i OBVIOUS
  <2>3. QED BY <1>1, <1>2, <1>3, <2>1, <2>2 DEF Content
<1>8. ASSUME NEW i \in 1 .. m + n PROVE q[i] = s[i]
  <2>1. CASE i <= m
    <3>1. i \in 1 .. m BY <2>1
    <3>2. QED BY <1>6, <1>7, <3>1
  <2>2. CASE ~(i <= m)
    <3>1. i - m \in 1 .. n /\ m + (i - m) = i BY <2>2
    <3>2. q[m + (i - m)] = Byte("content", "only", m + (i - m)) BY ONLY <1>6, <1>7, <3>1
    <3>3. QED BY <1>7, <3>1, <3>2
  <2>3. QED BY <2>1, <2>2
<1>9. q = s BY <1>4, <1>6, <1>8, SeqEqual
<1>10. QED BY <1>1, <1>2, <1>3, <1>5, <1>9

\* A header is three bytes, of which only the first begins a number, and it
\* stands for its size.
IsHeader(h, n) ==
  /\ h \in Seq(Bytes) /\ Len(h) = 3
  /\ h[1].tok = "digit" /\ h[1].part = "first"
  /\ h[2].tok = "digit" /\ h[2].part = "last"
  /\ h[3].tok = "eol"
  /\ ChunkSize(h) = n

\* A size below Radix * Radix is read as itself: two digits are enough.
LEMMA HeaderShape ==
  ASSUME NEW n \in 0 .. Radix * Radix - 1
  PROVE  IsHeader(Header(n), n)
<1>1. PICK x, y : x = n \div Radix /\ y = n % Radix OBVIOUS
<1>2. n \in Nat /\ Radix \in Nat /\ Radix > 0
  <2>1. Radix * Radix \in Nat BY RadixAssumption
  <2>2. QED BY <2>1, RadixAssumption
<1>3. x \in Nat /\ y \in Nat /\ x * Radix + y = n
  BY <1>1, <1>2
<1>4. PICK a, b, e : /\ a = Byte("digit", "first", x) /\ b = Byte("digit", "last", y)
                     /\ e = Byte("eol", "only", 0)
  OBVIOUS
<1>5. a \in Bytes /\ b \in Bytes /\ e \in Bytes
  BY <1>3, <1>4 DEF Byte, Bytes, Tokens, Parts
<1>6. /\ a.tok = "digit" /\ a.part = "first" /\ a.val = x
      /\ b.tok = "digit" /\ b.part = "last" /\ b.val = y /\ e.tok = "eol"
  BY <1>4 DEF Byte
<1>7. ChunkSize(<<a, b, e>>) = n
  <2>1. ChunkSize(<<a, b, e>>) = a.val * Radix + b.val BY <1>5, <1>6, ChunkSizeIs
  <2>2. QED BY <1>3, <1>6, <2>1
<1>8. Header(n) = <<a, b, e>> BY <1>1, <1>4 DEF Header
<1>9. PICK h : h = <<a, b, e>> OBVIOUS
<1>10. h \in Seq(Bytes) /\ Len(h) = 3 /\ h[1] = a /\ h[2] = b /\ h[3] = e BY <1>5, <1>9
<1>11. QED BY <1>6, <1>7, <1>8, <1>9, <1>10 DEF IsHeader

\* The line end is two bytes.
LEMMA LineEndType == LineEnd \in Seq(Bytes) /\ Len(LineEnd) = 2
<1>1. PICK a, b : a = Byte("crlf", "first", 0) /\ b = Byte("crlf", "last", 0) OBVIOUS
<1>2. a \in Bytes /\ b \in Bytes BY <1>1 DEF Byte, Bytes, Tokens, Parts
<1>3. <<a, b>> \in Seq(Bytes) /\ Len(<<a, b>>) = 2 BY <1>2
<1>4. QED BY <1>1, <1>3 DEF LineEnd, Token

\* What remains from chunk i on.
Remains(c, i) ==
  /\ Rem(c, i) = Header(c[i]) \o ((Content(Before(c, i), c[i]) \o LineEnd) \o Rem(c, i + 1))
  /\ Rem(c, i) \in Seq(Bytes) /\ Rem(c, i + 1) \in Seq(Bytes)

\* A sequence of chunk sizes.
Sizes == {c \in Seq(0 .. Radix * Radix - 1) \ {<<>>} : \A i \in DOMAIN c : c[i] = 0 <=> i = Len(c)}

\* A size is a number, and the last chunk is the one of size 0.
LEMMA SizesType ==
  ASSUME NEW c \in Sizes
  PROVE  /\ c \in Seq(Nat) /\ Len(c) \in Nat \ {0}
         /\ \A i \in 1 .. Len(c) : c[i] \in 0 .. Radix * Radix - 1 /\ c[i] \in Nat /\ (c[i] = 0 <=> i = Len(c))
<1>1. c \in Seq(0 .. Radix * Radix - 1) /\ c # <<>> BY DEF Sizes
<1>2. Len(c) \in Nat \ {0} /\ DOMAIN c = 1 .. Len(c) BY <1>1
<1>3. PICK k : k = Radix * Radix - 1 OBVIOUS
<1>4. \A i \in 1 .. Len(c) : c[i] \in 0 .. k /\ c[i] \in Nat BY <1>1, <1>3
<1>5. \A i \in 1 .. Len(c) : c[i] = 0 <=> i = Len(c) BY <1>2 DEF Sizes
<1>6. c = [i \in 1 .. Len(c) |-> c[i]] BY <1>1, <1>2
<1>7. c \in Seq(Nat)
  <2>1. [i \in 1 .. Len(c) |-> c[i]] \in Seq(Nat) BY <1>2, <1>4
  <2>2. QED BY <1>6, <2>1
<1>8. QED BY <1>2, <1>3, <1>4, <1>5, <1>7

\* From every chunk on, the response is the chunk and what follows it.
LEMMA ChunksRemain ==
  ASSUME NEW c \in Sizes
  PROVE  /\ FlattenSeq(Chunks(c)) = Rem(c, 1) /\ Rem(c, Len(c) + 1) = <<>>
         /\ \A i \in 1 .. Len(c) : Remains(c, i)
<1>1. PICK S : S = Chunks(c) OBVIOUS
<1>2. /\ c \in Seq(Nat) /\ Len(c) \in Nat \ {0}
      /\ \A i \in 1 .. Len(c) : c[i] \in 0 .. Radix * Radix - 1 /\ c[i] \in Nat
  BY SizesType
<1>3. ASSUME NEW i \in 1 .. Len(c)
      PROVE  /\ Header(c[i]) \in Seq(Bytes)
             /\ Content(Before(c, i), c[i]) \in Seq(Bytes)
             /\ S[i] = (Header(c[i]) \o Content(Before(c, i), c[i])) \o LineEnd
             /\ S[i] \in Seq(Bytes)
  <2>1. Before(c, i) \in Nat BY <1>2, BeforeStep
  <2>2. PICK a : a = Header(c[i]) OBVIOUS
  <2>3. PICK b : b = Content(Before(c, i), c[i]) OBVIOUS
  <2>4. a \in Seq(Bytes) BY <1>2, <2>2, HeaderShape DEF IsHeader
  <2>5. b \in Seq(Bytes) BY <1>2, <2>1, <2>3, ContentType
  <2>6. S[i] = (a \o b) \o LineEnd BY <1>1, <2>2, <2>3 DEF Chunks, Chunk, Header, LineEnd
  <2>7. PICK d : d = a \o b OBVIOUS
  <2>8. d \in Seq(Bytes) BY <2>4, <2>5, <2>7, Joined DEF Behind
  <2>9. d \o LineEnd \in Seq(Bytes) BY <2>8, LineEndType, Joined DEF Behind
  <2>10. QED BY <2>2, <2>3, <2>4, <2>5, <2>6, <2>7, <2>9
<1>4. S \in Seq(Seq(Bytes)) /\ Len(S) = Len(c) /\ S # <<>>
  <2>1. PICK n \in Nat \ {0} : n = Len(c) BY <1>2
  <2>2. S = [i \in 1 .. n |-> S[i]] BY <1>1, <2>1 DEF Chunks
  <2>3. \A i \in 1 .. n : S[i] \in Seq(Bytes) BY <1>3, <2>1
  <2>4. [i \in 1 .. n |-> S[i]] \in Seq(Seq(Bytes)) /\ Len([i \in 1 .. n |-> S[i]]) = n BY <2>3
  <2>5. S \in Seq(Seq(Bytes)) /\ Len(S) = n BY <2>2, <2>4
  <2>6. QED BY <2>1, <2>5
<1>5. PICK R : R = CHOOSE r : Tails(r, S) OBVIOUS
<1>6. Tails(R, S)
  <2>1. \E r : Tails(r, S) BY <1>4, TailsExist
  <2>2. QED BY <1>5, <2>1
<1>7. \A i : Rem(c, i) = R[i] BY <1>1, <1>5 DEF Rem
<1>8. FlattenSeq(Chunks(c)) = Rem(c, 1) /\ Rem(c, Len(c) + 1) = <<>>
  BY <1>1, <1>4, <1>6, <1>7 DEF Tails
<1>9. ASSUME NEW i \in 1 .. Len(c) PROVE Remains(c, i)
  <2>1. PICK a \in Seq(Bytes) : a = Header(c[i]) BY <1>3
  <2>2. PICK b \in Seq(Bytes) : b = Content(Before(c, i), c[i]) BY <1>3
  <2>3. PICK e \in Seq(Bytes) : e = LineEnd BY LineEndType
  <2>4. i \in 1 .. Len(c) + 1 /\ i + 1 \in 1 .. Len(c) + 1 BY <1>2
  <2>5. Rem(c, i) \in Seq(Bytes) /\ Rem(c, i + 1) \in Seq(Bytes)
    BY <1>4, <1>6, <1>7, <2>4 DEF Tails
  <2>6. PICK r \in Seq(Bytes) : r = Rem(c, i + 1) BY <2>5
  <2>7. Rem(c, i) = ((a \o b) \o e) \o r BY <1>3, <1>4, <1>6, <1>7, <2>1, <2>2, <2>3, <2>6 DEF Tails
  <2>8. (a \o b) \o e = a \o (b \o e)
    <3>1. Regroups(a, b, e) BY Associative
    <3>2. QED BY ONLY <3>1 DEF Regroups
  <2>9. PICK d : d = b \o e OBVIOUS
  <2>10. d \in Seq(Bytes) BY <2>9, Joined DEF Behind
  <2>11. (a \o d) \o r = a \o (d \o r)
    <3>1. Regroups(a, d, r) BY <2>10, Associative
    <3>2. QED BY ONLY <3>1 DEF Regroups
  <2>12. Rem(c, i) = a \o ((b \o e) \o r) BY <2>7, <2>8, <2>9, <2>11
  <2>13. QED BY <2>1, <2>2, <2>3, <2>5, <2>6, <2>12 DEF Remains
<1>10. QED BY <1>8, <1>9

-----------------------------------------------------------------------------
(* The heads of responses, and what excute makes of a piece.               *)

\* The head of a chunked response.
HeadBytes ==
  Token("version", 0) \o Token("status", 0)
  \o Token("name", 0) \o Token("coding", 0) \o End

IsHead(h) ==
  /\ h \in Seq(Bytes) /\ Len(h) = 9
  /\ \A i \in 1 .. 9 : (h[i].tok = "end" <=> i = 9) /\ (h[i] = Byte("coding", "last", 0) <=> i = 8)
  /\ \A i \in 1 .. 9 : h[i].tok \in HeadTokens

\* The flag is set by its eighth byte, and its ninth ends it.
LEMMA HeadShape == IsHead(HeadBytes)
<1>1. PICK a1, a2, b1, b2, c1, c2, d1, d2, e :
        /\ a1 = Byte("version", "first", 0) /\ a2 = Byte("version", "last", 0)
        /\ b1 = Byte("status", "first", 0) /\ b2 = Byte("status", "last", 0)
        /\ c1 = Byte("name", "first", 0) /\ c2 = Byte("name", "last", 0)
        /\ d1 = Byte("coding", "first", 0) /\ d2 = Byte("coding", "last", 0)
        /\ e = Byte("end", "only", 0)
  OBVIOUS
<1>2. /\ a1 \in Bytes /\ a2 \in Bytes /\ b1 \in Bytes /\ b2 \in Bytes
      /\ c1 \in Bytes /\ c2 \in Bytes /\ d1 \in Bytes /\ d2 \in Bytes /\ e \in Bytes
  BY <1>1 DEF Byte, Bytes, Tokens, Parts
<1>3. /\ a1.tok # "end" /\ a2.tok # "end" /\ b1.tok # "end" /\ b2.tok # "end"
      /\ c1.tok # "end" /\ c2.tok # "end" /\ d1.tok # "end" /\ d2.tok # "end" /\ e.tok = "end"
  BY <1>1 DEF Byte
<1>t. /\ a1.tok \in HeadTokens /\ a2.tok \in HeadTokens /\ b1.tok \in HeadTokens
      /\ b2.tok \in HeadTokens /\ c1.tok \in HeadTokens /\ c2.tok \in HeadTokens
      /\ d1.tok \in HeadTokens /\ d2.tok \in HeadTokens /\ e.tok \in HeadTokens
  BY <1>1 DEF Byte, HeadTokens
<1>4. /\ a1 # d2 /\ a2 # d2 /\ b1 # d2 /\ b2 # d2 /\ c1 # d2 /\ c2 # d2 /\ d1 # d2 /\ e # d2
  <2>1. d2.tok = "coding" /\ d2.part = "last" BY <1>1 DEF Byte
  <2>2. /\ a1.tok = "version" /\ a2.tok = "version" /\ b1.tok = "status" /\ b2.tok = "status"
        /\ c1.tok = "name" /\ c2.tok = "name" /\ d1.part = "first" /\ e.tok = "end"
    BY <1>1 DEF Byte
  <2>3. QED BY <2>1, <2>2
<1>5. HeadBytes = (((<<a1, a2>> \o <<b1, b2>>) \o <<c1, c2>>) \o <<d1, d2>>) \o <<e>>
  BY <1>1 DEF HeadBytes, Token, End
<1>6. PICK s : s = <<a1, a2>> OBVIOUS
<1>7. s \in Seq(Bytes) /\ Len(s) = 2 /\ s[1] = a1 /\ s[2] = a2 BY <1>2, <1>6
<1>8. PICK t : t = s \o <<b1, b2>> OBVIOUS
<1>9. Ended(t, s, b1, b2) BY <1>2, <1>7, <1>8, Pair
<1>10. t \in Seq(Bytes) /\ Len(t) = 4 /\ t[1] = a1 /\ t[2] = a2 /\ t[3] = b1 /\ t[4] = b2
  BY <1>7, <1>9 DEF Ended
<1>11. PICK u : u = t \o <<c1, c2>> OBVIOUS
<1>12. Ended(u, t, c1, c2) BY <1>2, <1>10, <1>11, Pair
<1>13. /\ u \in Seq(Bytes) /\ Len(u) = 6 /\ u[1] = a1 /\ u[2] = a2 /\ u[3] = b1 /\ u[4] = b2
       /\ u[5] = c1 /\ u[6] = c2
  BY <1>10, <1>12 DEF Ended
<1>14. PICK v : v = u \o <<d1, d2>> OBVIOUS
<1>15. Ended(v, u, d1, d2) BY <1>2, <1>13, <1>14, Pair
<1>16. /\ v \in Seq(Bytes) /\ Len(v) = 8 /\ v[1] = a1 /\ v[2] = a2 /\ v[3] = b1 /\ v[4] = b2
       /\ v[5] = c1 /\ v[6] = c2 /\ v[7] = d1 /\ v[8] = d2
  BY <1>13, <1>15 DEF Ended
<1>17. PICK z : z = <<e>> OBVIOUS
<1>18. z \in Seq(Bytes) /\ Len(z) = 1 /\ z[1] = e BY <1>2, <1>17
<1>19. PICK h : h = v \o z OBVIOUS
<1>20. Behind(v, z) BY <1>16, <1>18, Joined
<1>21. h \in Seq(Bytes) /\ Len(h) = 9 /\ h[9] = e /\ \A i \in 1 .. 8 : h[i] = v[i]
  <2>1. 8 + 1 = 9 /\ 1 \in 1 .. 1 OBVIOUS
  <2>2. QED BY <1>16, <1>18, <1>19, <1>20, <2>1 DEF Behind
<1>22. /\ h[1] = a1 /\ h[2] = a2 /\ h[3] = b1 /\ h[4] = b2
       /\ h[5] = c1 /\ h[6] = c2 /\ h[7] = d1 /\ h[8] = d2
  BY <1>16, <1>21
<1>23. \A i \in 1 .. 9 : /\ (h[i].tok = "end" <=> i = 9) /\ (h[i] = d2 <=> i = 8)
                         /\ h[i].tok \in HeadTokens
  <2>1. \A i \in 1 .. 9 : i = 1 \/ i = 2 \/ i = 3 \/ i = 4 \/ i = 5 \/ i = 6 \/ i = 7 \/ i = 8 \/ i = 9
    OBVIOUS
  <2>2. QED BY <1>3, <1>t, <1>4, <1>21, <1>22, <2>1
<1>24. HeadBytes = h BY <1>5, <1>6, <1>8, <1>11, <1>14, <1>17, <1>19
<1>25. QED BY <1>1, <1>21, <1>23, <1>24 DEF IsHead

\* Bytes among which there is no transfer-encoding: chunked.
NoCoding(s) == s \in Seq(Bytes) /\ \A i \in 1 .. Len(s) : s[i].tok # "coding"

\* There is none in what is left of them.
LEMMA NoCodingSuffix ==
  ASSUME NEW s, NoCoding(s), NEW k \in 0 .. Len(s)
  PROVE  NoCoding(Suffix(s, k))
<1>1. s \in Seq(Bytes) /\ \A i \in 1 .. Len(s) : s[i].tok # "coding" BY DEF NoCoding
<1>2. CutAt(s, k) BY <1>1, CutParts
<1>3. PICK w : w = Suffix(s, k) OBVIOUS
<1>4. w \in Seq(Bytes) /\ Len(w) = Len(s) - k /\ \A i \in 1 .. Len(s) - k : w[i] = s[k + i]
  BY <1>2, <1>3 DEF CutAt
<1>5. \A i \in 1 .. Len(s) - k : k + i \in 1 .. Len(s) BY <1>1
<1>6. \A i \in 1 .. Len(w) : w[i].tok # "coding" BY <1>1, <1>4, <1>5
<1>7. QED BY <1>3, <1>4, <1>6 DEF NoCoding

\* There is none in two parts put together.
LEMMA NoCodingJoins ==
  ASSUME NEW a, NEW b, NoCoding(a), NoCoding(b)
  PROVE  NoCoding(a \o b)
<1>1. a \in Seq(Bytes) /\ b \in Seq(Bytes) BY DEF NoCoding
<1>2. Behind(a, b) BY <1>1, Joined
<1>3. PICK q : q = a \o b OBVIOUS
<1>4. PICK m \in Nat : m = Len(a) BY <1>1
<1>5. PICK n \in Nat : n = Len(b) BY <1>1
<1>6. /\ q \in Seq(Bytes) /\ Len(q) = m + n
      /\ \A i \in 1 .. m : q[i].tok # "coding"
      /\ \A i \in 1 .. n : q[m + i].tok # "coding"
  BY <1>2, <1>3, <1>4, <1>5 DEF Behind, NoCoding
<1>7. ASSUME NEW i \in 1 .. m + n PROVE q[i].tok # "coding"
  <2>1. CASE i <= m
    <3>1. i \in 1 .. m BY <2>1
    <3>2. QED BY <1>6, <3>1
  <2>2. CASE ~(i <= m)
    <3>1. i - m \in 1 .. n /\ m + (i - m) = i BY <2>2
    <3>2. QED BY ONLY <1>6, <3>1
  <2>3. QED BY <2>1, <2>2
<1>8. NoCoding(q) BY <1>6, <1>7 DEF NoCoding
<1>9. QED BY <1>3, <1>8

\* There is none in other tokens.
LEMMA NoCodingToken ==
  ASSUME NEW t \in Tokens \ {"coding"}, NEW v \in Nat
  PROVE  NoCoding(Token(t, v))
<1>1. PICK a, b : a = Byte(t, "first", v) /\ b = Byte(t, "last", v) OBVIOUS
<1>2. a \in Bytes /\ b \in Bytes /\ a.tok # "coding" /\ b.tok # "coding"
  BY <1>1 DEF Byte, Bytes, Parts
<1>3. PICK s : s = <<a, b>> OBVIOUS
<1>4. s \in Seq(Bytes) /\ Len(s) = 2 /\ s[1] = a /\ s[2] = b BY <1>2, <1>3
<1>5. \A i \in 1 .. 2 : i = 1 \/ i = 2 OBVIOUS
<1>6. NoCoding(s) BY <1>2, <1>4, <1>5 DEF NoCoding
<1>7. QED BY <1>1, <1>3, <1>6 DEF Token

\* There is none in a response that is not chunked.
LEMMA PlainShape ==
  ASSUME NEW n \in Nat
  PROVE  NoCoding(PlainResponse(n))
<1>1. NoCoding(Token("version", 0)) /\ NoCoding(Token("status", 0))
  <2>1. "version" \in Tokens \ {"coding"} /\ "status" \in Tokens \ {"coding"} BY DEF Tokens
  <2>2. QED BY <2>1, NoCodingToken
<1>2. NoCoding(Length(n))
  <2>1. CASE n = 0
    <3>1. NoCoding(<<>>)
      <4>1. <<>> \in Seq(Bytes) /\ 1 .. Len(<<>>) = {} OBVIOUS
      <4>2. QED BY <4>1 DEF NoCoding
    <3>2. QED BY <2>1, <3>1 DEF Length
  <2>2. CASE n # 0
    <3>1. "name" \in Tokens \ {"coding"} /\ "value" \in Tokens \ {"coding"} BY DEF Tokens
    <3>2. NoCoding(Token("name", 0)) /\ NoCoding(Token("value", n)) BY <3>1, NoCodingToken
    <3>3. QED BY <2>2, <3>2, NoCodingJoins DEF Length
  <2>3. QED BY <2>1, <2>2
<1>3. NoCoding(End)
  <2>1. PICK e : e = Byte("end", "only", 0) OBVIOUS
  <2>2. e \in Bytes /\ e.tok # "coding" BY <2>1 DEF Byte, Bytes, Tokens, Parts
  <2>3. PICK s : s = <<e>> OBVIOUS
  <2>4. s \in Seq(Bytes) /\ Len(s) = 1 /\ s[1] = e BY <2>2, <2>3
  <2>5. \A i \in 1 .. 1 : i = 1 OBVIOUS
  <2>6. NoCoding(s) BY <2>2, <2>4, <2>5 DEF NoCoding
  <2>7. QED BY <2>1, <2>3, <2>6 DEF End
<1>4. NoCoding(Content(0, n))
  <2>1. PICK s : s = Content(0, n) OBVIOUS
  <2>2. s \in Seq(Bytes) /\ Len(s) = n
    <3>1. 0 \in Nat OBVIOUS
    <3>2. QED BY <2>1, <3>1, ContentType
  <2>3. \A i \in 1 .. n : s[i].tok # "coding" BY <2>1 DEF Content, Byte
  <2>4. NoCoding(s) BY <2>2, <2>3 DEF NoCoding
  <2>5. QED BY <2>1, <2>4
<1>5. PICK a, b, c, d, e : /\ a = Token("version", 0) /\ b = Token("status", 0) /\ c = Length(n)
                           /\ d = End /\ e = Content(0, n)
  OBVIOUS
<1>6. PlainResponse(n) = (((a \o b) \o c) \o d) \o e BY <1>5 DEF PlainResponse
<1>7. NoCoding(a \o b) BY <1>1, <1>5, NoCodingJoins
<1>8. NoCoding((a \o b) \o c) BY <1>2, <1>5, <1>7, NoCodingJoins
<1>9. NoCoding(((a \o b) \o c) \o d) BY <1>3, <1>5, <1>8, NoCodingJoins
<1>10. NoCoding((((a \o b) \o c) \o d) \o e) BY <1>4, <1>5, <1>9, NoCodingJoins
<1>11. QED BY <1>6, <1>10

\* excute consumes at least a byte, the first one, and leaves what it did not
\* consume: nothing, if it did not find the end.
Consumes(s, stop) ==
  /\ Consumed(s, stop) \in 1 .. Len(s)
  /\ Piece(s, stop) = Prefix(s, Consumed(s, stop))
  /\ Rest(s, stop) = Suffix(s, Consumed(s, stop))
  /\ ~Finished(s, stop) => Consumed(s, stop) = Len(s)
  /\ Finished(s, stop) => /\ s[Consumed(s, stop)].tok = stop
                          /\ \A i \in 1 .. Len(s) : s[i].tok = stop => Consumed(s, stop) <= i

\* That is so for every piece that is not empty.
LEMMA ExcuteConsumes ==
  ASSUME NEW s \in Seq(Bytes), s # <<>>, NEW stop
  PROVE  Consumes(s, stop)
<1>1. PICK m \in Nat \ {0} : m = Len(s) /\ DOMAIN s = 1 .. m OBVIOUS
<1>2. PICK q : q = Consumed(s, stop) OBVIOUS
<1>3. CASE Finished(s, stop)
  <2>1. Places(s, stop) \in SUBSET Nat /\ Places(s, stop) # {}
    BY <1>1, <1>3 DEF Finished, Places
  <2>2. \E i \in Places(s, stop) : \A j \in Places(s, stop) : i <= j BY <2>1, Least
  <2>3. q = CHOOSE i \in Places(s, stop) : \A j \in Places(s, stop) : i <= j
    BY <1>2, <1>3 DEF Consumed
  <2>4. q \in Places(s, stop) /\ \A j \in Places(s, stop) : q <= j BY ONLY <2>2, <2>3
  <2>5. q \in 1 .. m /\ s[q].tok = stop /\ \A i \in 1 .. m : s[i].tok = stop => q <= i
    BY <1>1, <2>4 DEF Places
  <2>6. QED BY <1>1, <1>2, <1>3, <2>5 DEF Consumes, Piece, Rest, Prefix, Suffix
<1>4. CASE ~Finished(s, stop)
  <2>1. q = m BY <1>1, <1>2, <1>4 DEF Consumed
  <2>2. QED BY <1>1, <1>2, <1>4, <2>1 DEF Consumes, Piece, Rest, Prefix, Suffix
<1>5. QED BY <1>3, <1>4

-----------------------------------------------------------------------------
\* No response has been sent.
Waiting ==
  wire = <<>> /\ data = <<>> /\ ~chunked /\ pc \in {"head", "closed"}

\* A response that is not chunked.
Plain ==
  /\ ~chunked /\ NoCoding(wire) /\ pc \in {"head", "done", "closed", "astray"}
  /\ pc = "head" => data = <<>>

\* e bytes of the head of a chunked response were consumed.
InHead(c) ==
  /\ data = <<>>
  /\ \E e \in 0 .. 8 : /\ wire = Suffix(HeadBytes, e) \o Rem(c, 1)
                       /\ chunked <=> e >= 8

\* The next chunk is chunk i, and those before it are in the body.
AtChunk(c) ==
  \E i \in 1 .. Len(c) : data \o wire = Rem(c, i) /\ body = Content(0, Before(c, i))

\* A chunk's header was cut: the next call of excute begins inside it.
Cut ==
  /\ data = <<>> /\ wire # <<>>
  /\ wire[1].tok = "digit" => wire[1].part = "last"
  /\ wire[1].tok # "content"

\* left bytes of chunk i and its line end are missing in the body.
InContent(c) ==
  /\ data = <<>> /\ body \in Seq(Bytes) /\ left \in Nat \ {0}
  /\ \E i \in 1 .. Len(c) :
       /\ body \o wire = (Content(0, Before(c, i + 1)) \o LineEnd) \o Rem(c, i + 1)
       /\ Len(body) + left = Before(c, i + 1) + 2
       /\ last <=> i = Len(c)

\* The response has been received.
AllRead(c) == data = <<>> /\ wire = <<>> /\ body = Content(0, Total(c))

\* What a connection has read, left and stored at each place of recvResponse.
Received(c) ==
  /\ wire \in Seq(Bytes) /\ data \in Seq(Bytes)
  /\ pc = "head" => InHead(c)
  /\ pc = "chunk" => AtChunk(c) \/ Cut
  /\ pc = "content" => InContent(c)
  /\ pc = "done" => AllRead(c)
  /\ pc # "astray"

\* A chunked response, whose sizes have come whole so far.
Chunky == "digit" \notin torn => sizes \in Chunkings /\ Received(sizes)

\* The invariant.  The torn size is the exception that ChunksDecoded makes.
ConnectionInv ==
  kind = "connection" =>
    /\ pc \in {"head", "chunk", "content", "done", "closed", "astray"}
    /\ asked = 0 => Waiting
    /\ asked # 0 => Plain \/ Chunky

\* The chunkings of the model are such sequences.
LEMMA ChunkingsType == \A c \in Chunkings : c \in Sizes
BY HttpAssumption DEF Sizes

\* Nothing is made of nothing only.
LEMMA BothEmpty ==
  ASSUME NEW a \in Seq(Bytes), NEW b \in Seq(Bytes), a \o b = <<>>
  PROVE  a = <<>> /\ b = <<>>
<1>1. Behind(a, b) BY Joined
<1>2. Len(a) \in Nat /\ Len(b) \in Nat /\ Len(a) + Len(b) = 0 BY <1>1 DEF Behind
<1>3. Len(a) = 0 /\ Len(b) = 0 BY <1>2
<1>4. QED BY <1>3

\* A chunk has been appended to the body.
LEMMA ChunkEnds ==
  ASSUME NEW c \in Sizes, NEW i \in 1 .. Len(c),
         data' \in Seq(Bytes), wire' \in Seq(Bytes), data' \o wire' = Rem(c, i + 1),
         body' = Content(0, Before(c, i + 1)),
         pc' = IF i = Len(c) THEN "done" ELSE "chunk"
  PROVE  Received(c)'
<1>1. Len(c) \in Nat \ {0} /\ c \in Seq(Nat) BY SizesType
<1>2. CASE i = Len(c)
  <2>1. Rem(c, i + 1) = <<>> BY <1>2, ChunksRemain
  <2>2. PICK d, w : d = data' /\ w = wire' OBVIOUS
  <2>3. d = <<>> /\ w = <<>> BY <2>1, <2>2, BothEmpty
  <2>4. Before(c, i + 1) = Total(c) BY <1>1, <1>2, BeforeStep
  <2>5. AllRead(c)' BY <2>2, <2>3, <2>4 DEF AllRead
  <2>6. QED BY <1>2, <2>5 DEF Received
<1>3. CASE i # Len(c)
  <2>1. PICK j \in 1 .. Len(c) : j = i + 1
    <3>1. i + 1 \in 1 .. Len(c) BY <1>1, <1>3
    <3>2. QED BY <3>1
  <2>2. AtChunk(c)' BY <2>1 DEF AtChunk
  <2>3. QED BY <1>3, <2>2 DEF Received
<1>4. QED BY <1>2, <1>3

\* Content(0, m) with its chunk and the line end behind it.
LEMMA Grows ==
  ASSUME NEW m \in Nat, NEW n \in Nat, NEW r \in Seq(Bytes)
  PROVE  Content(0, m) \o ((Content(m, n) \o LineEnd) \o r) = (Content(0, m + n) \o LineEnd) \o r
<1>1. PICK a : a = Content(0, m) OBVIOUS
<1>2. PICK b : b = Content(m, n) OBVIOUS
<1>3. PICK e : e = LineEnd OBVIOUS
<1>4. a \in Seq(Bytes) /\ b \in Seq(Bytes) /\ e \in Seq(Bytes)
  <2>1. 0 \in Nat OBVIOUS
  <2>2. QED BY <1>1, <1>2, <1>3, <2>1, ContentType, LineEndType
<1>5. PICK q : q = a \o b OBVIOUS
<1>6. q = Content(0, m + n) /\ q \in Seq(Bytes)
  <2>1. q = Content(0, m + n) BY <1>1, <1>2, <1>5, ContentJoins
  <2>2. q \in Seq(Bytes) BY <1>4, <1>5, Joined DEF Behind
  <2>3. QED BY <2>1, <2>2
<1>7. PICK d : d = b \o e OBVIOUS
<1>8. d \in Seq(Bytes) BY <1>4, <1>7, Joined DEF Behind
<1>9. a \o (d \o r) = (a \o d) \o r
  <2>1. Regroups(a, d, r) BY <1>4, <1>8, Associative
  <2>2. QED BY ONLY <2>1 DEF Regroups
<1>10. a \o (b \o e) = (a \o b) \o e
  <2>1. Regroups(a, b, e) BY <1>4, Associative
  <2>2. QED BY ONLY <2>1 DEF Regroups
<1>11. QED BY <1>1, <1>2, <1>3, <1>5, <1>6, <1>7, <1>9, <1>10

\* The content of a chunk: r of it is in the buffer, perhaps with more.
LEMMA ChunkTaken ==
  ASSUME NEW c \in Sizes, NEW i \in 1 .. Len(c), NEW r \in Seq(Bytes), NEW w \in Seq(Bytes),
         r \o w = (Content(Before(c, i), c[i]) \o LineEnd) \o Rem(c, i + 1),
         wire' = w, body = Content(0, Before(c, i)), TakeChunk(c[i], r)
  PROVE  Received(c)'
<1>1. /\ Len(c) \in Nat \ {0} /\ c \in Seq(Nat) /\ c[i] \in Nat /\ (c[i] = 0 <=> i = Len(c))
  BY SizesType
<1>2. PICK n \in Nat : n = c[i] BY <1>1
<1>3. PICK m \in Nat : m = Before(c, i)
  <2>1. i \in 1 .. Len(c) + 1 BY <1>1
  <2>2. Before(c, i) \in Nat BY <1>1, <2>1, BeforeStep
  <2>3. QED BY <2>2
<1>4. Before(c, i + 1) = m + n BY <1>1, <1>2, <1>3, BeforeStep
<1>5. PICK x \in Seq(Bytes) : x = Rem(c, i + 1) BY ChunksRemain DEF Remains
<1>6. PICK b \in Seq(Bytes) : b = Content(m, n) /\ Len(b) = n BY ContentType
<1>7. PICK a \in Seq(Bytes) : a = Content(0, m) /\ Len(a) = m
  <2>1. 0 \in Nat OBVIOUS
  <2>2. QED BY <2>1, ContentType
<1>8. PICK e \in Seq(Bytes) : e = LineEnd /\ Len(e) = 2 BY LineEndType
<1>9. r \o w = (b \o e) \o x /\ body = a BY <1>2, <1>3, <1>5, <1>6, <1>7, <1>8
<1>10. PICK l \in Nat : l = Len(r) OBVIOUS
<1>11. CASE Complete(n, r)
  <2>1. /\ body' = body \o Prefix(r, n) /\ data' = Suffix(r, n + 2)
        /\ pc' = IF n = 0 THEN "done" ELSE "chunk"
    BY <1>2, <1>11 DEF TakeChunk, AfterChunk
  <2>2. n + 2 <= l /\ n <= l BY <1>10, <1>11 DEF Complete
  <2>3. PICK d \in Seq(Bytes) : d = b \o e /\ Len(d) = n + 2
    <3>1. Behind(b, e) BY Joined
    <3>2. b \o e \in Seq(Bytes) /\ Len(b \o e) = n + 2 BY <1>6, <1>8, <3>1 DEF Behind
    <3>3. QED BY <3>2
  <2>4. Divided(d, x, r, w) BY <1>9, <1>10, <2>2, <2>3, Longer
  <2>5. PICK y \in Seq(Bytes) : y = e \o x BY Joined DEF Behind
  <2>6. r \o w = b \o y
    <3>1. (b \o e) \o x = b \o (e \o x)
      <4>1. Regroups(b, e, x) BY Associative
      <4>2. QED BY ONLY <4>1 DEF Regroups
    <3>2. QED BY <1>9, <2>5, <3>1
  <2>7. Divided(b, y, r, w) BY <1>6, <1>10, <2>2, <2>6, Longer
  <2>8. Prefix(r, n) = b BY <1>6, <2>7 DEF Divided
  <2>9. Suffix(r, n + 2) \o w = x BY <2>3, <2>4 DEF Divided
  <2>10. body' = Content(0, m + n)
    <3>1. body' = a \o b BY <1>9, <2>1, <2>8
    <3>2. Content(0, m) \o Content(m, n) = Content(0, m + n) BY ContentJoins
    <3>3. QED BY ONLY <1>6, <1>7, <3>1, <3>2
  <2>11. Suffix(r, n + 2) \in Seq(Bytes)
    <3>1. n + 2 \in 0 .. Len(r) BY <1>10, <2>2
    <3>2. QED BY <3>1, CutParts DEF CutAt
  <2>12. pc' = IF i = Len(c) THEN "done" ELSE "chunk" BY <1>1, <1>2, <2>1
  <2>13. data' \in Seq(Bytes) /\ wire' \in Seq(Bytes) /\ data' \o wire' = Rem(c, i + 1)
    BY <1>5, <2>1, <2>9, <2>11
  <2>14. body' = Content(0, Before(c, i + 1)) BY <1>4, <2>10
  <2>15. QED BY <2>12, <2>13, <2>14, ChunkEnds
<1>12. CASE ~Complete(n, r)
  <2>1. /\ body' = body \o r /\ data' = <<>> /\ left' = n - Len(r) + 2
        /\ last' = (n = 0) /\ pc' = "content"
    BY <1>2, <1>12 DEF TakeChunk
  <2>2. l < n + 2 /\ left' = n - l + 2 BY <1>10, <1>12, <2>1 DEF Complete
  <2>3. left' \in Nat \ {0} BY <2>2
  <2>4. body' \in Seq(Bytes) /\ Len(body') = m + l
    BY <1>7, <1>9, <1>10, <2>1, Joined DEF Behind
  <2>5. body' \o wire' = (Content(0, m + n) \o LineEnd) \o Rem(c, i + 1)
    <3>1. (a \o r) \o w = a \o (r \o w)
      <4>1. Regroups(a, r, w) BY Associative
      <4>2. QED BY ONLY <4>1 DEF Regroups
    <3>2. a \o ((b \o e) \o x) = (Content(0, m + n) \o LineEnd) \o x
      BY <1>6, <1>7, <1>8, Grows
    <3>3. QED BY <1>5, <1>9, <2>1, <3>1, <3>2
  <2>6. Len(body') + left' = m + n + 2 BY <2>2, <2>4
  <2>7. last' <=> i = Len(c) BY <1>1, <1>2, <2>1
  <2>8. InContent(c)' BY <1>4, <2>1, <2>3, <2>4, <2>5, <2>6, <2>7 DEF InContent
  <2>9. data' \in Seq(Bytes) BY <2>1
  <2>10. QED BY <2>1, <2>8, <2>9 DEF Received
<1>13. QED BY <1>11, <1>12

\* The first byte excute is given is the first of the piece it consumes.
LEMMA PieceBegins ==
  ASSUME NEW s \in Seq(Bytes), s # <<>>, NEW stop
  PROVE  Piece(s, stop)[1] = s[1]
<1>1. PICK q : q = Consumed(s, stop) OBVIOUS
<1>2. q \in 1 .. Len(s) /\ Piece(s, stop) = Prefix(s, q)
  BY <1>1, ExcuteConsumes DEF Consumes
<1>3. q \in 0 .. Len(s) /\ 1 \in 1 .. q BY <1>2
<1>4. CutAt(s, q) BY <1>3, CutParts
<1>5. QED BY <1>2, <1>3, <1>4 DEF CutAt

\* The header of chunk i, whole or cut, and what of the chunk came with it.
LEMMA HeaderParsed ==
  ASSUME NEW c \in Sizes, NEW i \in 1 .. Len(c),
         NEW s \in Seq(Bytes), s # <<>>, NEW w \in Seq(Bytes), s \o w = Rem(c, i),
         wire' = w, body = Content(0, Before(c, i)), pc = "chunk", ParseChunk(s)
  PROVE  Received(c)'
<1>1. Remains(c, i) BY ChunksRemain
<1>2. PICK h \in Seq(Bytes) : h = Header(c[i]) /\ IsHeader(h, c[i])
  <2>1. c[i] \in 0 .. Radix * Radix - 1 BY SizesType
  <2>2. IsHeader(Header(c[i]), c[i]) BY <2>1, HeaderShape
  <2>3. QED BY <2>2 DEF IsHeader
<1>3. PICK x \in Seq(Bytes) : x = (Content(Before(c, i), c[i]) \o LineEnd) \o Rem(c, i + 1)
  <2>1. c \in Seq(Nat) /\ c[i] \in Nat /\ i \in 1 .. Len(c) + 1 BY SizesType
  <2>2. Before(c, i) \in Nat BY <2>1, BeforeStep
  <2>3. PICK b \in Seq(Bytes) : b = Content(Before(c, i), c[i]) BY <2>1, <2>2, ContentType
  <2>4. PICK r \in Seq(Bytes) : r = Rem(c, i + 1) BY <1>1 DEF Remains
  <2>5. PICK e \in Seq(Bytes) : e = LineEnd BY LineEndType
  <2>6. PICK d : d = b \o e OBVIOUS
  <2>7. d \in Seq(Bytes) BY <2>6, Joined DEF Behind
  <2>8. d \o r \in Seq(Bytes) BY <2>7, Joined DEF Behind
  <2>9. QED BY <2>3, <2>4, <2>5, <2>6, <2>8
<1>4. s \o w = h \o x BY <1>1, <1>2, <1>3 DEF Remains
<1>5. /\ Len(h) = 3 /\ h[1].tok = "digit" /\ h[1].part = "first"
      /\ h[2].tok = "digit" /\ h[2].part = "last" /\ h[3].tok = "eol" /\ ChunkSize(h) = c[i]
  BY <1>2 DEF IsHeader
<1>6. PICK p, rest : p = Piece(s, "eol") /\ rest = Rest(s, "eol") OBVIOUS
<1>7. CASE Misplaced(p) \/ Len(rest) = Buffer
  <2>1. pc' = "closed" /\ data' = <<>> BY <1>6, <1>7 DEF ParseChunk, Close
  <2>2. data' \in Seq(Bytes) BY <2>1
  <2>3. QED BY <2>1, <2>2 DEF Received
<1>a. ~Mistakable(p)
  <2>1. p[1] = s[1] BY <1>6, PieceBegins
  <2>2. s[1] = h[1]
    <3>1. 1 \in 1 .. Len(s) /\ 1 \in 1 .. Len(h) BY <1>5
    <3>2. Behind(s, w) /\ Behind(h, x) BY Joined
    <3>3. QED BY <1>4, <3>1, <3>2 DEF Behind
  <2>3. QED BY <1>5, <2>1, <2>2 DEF Mistakable
<1>8. CASE ~(Misplaced(p) \/ Len(rest) = Buffer)
  <2>1. /\ Finished(s, "eol") => TakeChunk(ChunkSize(p), rest)
        /\ ~Finished(s, "eol") => data' = rest /\ pc' = "chunk"
    BY <1>6, <1>a, <1>8 DEF ParseChunk
  <2>2. PICK l \in Nat : l = Len(s) /\ DOMAIN s = 1 .. l /\ l # 0 OBVIOUS
  <2>3. PICK q : q = Consumed(s, "eol") OBVIOUS
  <2>4. /\ q \in 1 .. l /\ p = Prefix(s, q) /\ rest = Suffix(s, q)
        /\ ~Finished(s, "eol") => q = l
        /\ Finished(s, "eol") => /\ s[q].tok = "eol"
                                 /\ \A j \in 1 .. l : s[j].tok = "eol" => q <= j
    BY <1>6, <2>2, <2>3, ExcuteConsumes DEF Consumes
  <2>5. CASE l >= 3
    <3>1. Divided(h, x, s, w) BY <1>4, <1>5, <2>2, <2>5, Longer
    <3>2. Prefix(s, 3) = h /\ Suffix(s, 3) \o w = x BY <1>5, <3>1 DEF Divided
    <3>3. 3 \in 0 .. Len(s) /\ 3 \in 1 .. l BY <2>2, <2>5
    <3>4. CutAt(s, 3) BY <3>3, CutParts
    <3>5. s[1] = h[1] /\ s[2] = h[2] /\ s[3] = h[3]
      <4>1. 1 \in 1 .. 3 /\ 2 \in 1 .. 3 /\ 3 \in 1 .. 3 OBVIOUS
      <4>2. QED BY <3>2, <3>4, <4>1 DEF CutAt
    <3>6. Finished(s, "eol") BY <1>5, <2>2, <3>3, <3>5 DEF Finished, Places
    <3>7. q = 3
      <4>1. q <= 3 /\ q # 1 /\ q # 2 BY <1>5, <2>4, <3>3, <3>5, <3>6
      <4>2. QED BY <2>4, <4>1
    <3>8. TakeChunk(c[i], rest) BY <1>5, <2>1, <2>4, <3>2, <3>6, <3>7
    <3>9. rest \in Seq(Bytes) BY <2>4, <3>4, <3>7 DEF CutAt
    <3>10. rest \o w = (Content(Before(c, i), c[i]) \o LineEnd) \o Rem(c, i + 1)
      BY <1>3, <2>4, <3>2, <3>7
    <3>11. QED BY <3>8, <3>9, <3>10, ChunkTaken
  <2>6. CASE l < 3
    <3>1. Len(s) <= Len(h) /\ l \in 0 .. Len(h)
      <4>1. Len(h) = 3 BY <1>5
      <4>2. l <= 3 /\ l \in 0 .. 3 BY ONLY <2>6, l \in Nat
      <4>3. QED BY <2>2, <4>1, <4>2
    <3>2. h \o x = s \o w BY <1>4
    <3>3. Divided(s, w, h, x) BY <3>1, <3>2, Longer
    <3>4. Prefix(h, l) = s /\ Suffix(h, l) \o x = w BY <2>2, <3>3 DEF Divided
    <3>5. CutAt(h, l) BY <3>1, CutParts
    <3>6. \A j \in 1 .. l : s[j] = h[j] BY <3>4, <3>5 DEF CutAt
    <3>7. l = 1 \/ l = 2 BY <2>2, <2>6
    <3>8. \A j \in 1 .. l : s[j].tok # "eol"
      <4>1. \A j \in 1 .. l : j = 1 \/ j = 2 BY <3>7
      <4>2. QED BY <1>5, <3>6, <4>1
    <3>9. ~Finished(s, "eol") BY <2>2, <3>8 DEF Finished, Places
    <3>10. data' = <<>> /\ pc' = "chunk"
      <4>1. l \in 0 .. Len(s) /\ l - l = 0 BY <2>2
      <4>2. CutAt(s, l) BY <4>1, CutParts
      <4>3. rest \in Seq(Bytes) /\ Len(rest) = 0 BY <2>2, <2>4, <3>9, <4>1, <4>2 DEF CutAt
      <4>4. rest = <<>> BY <4>3
      <4>5. QED BY <2>1, <3>9, <4>4
    <3>11. w # <<>> /\ w[1] = h[l + 1]
      <4>1. PICK y \in Seq(Bytes) : y = Suffix(h, l) /\ Len(y) = 3 - l /\ y[1] = h[l + 1]
        <5>1. 1 \in 1 .. Len(h) - l BY <1>5, <3>7
        <5>2. QED BY <1>5, <3>5, <5>1 DEF CutAt
      <4>2. Behind(y, x) BY Joined
      <4>3. 1 \in 1 .. Len(y) BY <3>7, <4>1
      <4>4. w[1] = y[1] BY <3>4, <4>1, <4>2, <4>3 DEF Behind
      <4>5. Len(w) = Len(y) + Len(x) BY <3>4, <4>1, <4>2 DEF Behind
      <4>6. Len(w) # 0 BY <4>3, <4>5
      <4>7. w # <<>> BY <4>6
      <4>8. QED BY <4>1, <4>4, <4>7
    <3>12. (w[1].tok = "digit" => w[1].part = "last") /\ w[1].tok # "content"
      <4>1. l + 1 = 2 \/ l + 1 = 3 BY <3>7
      <4>2. QED BY <1>5, <3>11, <4>1
    <3>13. Cut' BY <3>10, <3>11, <3>12 DEF Cut
    <3>14. data' \in Seq(Bytes) BY <3>10
    <3>15. QED BY <3>10, <3>13, <3>14 DEF Received
  <2>7. QED BY <2>2, <2>5, <2>6
<1>9. QED BY <1>7, <1>8

\* A header whose beginning came in an earlier call: an error, or a torn size.
LEMMA CutParsed ==
  ASSUME NEW s \in Seq(Bytes), s # <<>>, s[1].tok = "digit" => s[1].part = "last",
         s[1].tok # "content", ParseChunk(s)
  PROVE  (pc' = "closed" /\ data' = <<>>) \/ "digit" \in torn'
<1>1. PICK p, rest : p = Piece(s, "eol") /\ rest = Rest(s, "eol") OBVIOUS
<1>2. p[1] = s[1] BY <1>1, PieceBegins
<1>3. CASE Misplaced(p) \/ Len(rest) = Buffer
  BY <1>1, <1>3 DEF ParseChunk, Close
<1>4. CASE ~(Misplaced(p) \/ Len(rest) = Buffer)
  <2>1. torn' = torn \cup Torn(p) BY <1>1, <1>2, <1>4 DEF ParseChunk, Mistakable
  <2>2. s[1].tok = "digit" BY <1>2, <1>4 DEF Misplaced
  <2>3. Torn(p) = {"digit"} BY <1>2, <2>2 DEF Torn
  <2>4. QED BY <2>1, <2>3
<1>5. QED BY <1>3, <1>4

\* The smaller of two numbers is one.
LEMMA MinType ==
  ASSUME NEW a \in Nat, NEW b \in Nat
  PROVE  Min({a, b}) \in Nat
<1>1. \E x \in {a, b} : \A y \in {a, b} : x <= y
  <2>1. CASE a <= b BY <2>1
  <2>2. CASE b <= a BY <2>2
  <2>3. QED BY <2>1, <2>2
<1>2. Min({a, b}) \in {a, b} BY <1>1 DEF Min
<1>3. QED BY <1>2

\* A response was not sent before, and is sent when nothing is under way.
LEMMA PeerAnswers ==
  ASSUME ConnectionInv, Peer
  PROVE  ConnectionInv'
<1>1. UNCHANGED <<kind, pc, data, chunked, torn, body, left, last>>
  BY DEF Peer, ClientAsks, ServerAnswers, PeerLeaves, Send, parserVars
<1>2. CASE kind # "connection" BY <1>1, <1>2 DEF ConnectionInv
<1>3. CASE kind = "connection" /\ PeerLeaves
  <2>1. UNCHANGED <<asked, wire, sizes>> BY <1>3 DEF PeerLeaves
  <2>2. QED BY <1>1, <2>1
    DEF ConnectionInv, Waiting, Plain, Chunky, Received, InHead, AtChunk, Cut, InContent, AllRead
<1>4. CASE kind = "connection" /\ ServerAnswers
  <2>1. asked = 0 /\ asked' = asked + 1 /\ pc # "closed"
    BY <1>4 DEF ServerAnswers, Send
  <2>2. Waiting /\ pc = "head" BY <1>4, <2>1 DEF ConnectionInv, Waiting
  <2>3. asked' # 0 BY <2>1
  <2>4. CASE \E n \in Lengths : Send(PlainResponse(n), <<n>>)
    <3>1. PICK n \in Nat : wire' = wire \o PlainResponse(n)
      BY <2>4, HttpAssumption DEF Send
    <3>2. PICK r : r = PlainResponse(n) OBVIOUS
    <3>3. NoCoding(r) BY <3>2, PlainShape
    <3>4. <<>> \o r = r BY <3>3, ConcatEmptySeq DEF NoCoding
    <3>5. wire' = r BY <2>2, <3>1, <3>2, <3>4 DEF Waiting
    <3>6. Plain' BY <1>1, <2>2, <3>3, <3>5 DEF Plain, Waiting
    <3>7. QED BY <1>1, <1>4, <2>2, <2>3, <3>6 DEF ConnectionInv
  <2>5. CASE \E c \in Chunkings : Send(ChunkedResponse(c), c)
    <3>1. PICK c \in Chunkings : wire' = wire \o ChunkedResponse(c) /\ sizes' = c
      BY <2>5 DEF Send
    <3>2. c \in Sizes BY ChunkingsType
    <3>3. ChunkedResponse(c) = HeadBytes \o Rem(c, 1)
      <4>1. ChunkedResponse(c) = HeadBytes \o FlattenSeq(Chunks(c))
        BY DEF ChunkedResponse, HeadBytes, Chunks, Before
      <4>2. QED BY <3>2, <4>1, ChunksRemain
    <3>4. PICK h \in Seq(Bytes) : h = HeadBytes /\ Len(h) = 9 BY HeadShape DEF IsHead
    <3>5. PICK x \in Seq(Bytes) : x = Rem(c, 1)
      <4>1. 1 \in 1 .. Len(c) BY <3>2, SizesType
      <4>2. QED BY <3>2, <4>1, ChunksRemain DEF Remains
    <3>6. PICK q \in Seq(Bytes) : q = h \o x
      <4>1. h \o x \in Seq(Bytes) BY Joined DEF Behind
      <4>2. QED BY <4>1
    <3>7. <<>> \o q = q BY ConcatEmptySeq
    <3>8. wire' = q BY <2>2, <3>1, <3>3, <3>4, <3>5, <3>6, <3>7 DEF Waiting
    <3>9. Suffix(h, 0) = h
      <4>1. PICK z \in Seq(Bytes) : z = <<>> /\ Len(z) = 0
        <5>1. <<>> \in Seq(Bytes) /\ Len(<<>>) = 0 OBVIOUS
        <5>2. QED BY <5>1
      <4>2. TwoParts(z, h) BY Apart
      <4>3. z \o h = h BY <4>1, ConcatEmptySeq
      <4>4. QED BY <4>1, <4>2, <4>3 DEF TwoParts
    <3>10. PICK e \in 0 .. 8 : e = 0 OBVIOUS
    <3>11. wire' = Suffix(HeadBytes, e) \o Rem(c, 1) BY <3>4, <3>5, <3>6, <3>8, <3>9, <3>10
    <3>12. ~chunked' /\ ~(e >= 8) /\ data' = <<>> BY <1>1, <2>2, <3>10 DEF Waiting
    <3>13. InHead(c)' BY <3>11, <3>12 DEF InHead
    <3>14. wire' \in Seq(Bytes) /\ data' \in Seq(Bytes) BY <3>8, <3>12
    <3>15. Received(c)' BY <1>1, <2>2, <3>13, <3>14 DEF Received
    <3>16. Received(sizes)' BY <3>1, <3>15 DEF Received, InHead, AtChunk, InContent, AllRead
    <3>17. Chunky' BY <3>1, <3>16 DEF Chunky
    <3>18. QED BY <1>1, <1>4, <2>2, <2>3, <3>17 DEF ConnectionInv
  <2>6. QED BY <1>4, <2>4, <2>5 DEF ServerAnswers
<1>5. CASE ClientAsks BY <1>1, <1>2, <1>5 DEF ClientAsks
<1>6. QED BY <1>2, <1>3, <1>4, <1>5 DEF Peer

\* The connection is closed: by an error or because a read failed.
LEMMA CloseKeeps ==
  ASSUME ConnectionInv, Close, NEW k \in Nat, UNCHANGED <<kind, asked, sizes>>,
         wire' = wire \/ (k \in 0 .. Len(wire) /\ wire' = Suffix(wire, k))
  PROVE  ConnectionInv'
<1>1. pc' = "closed" /\ data' = <<>> /\ UNCHANGED <<chunked, torn>>
  BY DEF Close, parserVars
<1>2. SUFFICES ASSUME kind = "connection" PROVE ConnectionInv' BY DEF ConnectionInv
<1>3. ASSUME wire \in Seq(Bytes)
      PROVE  wire' \in Seq(Bytes) /\ (wire = <<>> => wire' = <<>>)
             /\ (NoCoding(wire) => NoCoding(wire'))
  <2>1. CASE wire' = wire BY <1>3, <2>1
  <2>2. CASE k \in 0 .. Len(wire) /\ wire' = Suffix(wire, k)
    <3>1. PICK s \in Seq(Bytes) : s = wire BY <1>3
    <3>2. PICK w : w = wire' OBVIOUS
    <3>3. w = Suffix(s, k) /\ k \in 0 .. Len(s) BY <2>2, <3>1, <3>2
    <3>4. CutAt(s, k) BY <3>3, CutParts
    <3>5. /\ w \in Seq(Bytes) /\ Len(w) = Len(s) - k
          /\ \A i \in 1 .. Len(s) - k : w[i] = s[k + i]
      BY <3>3, <3>4 DEF CutAt
    <3>6. s = <<>> => w = <<>>
      <4> SUFFICES ASSUME s = <<>> PROVE w = <<>> OBVIOUS
      <4>1. Len(w) = 0 BY <3>3, <3>5
      <4>2. QED BY <3>5, <4>1
    <3>7. NoCoding(s) => NoCoding(w)
      <4> SUFFICES ASSUME NoCoding(s) PROVE NoCoding(w) OBVIOUS
      <4>1. \A i \in 1 .. Len(s) - k : k + i \in 1 .. Len(s) BY <3>3
      <4>2. \A i \in 1 .. Len(w) : w[i].tok # "coding" BY <3>5, <4>1 DEF NoCoding
      <4>3. QED BY <3>5, <4>2 DEF NoCoding
    <3>8. QED BY <3>1, <3>2, <3>5, <3>6, <3>7
  <2>3. QED BY <2>1, <2>2
<1>4. CASE asked = 0
  <2>1. wire = <<>> /\ ~chunked BY <1>2, <1>4 DEF ConnectionInv, Waiting
  <2>2. wire \in Seq(Bytes) BY <2>1
  <2>3. Waiting' BY <1>1, <1>3, <2>1, <2>2 DEF Waiting
  <2>4. QED BY <1>1, <1>4, <2>3 DEF ConnectionInv
<1>5. CASE asked # 0 /\ Plain
  <2>1. NoCoding(wire) /\ ~chunked /\ wire \in Seq(Bytes) BY <1>5 DEF Plain, NoCoding
  <2>2. NoCoding(wire)' BY <1>3, <2>1 DEF NoCoding
  <2>3. Plain' BY <1>1, <2>1, <2>2 DEF Plain
  <2>4. QED BY <1>1, <1>5, <2>3 DEF ConnectionInv
<1>6. CASE asked # 0 /\ Chunky
  <2>1. ASSUME "digit" \notin torn' PROVE sizes' \in Chunkings /\ Received(sizes)'
    <3>1. sizes \in Chunkings /\ wire \in Seq(Bytes) BY <1>1, <1>6, <2>1 DEF Chunky, Received
    <3>2. wire' \in Seq(Bytes) /\ data' \in Seq(Bytes) BY <1>1, <1>3, <3>1
    <3>3. QED BY <1>1, <3>1, <3>2 DEF Received
  <2>2. Chunky' BY <2>1 DEF Chunky
  <2>3. QED BY <1>1, <1>6, <2>2 DEF ConnectionInv
<1>7. QED BY <1>2, <1>4, <1>5, <1>6 DEF ConnectionInv

\* One turn of recvResponse's loop over a chunk's header.
LEMMA ChunkHeaderKeeps ==
  ASSUME ConnectionInv, ChunkHeader
  PROVE  ConnectionInv'
<1>1. /\ pc = "chunk" /\ UNCHANGED <<kind, sizes, asked>>
      /\ pc' \in {"chunk", "content", "done", "closed", "astray"}
  BY DEF ChunkHeader, Taken, peerVars, ParseChunk, Close, GoAstray, TakeChunk, AfterChunk
<1>2. torn \subseteq torn'
  BY DEF ChunkHeader, ParseChunk, Close, GoAstray, parserVars
<1>3. SUFFICES ASSUME kind = "connection" PROVE ConnectionInv'
  BY <1>1 DEF ConnectionInv
<1>4. asked # 0 /\ Chunky BY <1>1, <1>3 DEF ConnectionInv, Waiting, Plain
<1>5. SUFFICES ASSUME "digit" \notin torn' PROVE Received(sizes)'
  <2>1. CASE "digit" \in torn' BY <1>1, <1>4, <2>1 DEF ConnectionInv, Chunky
  <2>2. CASE "digit" \notin torn'
    <3>1. Received(sizes)' BY <1>5, <2>2
    <3>2. sizes' \in Chunkings BY <1>1, <1>2, <1>4, <2>2 DEF Chunky
    <3>3. Chunky' BY <3>1, <3>2 DEF Chunky
    <3>4. QED BY <1>1, <1>4, <3>3 DEF ConnectionInv
  <2>3. QED BY <2>1, <2>2
<1>6. sizes \in Chunkings /\ Received(sizes) BY <1>2, <1>4, <1>5 DEF Chunky
<1>7. PICK c \in Sizes : c = sizes BY <1>6, ChunkingsType
<1>8. SUFFICES Received(c)'
  BY <1>1, <1>7 DEF Received, InHead, AtChunk, InContent, AllRead
<1>9. wire \in Seq(Bytes) /\ data \in Seq(Bytes) /\ (AtChunk(c) \/ Cut)
  BY <1>1, <1>6, <1>7 DEF Received
\* s is what excute is given, and w what has not been read.
<1>10. PICK s, w : /\ s \in Seq(Bytes) /\ w \in Seq(Bytes) /\ s # <<>>
                   /\ wire' = w /\ data \o wire = s \o w
                   /\ data = <<>> => s[1] = wire[1]
                   /\ ParseChunk(s)
  <2>1. CASE data # <<>> /\ ParseChunk(data) /\ UNCHANGED peerVars
    <3>1. wire' = wire BY <2>1 DEF peerVars
    <3>2. QED BY <1>9, <2>1, <3>1
  <2>2. CASE data = <<>> /\ \E k \in Reads(Buffer) : Taken(k) /\ ParseChunk(Prefix(wire, k))
    <3>1. PICK k \in Reads(Buffer) : wire' = Suffix(wire, k) /\ ParseChunk(Prefix(wire, k))
      BY <2>2 DEF Taken
    <3>2. PICK a \in Seq(Bytes) : a = wire BY <1>9
    <3>3. k \in 1 .. Len(a)
      <4>1. k \in 1 .. Min({Buffer, Len(a)}) BY <3>1, <3>2 DEF Reads
      <4>2. Buffer \in Nat /\ Len(a) \in Nat BY HttpAssumption
      <4>3. QED BY <4>1, <4>2, MinBound
    <3>4. k \in 0 .. Len(a) /\ 1 \in 1 .. k BY <3>3
    <3>5. CutAt(a, k) /\ Prefix(a, k) \o Suffix(a, k) = a BY <3>4, CutParts, Together
    <3>6. PICK s \in Seq(Bytes) : s = Prefix(a, k) /\ Len(s) = k /\ s[1] = a[1]
      BY <3>4, <3>5 DEF CutAt
    <3>7. PICK w \in Seq(Bytes) : w = Suffix(a, k) BY <3>5 DEF CutAt
    <3>8. s # <<>> BY <3>3, <3>6
    <3>9. <<>> \o a = a BY ConcatEmptySeq
    <3>10. data \o wire = s \o w BY <2>2, <3>2, <3>5, <3>6, <3>7, <3>9
    <3>11. wire' = w /\ s[1] = wire[1] /\ ParseChunk(s) BY <3>1, <3>2, <3>6, <3>7
    <3>12. QED BY <3>8, <3>10, <3>11
  <2>3. QED BY <2>1, <2>2 DEF ChunkHeader
<1>11. CASE AtChunk(c)
  <2>1. PICK i \in 1 .. Len(c) : data \o wire = Rem(c, i) /\ body = Content(0, Before(c, i))
    BY <1>11 DEF AtChunk
  <2>2. s \o w = Rem(c, i) BY <1>10, <2>1
  <2>3. QED BY <1>1, <1>10, <2>1, <2>2, HeaderParsed
<1>12. CASE Cut
  <2>1. data = <<>> /\ (s[1].tok = "digit" => s[1].part = "last") /\ s[1].tok # "content"
    BY <1>10, <1>12 DEF Cut
  <2>2. pc' = "closed" /\ data' = <<>> BY <1>5, <1>10, <2>1, CutParsed
  <2>3. wire' \in Seq(Bytes) /\ data' \in Seq(Bytes) BY <1>10, <2>2
  <2>4. QED BY <2>2, <2>3 DEF Received
<1>13. QED BY <1>9, <1>11, <1>12

\* readFixSize of what is missing of a chunk and its line end.
LEMMA ReadContentKeeps ==
  ASSUME ConnectionInv, ReadContent
  PROVE  ConnectionInv'
<1>1. PICK k \in Reads(Min({left, Buffer})) :
        /\ pc = "content" /\ wire' = Suffix(wire, k) /\ left' = left - k
        /\ UNCHANGED <<kind, sizes, asked, data, chunked, torn, last>>
        /\ LET all == body \o Prefix(wire, k) IN
             IF left' > 0 THEN body' = all /\ UNCHANGED <<pc, answered>>
             ELSE body' = Prefix(all, Len(all) - 2) /\ AfterChunk(last)
  BY DEF ReadContent, Taken, parserVars
<1>2. pc' \in {"chunk", "content", "done"} BY <1>1 DEF AfterChunk
<1>3. SUFFICES ASSUME kind = "connection" PROVE ConnectionInv'
  BY <1>1 DEF ConnectionInv
<1>4. asked # 0 /\ Chunky BY <1>1, <1>3 DEF ConnectionInv, Waiting, Plain
<1>5. SUFFICES ASSUME "digit" \notin torn PROVE Received(sizes)'
  <2>1. CASE "digit" \in torn BY <1>1, <1>2, <1>4, <2>1 DEF ConnectionInv, Chunky
  <2>2. CASE "digit" \notin torn
    <3>1. Received(sizes)' BY <1>5, <2>2
    <3>2. sizes' \in Chunkings BY <1>1, <1>4, <2>2 DEF Chunky
    <3>3. Chunky' BY <3>1, <3>2 DEF Chunky
    <3>4. QED BY <1>1, <1>2, <1>4, <3>3 DEF ConnectionInv
  <2>3. QED BY <2>1, <2>2
<1>6. sizes \in Chunkings /\ Received(sizes) BY <1>4, <1>5 DEF Chunky
<1>7. PICK c \in Sizes : c = sizes BY <1>6, ChunkingsType
<1>8. SUFFICES Received(c)'
  BY <1>1, <1>7 DEF Received, InHead, AtChunk, InContent, AllRead
<1>9. wire \in Seq(Bytes) /\ InContent(c) BY <1>1, <1>6, <1>7 DEF Received
<1>10. PICK i \in 1 .. Len(c) :
         /\ body \o wire = (Content(0, Before(c, i + 1)) \o LineEnd) \o Rem(c, i + 1)
         /\ Len(body) + left = Before(c, i + 1) + 2
         /\ last <=> i = Len(c)
  BY <1>9 DEF InContent
<1>11. PICK b \in Seq(Bytes) : b = body BY <1>9 DEF InContent
<1>12. PICK a \in Seq(Bytes) : a = wire BY <1>9
<1>13. PICK l \in Nat \ {0} : l = left BY <1>9 DEF InContent
<1>14. c \in Seq(Nat) /\ Len(c) \in Nat BY SizesType
<1>15. PICK m \in Nat : m = Before(c, i + 1)
  <2>1. i + 1 \in 1 .. Len(c) + 1 BY <1>14
  <2>2. Before(c, i + 1) \in Nat BY <1>14, <2>1, BeforeStep
  <2>3. QED BY <2>2
<1>16. k \in 1 .. Len(a) /\ k \in 1 .. l
  <2>1. Buffer \in Nat /\ Len(a) \in Nat /\ l \in Nat BY HttpAssumption
  <2>2. PICK n \in Nat : n = Min({l, Buffer}) BY <2>1, MinType
  <2>3. k \in 1 .. Min({n, Len(a)}) BY <1>1, <1>12, <1>13, <2>2 DEF Reads
  <2>4. k \in 1 .. n /\ k \in 1 .. Len(a) BY <2>1, <2>3, MinBound
  <2>5. k \in 1 .. l BY <2>1, <2>2, <2>4, MinBound
  <2>6. QED BY <2>4, <2>5
<1>17. PICK d \in Seq(Bytes) : d = Content(0, m) /\ Len(d) = m
  <2>1. 0 \in Nat OBVIOUS
  <2>2. QED BY <2>1, ContentType
<1>18. PICK e \in Seq(Bytes) : e = LineEnd /\ Len(e) = 2 BY LineEndType
<1>19. PICK x \in Seq(Bytes) : x = Rem(c, i + 1) BY ChunksRemain DEF Remains
<1>20. b \o a = (d \o e) \o x /\ Len(b) + l = m + 2
  BY <1>10, <1>11, <1>12, <1>13, <1>15, <1>17, <1>18, <1>19
<1>21. k \in 0 .. Len(a) BY <1>16
<1>22. PICK p \in Seq(Bytes) : p = Prefix(a, k) /\ Len(p) = k BY <1>21, CutParts DEF CutAt
<1>23. PICK w \in Seq(Bytes) : w = Suffix(a, k) BY <1>21, CutParts DEF CutAt
<1>24. a = p \o w BY <1>21, <1>22, <1>23, Together
<1>25. PICK z \in Seq(Bytes) : z = b \o p /\ Len(z) = Len(b) + k
  <2>1. Behind(b, p) BY Joined
  <2>2. b \o p \in Seq(Bytes) /\ Len(b \o p) = Len(b) + k BY <1>22, <2>1 DEF Behind
  <2>3. QED BY <2>2
<1>26. z \o w = (d \o e) \o x
  <2>1. Regroups(b, p, w) BY Associative
  <2>2. QED BY ONLY <1>20, <1>24, <1>25, <2>1 DEF Regroups
<1>27. /\ wire' = w /\ left' = l - k /\ data' = <<>>
       /\ left' > 0 => body' = z /\ pc' = "content"
       /\ ~(left' > 0) => body' = Prefix(z, Len(z) - 2) /\ pc' = IF last THEN "done" ELSE "chunk"
  <2>1. data = <<>> BY <1>9 DEF InContent
  <2>2. QED BY <1>1, <1>11, <1>12, <1>13, <1>22, <1>23, <1>25, <2>1 DEF AfterChunk
<1>28. Len(z) + (l - k) = m + 2
  <2>1. PICK y \in Nat : y = Len(b) OBVIOUS
  <2>2. y + l = m + 2 /\ Len(z) = y + k BY <1>20, <1>25, <2>1
  <2>3. k \in Nat /\ l \in Nat BY <1>16
  <2>4. PICK j \in Nat : j = Len(z) OBVIOUS
  <2>5. j + (l - k) = m + 2 BY ONLY <2>2, <2>3, <2>4, y \in Nat, m \in Nat
  <2>6. QED BY <2>4, <2>5
<1>29. CASE l - k > 0
  <2>1. l - k \in Nat \ {0} BY <1>16, <1>29
  <2>2. InContent(c)' BY <1>1, <1>10, <1>15, <1>17, <1>18, <1>19, <1>26, <1>27, <1>28, <1>29, <2>1
    DEF InContent
  <2>3. wire' \in Seq(Bytes) /\ data' \in Seq(Bytes) BY <1>27
  <2>4. QED BY <1>27, <1>29, <2>2, <2>3 DEF Received
<1>30. CASE ~(l - k > 0)
  <2>1. l = k /\ Len(z) = m + 2 BY <1>16, <1>28, <1>30
  <2>2. PICK f \in Seq(Bytes) : f = d \o e /\ Len(f) = m + 2
    <3>1. Behind(d, e) BY Joined
    <3>2. d \o e \in Seq(Bytes) /\ Len(d \o e) = m + 2 BY <1>17, <1>18, <3>1 DEF Behind
    <3>3. QED BY <3>2
  <2>3. z = f /\ w = x
    <3>1. TwoParts(z, w) /\ TwoParts(f, x) BY Apart
    <3>2. z \o w = f \o x BY <1>26, <2>2
    <3>3. QED BY <2>1, <2>2, <3>1, <3>2 DEF TwoParts
  <2>4. Prefix(z, m) = d
    <3>1. TwoParts(d, e) BY Apart
    <3>2. QED BY <1>17, <2>2, <2>3, <3>1 DEF TwoParts
  <2>5. Len(z) - 2 = m BY <2>1
  <2>6. body' = Content(0, Before(c, i + 1)) BY <1>15, <1>17, <1>27, <1>30, <2>4, <2>5
  <2>7. <<>> \o x = x /\ <<>> \in Seq(Bytes) BY ConcatEmptySeq
  <2>8. data' \in Seq(Bytes) /\ wire' \in Seq(Bytes) /\ data' \o wire' = Rem(c, i + 1)
    BY <1>19, <1>27, <2>3, <2>7
  <2>9. pc' = IF i = Len(c) THEN "done" ELSE "chunk" BY <1>10, <1>27, <1>30
  <2>10. QED BY <2>6, <2>8, <2>9, ChunkEnds
<1>31. QED BY <1>29, <1>30

\* Cutting what was cut.
LEMMA SuffixOfSuffix ==
  ASSUME NEW h \in Seq(Bytes), NEW e \in 0 .. Len(h), NEW k \in 0 .. Len(h) - e
  PROVE  Suffix(Suffix(h, e), k) = Suffix(h, e + k)
<1>1. CutAt(h, e) BY CutParts
<1>2. PICK f \in Seq(Bytes) : f = Prefix(h, e) /\ Len(f) = e BY <1>1 DEF CutAt
<1>3. PICK t \in Seq(Bytes) : t = Suffix(h, e) /\ Len(t) = Len(h) - e BY <1>1 DEF CutAt
<1>4. h = f \o t BY <1>2, <1>3, Together
<1>5. k \in 0 .. Len(t) BY <1>3
<1>6. CutAt(t, k) BY <1>5, CutParts
<1>7. PICK u \in Seq(Bytes) : u = Prefix(t, k) /\ Len(u) = k BY <1>6 DEF CutAt
<1>8. PICK v \in Seq(Bytes) : v = Suffix(t, k) BY <1>6 DEF CutAt
<1>9. t = u \o v BY <1>5, <1>7, <1>8, Together
<1>10. PICK g \in Seq(Bytes) : g = f \o u /\ Len(g) = e + k
  <2>1. Behind(f, u) BY Joined
  <2>2. f \o u \in Seq(Bytes) /\ Len(f \o u) = e + k BY <1>2, <1>7, <2>1 DEF Behind
  <2>3. QED BY <2>2
<1>11. h = g \o v
  <2>1. Regroups(f, u, v) BY Associative
  <2>2. QED BY <1>4, <1>9, <1>10, <2>1 DEF Regroups
<1>12. TwoParts(g, v) BY Apart
<1>13. QED BY <1>3, <1>8, <1>10, <1>11, <1>12 DEF TwoParts

\* What excute makes of k bytes of the head and the chunks x behind it, if it
\* consumed e bytes of the head before.
HeadEaten(s, w, e, k, x) ==
  /\ IF e + k < 9
     THEN /\ ~Finished(s, "end") /\ Rest(s, "end") = <<>>
          /\ w = Suffix(HeadBytes, e + k) \o x
     ELSE /\ Finished(s, "end") /\ Rest(s, "end") \in Seq(Bytes)
          /\ Rest(s, "end") \o w = x
  /\ (e >= 8 \/ Coding(Piece(s, "end"))) <=> e + k >= 8
  /\ ~Foreign(Piece(s, "end"))

\* excute stops at the end of the head, or consumes all it is given.
LEMMA ExcuteHead ==
  ASSUME NEW s \in Seq(Bytes), NEW w \in Seq(Bytes), NEW x \in Seq(Bytes),
         NEW e \in 0 .. 8, NEW k \in Nat \ {0}, Len(s) = k,
         s \o w = Suffix(HeadBytes, e) \o x
  PROVE  HeadEaten(s, w, e, k, x)
<1>1. PICK h \in Seq(Bytes) : h = HeadBytes /\ IsHead(h) /\ Len(h) = 9
  BY HeadShape DEF IsHead
<1>2. \A i \in 1 .. 9 : (h[i].tok = "end" <=> i = 9) /\ (h[i] = Byte("coding", "last", 0) <=> i = 8)
  BY <1>1 DEF IsHead
<1>a. \A i \in 1 .. 9 : h[i].tok \in HeadTokens BY <1>1 DEF IsHead
<1>3. PICK g \in Nat \ {0} : g = 9 - e OBVIOUS
<1>4. PICK t \in Seq(Bytes) : t = Suffix(h, e) /\ Len(t) = g /\ \A j \in 1 .. g : t[j] = h[e + j]
  <2>1. e \in 0 .. Len(h) BY <1>1
  <2>2. CutAt(h, e) BY <2>1, CutParts
  <2>3. QED BY <1>1, <1>3, <2>2 DEF CutAt
<1>5. s \o w = t \o x BY <1>1, <1>4
<1>6. s # <<>> /\ DOMAIN s = 1 .. k OBVIOUS
<1>7. PICK q : q = Consumed(s, "end") OBVIOUS
<1>8. PICK p : p = Piece(s, "end") OBVIOUS
<1>9. /\ q \in 1 .. k /\ p = Prefix(s, q) /\ Rest(s, "end") = Suffix(s, q)
      /\ ~Finished(s, "end") => q = k
      /\ Finished(s, "end") => /\ s[q].tok = "end"
                               /\ \A j \in 1 .. k : s[j].tok = "end" => q <= j
  BY <1>6, <1>7, <1>8, ExcuteConsumes DEF Consumes
<1>10. p \in Seq(Bytes) /\ Len(p) = q /\ \A j \in 1 .. q : p[j] = s[j]
  <2>1. q \in 0 .. Len(s) BY <1>9
  <2>2. CutAt(s, q) BY <2>1, CutParts
  <2>3. QED BY <1>9, <2>2 DEF CutAt
<1>11. Coding(p) <=> \E j \in 1 .. q : s[j] = Byte("coding", "last", 0)
  <2>1. DOMAIN p = 1 .. q BY <1>9, <1>10
  <2>2. QED BY <1>10, <2>1 DEF Coding
<1>b. ASSUME \A j \in 1 .. q : s[j].tok \in HeadTokens
      PROVE  ~Foreign(p)
  <2>1. DOMAIN p = 1 .. q BY <1>9, <1>10
  <2>2. \A j \in DOMAIN p : p[j].tok \in HeadTokens BY <1>10, <1>b, <2>1
  <2>3. QED BY <2>2 DEF Foreign
<1>12. CASE k < g
  <2>1. Len(s) <= Len(t) /\ t \o x = s \o w BY <1>4, <1>5, <1>12
  <2>2. Divided(s, w, t, x) BY <2>1, Longer
  <2>3. Prefix(t, k) = s /\ Suffix(t, k) \o x = w BY <2>2 DEF Divided
  <2>4. k \in 0 .. Len(t) BY <1>4, <1>12
  <2>5. CutAt(t, k) BY <2>4, CutParts
  <2>6. \A j \in 1 .. k : s[j] = h[e + j]
    <3>1. \A j \in 1 .. k : s[j] = t[j] BY <2>3, <2>5 DEF CutAt
    <3>2. \A j \in 1 .. k : j \in 1 .. g BY <1>12
    <3>3. QED BY ONLY <1>4, <3>1, <3>2
  <2>7. \A j \in 1 .. k : e + j \in 1 .. 9 /\ e + j # 9 BY <1>3, <1>12
  <2>a. ASSUME NEW j \in 1 .. k
        PROVE  (s[j].tok = "end" <=> e + j = 9) /\ (s[j] = Byte("coding", "last", 0) <=> e + j = 8)
    <3>1. PICK i \in 1 .. 9 : i = e + j BY <2>7
    <3>2. s[j] = h[i] BY <2>6, <3>1
    <3>3. QED BY <1>2, <3>1, <3>2
  <2>8. ~Finished(s, "end") BY <1>6, <2>7, <2>a DEF Finished, Places
  <2>9. q = k BY <1>9, <2>8
  <2>10. Coding(p) <=> \E j \in 1 .. k : e + j = 8 BY <1>11, <2>9, <2>a
  <2>11. (e >= 8 \/ \E j \in 1 .. k : e + j = 8) <=> e + k >= 8
    <3>1. ASSUME e < 8, e + k >= 8 PROVE \E j \in 1 .. k : e + j = 8
      <4>1. 8 - e \in 1 .. k /\ e + (8 - e) = 8 BY <3>1
      <4>2. QED BY <4>1
    <3>2. QED BY <3>1
  <2>12. w = Suffix(h, e + k) \o x
    <3>1. e \in 0 .. Len(h) /\ k \in 0 .. Len(h) - e BY <1>1, <1>3, <1>12
    <3>2. Suffix(t, k) = Suffix(h, e + k) BY <1>4, <3>1, SuffixOfSuffix
    <3>3. QED BY <2>3, <3>2
  <2>13. Rest(s, "end") = <<>>
    <3>1. k \in 0 .. Len(s) /\ k - k = 0 OBVIOUS
    <3>2. CutAt(s, k) BY <3>1, CutParts
    <3>3. Suffix(s, k) \in Seq(Bytes) /\ Len(Suffix(s, k)) = 0 BY <3>1, <3>2 DEF CutAt
    <3>4. Suffix(s, k) = <<>> BY <3>3
    <3>5. QED BY <1>9, <2>9, <3>4
  <2>14. e + k < 9 BY <1>3, <1>12
  <2>b. ~Foreign(p)
    <3>1. \A j \in 1 .. k : s[j].tok \in HeadTokens
      <4> SUFFICES ASSUME NEW j \in 1 .. k PROVE s[j].tok \in HeadTokens OBVIOUS
      <4>1. PICK i \in 1 .. 9 : i = e + j BY <2>7
      <4>2. s[j] = h[i] BY <2>6, <4>1
      <4>3. QED BY <1>a, <4>2
    <3>2. QED BY <1>b, <2>9, <3>1
  <2>15. QED BY <1>1, <1>8, <2>b, <2>8, <2>10, <2>11, <2>12, <2>13, <2>14 DEF HeadEaten
<1>13. CASE ~(k < g)
  <2>1. Len(t) <= Len(s) /\ g <= k BY <1>4, <1>13
  <2>2. Divided(t, x, s, w) BY <1>5, <2>1, Longer
  <2>3. Prefix(s, g) = t /\ Suffix(s, g) \o w = x BY <1>4, <2>2 DEF Divided
  <2>4. g \in 0 .. Len(s) BY <2>1
  <2>5. CutAt(s, g) BY <2>4, CutParts
  <2>6. \A j \in 1 .. g : s[j] = h[e + j]
    <3>1. \A j \in 1 .. g : s[j] = t[j] BY <2>3, <2>5 DEF CutAt
    <3>2. QED BY ONLY <1>4, <3>1
  <2>7. \A j \in 1 .. g : e + j \in 1 .. 9 /\ (e + j = 9 <=> j = g) BY <1>3
  <2>a. ASSUME NEW j \in 1 .. g
        PROVE  (s[j].tok = "end" <=> e + j = 9) /\ (s[j] = Byte("coding", "last", 0) <=> e + j = 8)
    <3>1. PICK i \in 1 .. 9 : i = e + j BY <2>7
    <3>2. s[j] = h[i] BY <2>6, <3>1
    <3>3. QED BY <1>2, <3>1, <3>2
  <2>8. \A j \in 1 .. g : s[j].tok = "end" <=> j = g BY <2>7, <2>a
  <2>9. g \in 1 .. g /\ g \in 1 .. k BY <2>1
  <2>10. Finished(s, "end") BY <1>6, <2>8, <2>9 DEF Finished, Places
  <2>11. q = g
    <3>1. q <= g BY <1>9, <2>8, <2>9, <2>10
    <3>2. q \in 1 .. g BY <1>9, <3>1
    <3>3. QED BY <1>9, <2>8, <2>10, <3>2
  <2>12. Coding(p) <=> \E j \in 1 .. g : e + j = 8 BY <1>11, <2>11, <2>a
  <2>13. (e >= 8 \/ \E j \in 1 .. g : e + j = 8) <=> e + k >= 8
    <3>1. e + k >= 8 BY <1>3, <2>1
    <3>2. ASSUME e < 8 PROVE \E j \in 1 .. g : e + j = 8
      <4>1. 8 - e \in 1 .. g /\ e + (8 - e) = 8 BY <1>3, <3>2
      <4>2. QED BY <4>1
    <3>3. QED BY <3>1, <3>2
  <2>14. Rest(s, "end") \in Seq(Bytes) /\ Rest(s, "end") \o w = x
    BY <1>9, <2>3, <2>5, <2>11 DEF CutAt
  <2>15. ~(e + k < 9) BY <1>3, <2>1
  <2>b. ~Foreign(p)
    <3>1. \A j \in 1 .. g : s[j].tok \in HeadTokens
      <4> SUFFICES ASSUME NEW j \in 1 .. g PROVE s[j].tok \in HeadTokens OBVIOUS
      <4>1. PICK i \in 1 .. 9 : i = e + j BY <2>7
      <4>2. s[j] = h[i] BY <2>6, <4>1
      <4>3. QED BY <1>a, <4>2
    <3>2. QED BY <1>b, <2>11, <3>1
  <2>16. QED BY <1>8, <2>b, <2>10, <2>12, <2>13, <2>14, <2>15 DEF HeadEaten
<1>14. QED BY <1>12, <1>13

\* A read of the loop for the head and the excute behind it.
LEMMA ReadHeadOfResponse ==
  ASSUME ConnectionInv, ReadHead
  PROVE  ConnectionInv'
<1>1. pc = "head" /\ UNCHANGED <<kind, sizes, asked>> BY DEF ReadHead, Taken
<1>2. SUFFICES ASSUME kind = "connection" PROVE ConnectionInv'
  BY <1>1 DEF ConnectionInv
<1>3. PICK k, p, rest :
        /\ k \in Reads(Buffer - Len(data)) /\ wire' = Suffix(wire, k)
        /\ p = Piece(data \o Prefix(wire, k), "end")
        /\ rest = Rest(data \o Prefix(wire, k), "end")
        /\ \/ Close
           \/ Foreign(p) /\ GoAstray
           \/ /\ torn' = torn \cup Torn(p)
              /\ chunked' = (chunked \/ Coding(p))
              /\ data' = rest
              /\ IF ~Finished(data \o Prefix(wire, k), "end")
                 THEN UNCHANGED <<pc, body, left>>
                 ELSE ResponseBody(chunked')
  BY <1>2 DEF ReadHead, Taken
<1>4. asked # 0 /\ "digit" \in torn => ConnectionInv'
  <2> SUFFICES ASSUME asked # 0, "digit" \in torn PROVE ConnectionInv' OBVIOUS
  <2>1. "digit" \in torn' BY <1>3 DEF Close, GoAstray, parserVars
  <2>2. pc' \in {"head", "chunk", "done", "closed", "astray"}
    BY <1>1, <1>3 DEF Close, GoAstray, ResponseBody
  <2>3. QED BY <1>1, <2>1, <2>2 DEF ConnectionInv, Chunky
<1>5. SUFFICES ASSUME asked = 0 \/ "digit" \notin torn PROVE ConnectionInv' BY <1>4
<1>6. /\ data = <<>>
      /\ asked = 0 => wire = <<>>
      /\ asked # 0 => Plain \/ (sizes \in Chunkings /\ Received(sizes) /\ InHead(sizes))
  BY <1>1, <1>2, <1>5 DEF ConnectionInv, Waiting, Plain, Chunky, Received, InHead
<1>7. PICK a \in Seq(Bytes) : a = wire
  <2>1. <<>> \in Seq(Bytes) OBVIOUS
  <2>2. wire \in Seq(Bytes) BY <1>6, <2>1 DEF Plain, NoCoding, Received
  <2>3. QED BY <2>2
<1>8. k \in 1 .. Len(a)
  <2>1. Len(data) = 0 /\ Buffer \in Nat /\ Buffer - 0 = Buffer BY <1>6, HttpAssumption
  <2>2. k \in 1 .. Min({Buffer, Len(a)}) BY <1>3, <1>7, <2>1 DEF Reads
  <2>3. QED BY <2>1, <2>2, MinBound
<1>9. asked # 0
  <2>1. Len(a) # 0 BY <1>8
  <2>2. a # <<>> BY <2>1
  <2>3. QED BY <1>6, <1>7, <2>2
<1>10. k \in Nat \ {0} /\ k \in 0 .. Len(a) BY <1>8
<1>11. CutAt(a, k) BY <1>10, CutParts
<1>12. PICK s \in Seq(Bytes) : s = Prefix(a, k) /\ Len(s) = k /\ \A i \in 1 .. k : s[i] = a[i]
  BY <1>11 DEF CutAt
<1>13. PICK w \in Seq(Bytes) :
         w = Suffix(a, k) /\ Len(w) = Len(a) - k /\ \A i \in 1 .. Len(a) - k : w[i] = a[k + i]
  BY <1>11 DEF CutAt
<1>14. a = s \o w BY <1>10, <1>12, <1>13, Together
<1>15. data \o Prefix(wire, k) = s
  <2>1. <<>> \o s = s BY ConcatEmptySeq
  <2>2. QED BY <1>6, <1>7, <1>12, <2>1
<1>16. wire' = w BY <1>3, <1>7, <1>13
<1>17. p = Piece(s, "end") /\ rest = Rest(s, "end") BY <1>3, <1>15
<1>18. CASE Close
  <2>1. k \in Nat /\ k \in 0 .. Len(wire) /\ wire' = Suffix(wire, k) BY <1>3, <1>7, <1>10
  <2>2. QED BY <1>1, <1>18, <2>1, CloseKeeps
<1>21. CASE Foreign(p) /\ GoAstray
  <2>1. pc' = "astray" /\ UNCHANGED <<chunked, torn>> BY <1>21 DEF GoAstray, parserVars
  <2>2. CASE Plain
    <3>1. NoCoding(a) /\ ~chunked BY <1>7, <2>2 DEF Plain
    <3>2. NoCoding(w) BY <1>10, <1>13, <3>1, NoCodingSuffix
    <3>3. Plain' BY <1>16, <2>1, <3>1, <3>2 DEF Plain
    <3>4. QED BY <1>1, <1>9, <2>1, <3>3 DEF ConnectionInv
  <2>3. CASE sizes \in Chunkings /\ Received(sizes) /\ InHead(sizes)
    <3>1. PICK c \in Sizes : c = sizes BY <2>3, ChunkingsType
    <3>2. PICK e \in 0 .. 8 : wire = Suffix(HeadBytes, e) \o Rem(c, 1)
      BY <2>3, <3>1 DEF InHead
    <3>3. 1 \in 1 .. Len(c) BY <3>1, SizesType
    <3>4. PICK x \in Seq(Bytes) : x = Rem(c, 1) BY <3>1, <3>3, ChunksRemain DEF Remains
    <3>5. s \o w = Suffix(HeadBytes, e) \o x BY <1>7, <1>14, <3>2, <3>4
    <3>6. HeadEaten(s, w, e, k, x) BY <1>10, <1>12, <3>5, ExcuteHead
    <3>7. QED BY <1>17, <1>21, <3>6 DEF HeadEaten
  <2>4. QED BY <1>6, <1>9, <2>2, <2>3
<1>19. CASE ~Close /\ ~(Foreign(p) /\ GoAstray)
  <2>1. /\ torn' = torn \cup Torn(p)
        /\ chunked' = (chunked \/ Coding(p))
        /\ data' = rest
        /\ ~Finished(s, "end") => pc' = "head"
        /\ Finished(s, "end") => body' = <<>> /\ pc' = IF chunked' THEN "chunk" ELSE "done"
    BY <1>1, <1>3, <1>15, <1>19 DEF ResponseBody
  <2>2. CASE Plain
    <3>1. s # <<>> BY <1>10, <1>12
    <3>2. PICK q : q = Consumed(s, "end") OBVIOUS
    <3>3. /\ q \in 1 .. k /\ p = Prefix(s, q) /\ rest = Suffix(s, q)
          /\ ~Finished(s, "end") => q = k
      BY <1>12, <1>17, <3>1, <3>2, ExcuteConsumes DEF Consumes
    <3>4. q \in 0 .. Len(s) BY <1>12, <3>3
    <3>5. CutAt(s, q) BY <3>4, CutParts
    <3>6. ~Coding(p)
      <4>1. \A i \in 1 .. Len(a) : a[i].tok # "coding" BY <1>7, <2>2 DEF Plain, NoCoding
      <4>2. p \in Seq(Bytes) /\ Len(p) = q /\ \A i \in 1 .. q : p[i] = s[i]
        BY <3>3, <3>5 DEF CutAt
      <4>3. \A i \in 1 .. q : p[i].tok # "coding"
        <5>1. \A i \in 1 .. q : i \in 1 .. k /\ i \in 1 .. Len(a) BY <1>8, <3>3
        <5>2. QED BY <1>12, <4>1, <4>2, <5>1
      <4>4. DOMAIN p = 1 .. q BY <3>3, <4>2
      <4>5. \A i \in DOMAIN p : p[i] # Byte("coding", "last", 0) BY <4>3, <4>4 DEF Byte
      <4>6. QED BY <4>5 DEF Coding
    <3>7. ~chunked' BY <2>1, <2>2, <3>6 DEF Plain
    <3>8. NoCoding(w)
      <4>1. \A i \in 1 .. Len(w) : k + i \in 1 .. Len(a) BY <1>10, <1>13
      <4>2. \A i \in 1 .. Len(w) : w[i].tok # "coding"
        BY <1>7, <1>13, <2>2, <4>1 DEF Plain, NoCoding
      <4>3. QED BY <4>2 DEF NoCoding
    <3>9. ~Finished(s, "end") => data' = <<>>
      <4> SUFFICES ASSUME ~Finished(s, "end") PROVE data' = <<>> OBVIOUS
      <4>1. rest \in Seq(Bytes) /\ Len(rest) = 0 BY <1>12, <3>3, <3>4, <3>5 DEF CutAt
      <4>2. rest = <<>> BY <4>1
      <4>3. QED BY <2>1, <4>2
    <3>10. pc' \in {"head", "done"} /\ (pc' = "head" => data' = <<>>) BY <2>1, <3>7, <3>9
    <3>11. Plain' BY <1>16, <3>7, <3>8, <3>10 DEF Plain
    <3>12. QED BY <1>1, <1>9, <3>10, <3>11 DEF ConnectionInv
  <2>3. CASE sizes \in Chunkings /\ Received(sizes) /\ InHead(sizes)
    <3>1. PICK c \in Sizes : c = sizes BY <2>3, ChunkingsType
    <3>2. PICK e \in 0 .. 8 : /\ wire = Suffix(HeadBytes, e) \o Rem(c, 1)
                              /\ chunked <=> e >= 8
      BY <2>3, <3>1 DEF InHead
    <3>3. 1 \in 1 .. Len(c) /\ c \in Seq(Nat) BY <3>1, SizesType
    <3>4. PICK x \in Seq(Bytes) : x = Rem(c, 1) BY <3>1, <3>3, ChunksRemain DEF Remains
    <3>5. s \o w = Suffix(HeadBytes, e) \o x BY <1>7, <1>14, <3>2, <3>4
    <3>6. HeadEaten(s, w, e, k, x) BY <1>10, <1>12, <3>5, ExcuteHead
    <3>7. chunked' <=> e + k >= 8 BY <1>17, <2>1, <3>2, <3>6 DEF HeadEaten
    <3>8. Received(c)' /\ pc' \in {"head", "chunk"}
      <4>1. CASE e + k < 9
        <5>1. pc' = "head" /\ data' = <<>> /\ w = Suffix(HeadBytes, e + k) \o x
          BY <1>17, <2>1, <3>6, <4>1 DEF HeadEaten
        <5>2. PICK f \in 0 .. 8 : f = e + k
          <6>1. e + k \in 0 .. 8 BY <1>10, <4>1
          <6>2. QED BY <6>1
        <5>3. InHead(c)' BY <1>16, <3>4, <3>7, <5>1, <5>2 DEF InHead
        <5>4. data' \in Seq(Bytes) /\ wire' \in Seq(Bytes) BY <1>16, <5>1
        <5>5. QED BY <5>1, <5>3, <5>4 DEF Received
      <4>2. CASE ~(e + k < 9)
        <5>1. Finished(s, "end") /\ rest \in Seq(Bytes) /\ rest \o w = x
          BY <1>17, <3>6, <4>2 DEF HeadEaten
        <5>2. chunked' BY <1>10, <3>7, <4>2
        <5>3. pc' = "chunk" /\ body' = <<>> BY <2>1, <5>1, <5>2
        <5>4. data' \o wire' = Rem(c, 1) BY <1>16, <2>1, <3>4, <5>1
        <5>5. Content(0, Before(c, 1)) = <<>>
          <6>1. Before(c, 1) = 0 BY <3>3, BeforeStep
          <6>2. Content(0, 0) \in Seq(Bytes) /\ Len(Content(0, 0)) = 0
            <7>1. 0 \in Nat OBVIOUS
            <7>2. QED BY <7>1, ContentType
          <6>3. QED BY <6>1, <6>2
        <5>6. AtChunk(c)' BY <3>3, <5>3, <5>4, <5>5 DEF AtChunk
        <5>7. data' \in Seq(Bytes) /\ wire' \in Seq(Bytes) BY <1>16, <2>1, <5>1
        <5>8. QED BY <5>3, <5>6, <5>7 DEF Received
      <4>3. QED BY <4>1, <4>2
    <3>9. Received(sizes)' BY <1>1, <3>1, <3>8 DEF Received, InHead, AtChunk, InContent, AllRead
    <3>10. Chunky' BY <1>1, <2>3, <3>9 DEF Chunky
    <3>11. QED BY <1>1, <1>9, <3>8, <3>10 DEF ConnectionInv
  <2>4. QED BY <1>6, <1>9, <2>2, <2>3
<1>20. QED BY <1>18, <1>19, <1>21

\* What was taken for the beginning of a message goes on: only a response that
\* is not chunked gets there before the size of a chunk was split.
LEMMA StrayKeeps ==
  ASSUME ConnectionInv, Stray
  PROVE  ConnectionInv'
<1>1. pc = "astray" /\ UNCHANGED <<kind, sizes, asked>> BY DEF Stray, Taken
<1>2. SUFFICES ASSUME kind = "connection" PROVE ConnectionInv' BY <1>1 DEF ConnectionInv
<1>3. PICK k \in 0 .. Min({Buffer, Len(wire)}) : wire' = Suffix(wire, k) BY DEF Stray, Taken
<1>4. asked # 0 BY <1>1, <1>2 DEF ConnectionInv, Waiting
<1>5. Close \/ (pc' \in {"astray", "done"} /\ UNCHANGED <<data, chunked, torn>>)
  BY <1>2 DEF Stray, parserVars
<1>6. pc' \in {"astray", "done", "closed"} /\ UNCHANGED <<chunked, torn>>
  BY <1>5 DEF Close, parserVars
<1>7. CASE Plain
  <2>1. PICK a : a = wire OBVIOUS
  <2>2. NoCoding(a) /\ ~chunked BY <1>7, <2>1 DEF Plain
  <2>3. a \in Seq(Bytes) BY <2>2 DEF NoCoding
  <2>4. k \in 0 .. Len(a)
    <3>1. PICK n \in Nat : n = Len(a) BY <2>3
    <3>2. Buffer \in Nat BY HttpAssumption
    <3>3. PICK m \in Nat : m = Min({Buffer, n}) /\ m <= n
      <4>1. Min({Buffer, n}) \in Nat BY <3>2, MinType
      <4>2. Min({Buffer, n}) <= n
        BY <3>2 DEF Min
      <4>3. QED BY <4>1, <4>2
    <3>4. QED BY <1>3, <2>1, <3>1, <3>3
  <2>5. NoCoding(Suffix(a, k)) BY <2>2, <2>4, NoCodingSuffix
  <2>6. Plain' BY <1>3, <1>6, <2>1, <2>2, <2>5 DEF Plain
  <2>7. QED BY <1>1, <1>4, <1>6, <2>6 DEF ConnectionInv
<1>8. CASE Chunky
  <2>1. "digit" \in torn BY <1>1, <1>8 DEF Chunky, Received
  <2>2. "digit" \in torn' BY <1>6, <2>1
  <2>3. QED BY <1>1, <1>4, <1>6, <2>2 DEF ConnectionInv, Chunky
<1>9. QED BY <1>2, <1>4, <1>7, <1>8 DEF ConnectionInv

\* Every step keeps the invariant.
LEMMA StepConnection == ConnectionInv /\ [Next]_vars => ConnectionInv'
<1> SUFFICES ASSUME ConnectionInv, [Next]_vars PROVE ConnectionInv' OBVIOUS
<1>1. CASE Peer BY <1>1, PeerAnswers
<1>2. CASE ReadHead BY <1>2, ReadHeadOfResponse
<1>3. CASE ReadFails
  <2>1. Close /\ UNCHANGED <<kind, wire, asked, sizes>> BY <1>3 DEF ReadFails, peerVars
  <2>2. 0 \in Nat OBVIOUS
  <2>3. QED BY <2>1, <2>2, CloseKeeps
<1>4. CASE Session
  <2>1. pc \in {"fixed", "handle", "write"} /\ kind' = kind
    BY <1>4 DEF Session, ReadFixed, Handle, Write, WriteFails, Taken, peerVars
  <2>2. QED BY <2>1 DEF ConnectionInv
<1>5. CASE Connection BY <1>5, ChunkHeaderKeeps, ReadContentKeeps DEF Connection
<1>6. CASE UNCHANGED vars
  BY <1>6 DEF vars, ConnectionInv, Waiting, Plain, Chunky, Received, InHead, AtChunk, Cut,
    InContent, AllRead
<1>7. CASE Stray BY <1>7, StrayKeeps
<1>8. QED BY <1>1, <1>2, <1>3, <1>4, <1>5, <1>6, <1>7 DEF Next

\* ChunksDecoded: for every buffer size and every division of the bytes into
\* reads, a chunked response is returned with the content of its chunks and was
\* read to its end, unless the size of a chunk was split between two reads
\* (HTTPConnection::recvResponse).
THEOREM ResponsesDecoded == Spec => []ChunksDecoded
<1>1. Init => ConnectionInv BY DEF Init, ConnectionInv, Waiting
<1>2. ConnectionInv /\ [Next]_vars => ConnectionInv' BY StepConnection
<1>3. ConnectionInv => ChunksDecoded
  <2> SUFFICES ASSUME ConnectionInv, kind = "connection", pc = "done", chunked, "digit" \notin torn
               PROVE  body = Content(0, Total(sizes)) /\ wire = <<>> /\ data = <<>>
    BY DEF ChunksDecoded, Handed
  <2>1. AllRead(sizes) BY DEF ConnectionInv, Waiting, Plain, Chunky, Received
  <2>2. QED BY <2>1 DEF AllRead
<1>4. QED BY <1>1, <1>2, <1>3, PTL DEF Spec
=============================================================================
