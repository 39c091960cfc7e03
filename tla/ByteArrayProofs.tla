--------------------------- MODULE ByteArrayProofs ---------------------------
(***************************************************************************)
(* For every block size, and however many bytes are written at a time, the *)
(* current block of a ByteArray is the one its position is in, no access   *)
(* but the empty read runs into a null block, and the chain of blocks is   *)
(* the sequence of bytes and the position that ByteSeq promises.           *)
(***************************************************************************)
EXTENDS ByteArray, FiniteSetTheorems, SequenceTheorems, WellFoundedInduction,
        TLAPS

\* The current block for position p in a chain of n blocks.
Place(p, n) == IF p = n * BlockSize THEN Null ELSE 1 + p \div BlockSize

Inv == TypeOK /\ BlockMatches /\ NoNullBlock

-----------------------------------------------------------------------------
(* Blocks and offsets.                                                     *)

\* A position is its block and its offset in it.
LEMMA Split ==
  ASSUME NEW p \in Nat
  PROVE  /\ p \div BlockSize \in Nat
         /\ (p % BlockSize) \in 0 .. BlockSize - 1
         /\ p = BlockSize * (p \div BlockSize) + (p % BlockSize)
BY ByteArrayAssumption, SMT

\* There is one way to split a position.
LEMMA SplitUnique ==
  ASSUME NEW p \in Nat, NEW q \in Nat, NEW r \in Nat,
         r < BlockSize, p = BlockSize * q + r
  PROVE  p \div BlockSize = q /\ (p % BlockSize) = r
BY ByteArrayAssumption, SMTT(30)

\* A later block begins at least a block later.
LEMMA Apart ==
  ASSUME NEW a \in Nat, NEW b \in Nat, a < b
  PROVE  BlockSize * a + BlockSize <= BlockSize * b
BY ByteArrayAssumption, SMTT(30)

LEMMA Distributes ==
  ASSUME NEW a \in Nat, NEW b \in Nat
  PROVE  /\ BlockSize * (a + b) = BlockSize * a + BlockSize * b
         /\ BlockSize * a \in Nat
         /\ a * BlockSize = BlockSize * a
BY ByteArrayAssumption, SMTT(30)

\* Counting on from a position within its block leads to the same block as
\* counting from the beginning.
LEMMA Onward ==
  ASSUME NEW p \in Nat, NEW i \in Nat
  PROVE  p \div BlockSize + ((p % BlockSize) + i) \div BlockSize
           = (p + i) \div BlockSize
<1> DEFINE q == p \div BlockSize
           r == p % BlockSize
           d == (r + i) \div BlockSize
           e == (r + i) % BlockSize
<1>1. q \in Nat /\ r \in 0 .. BlockSize - 1 /\ p = BlockSize * q + r
  BY Split
<1>2. r + i \in Nat
  BY <1>1, ByteArrayAssumption
<1>3. d \in Nat /\ e \in 0 .. BlockSize - 1 /\ r + i = BlockSize * d + e
  BY <1>2, Split
<1>4. BlockSize * (q + d) = BlockSize * q + BlockSize * d
      /\ BlockSize * q \in Nat /\ BlockSize * d \in Nat
  BY <1>1, <1>3, Distributes
<1>5. e \in Nat /\ e < BlockSize /\ q + d \in Nat
  BY <1>1, <1>3, ByteArrayAssumption
<1> HIDE DEF q, r, d, e
<1>6. p + i = BlockSize * (q + d) + e
  BY <1>1, <1>3, <1>4, <1>5, ByteArrayAssumption
<1>7. (p + i) \div BlockSize = q + d
  BY <1>5, <1>6, SplitUnique
<1> QED BY <1>7 DEF q, d, r

\* Positions before the end of n blocks are in one of them.
LEMMA Inside ==
  ASSUME NEW n \in Nat, NEW p \in Nat, p < n * BlockSize
  PROVE  p \div BlockSize \in 0 .. n - 1
<1> DEFINE q == p \div BlockSize
<1>1. q \in Nat /\ (p % BlockSize) \in 0 .. BlockSize - 1
      /\ p = BlockSize * q + (p % BlockSize)
  BY Split
<1>2. n * BlockSize = BlockSize * n /\ BlockSize * n \in Nat /\ BlockSize * q \in Nat
  BY <1>1, Distributes
<1>3. BlockSize * q <= p
  BY <1>1, <1>2, ByteArrayAssumption
<1>4. ASSUME q >= n PROVE FALSE
  <2>1. CASE q = n BY <1>2, <1>3, <2>1
  <2>2. CASE q > n
    <3>1. BlockSize * n + BlockSize <= BlockSize * q
      BY <1>1, <2>2, Apart
    <3> QED BY <1>2, <1>3, <3>1, ByteArrayAssumption
  <2> QED BY <1>1, <1>4, <2>1, <2>2
<1> QED BY <1>1, <1>4

\* The end of n blocks is where the next one would begin.
LEMMA AtEnd ==
  ASSUME NEW n \in Nat
  PROVE  (n * BlockSize) \div BlockSize = n /\ n * BlockSize \in Nat
<1>1. n * BlockSize = BlockSize * n + 0 /\ n * BlockSize \in Nat
  BY Distributes, ByteArrayAssumption
<1> QED BY <1>1, SplitUnique, ByteArrayAssumption

\* Looking a block up by its number gives null exactly at the end.
LEMMA Lookup ==
  ASSUME NEW bs, Len(bs) \in Nat, NEW p \in Nat, p <= Len(bs) * BlockSize
  PROVE  Existing(1 + p \div BlockSize, bs) = Place(p, Len(bs))
<1>1. CASE p = Len(bs) * BlockSize
  <2>1. p \div BlockSize = Len(bs)
    BY <1>1, AtEnd
  <2> QED BY <1>1, <2>1 DEF Existing, Place
<1>2. CASE p # Len(bs) * BlockSize
  <2>1. Len(bs) * BlockSize \in Nat
    BY AtEnd
  <2>2. p \div BlockSize \in 0 .. Len(bs) - 1
    BY <1>2, <2>1, Inside
  <2> QED BY <1>2, <2>2 DEF Existing, Place
<1> QED BY <1>1, <1>2

\* Rounding up to whole blocks gives enough of them.
LEMMA RoundUp ==
  ASSUME NEW m \in Nat \ {0}
  PROVE  /\ (m + BlockSize - 1) \div BlockSize \in Nat \ {0}
         /\ m <= ((m + BlockSize - 1) \div BlockSize) * BlockSize
<1> DEFINE t == m + BlockSize - 1
           q == t \div BlockSize
<1>1. t \in Nat
  BY ByteArrayAssumption
<1>2. q \in Nat /\ (t % BlockSize) \in 0 .. BlockSize - 1
      /\ t = BlockSize * q + (t % BlockSize)
  BY <1>1, Split
<1>3. q * BlockSize = BlockSize * q /\ BlockSize * q \in Nat
  BY <1>2, Distributes
<1>4. m <= BlockSize * q
  <2> HIDE DEF q
  <2> QED BY <1>2, <1>3, ByteArrayAssumption DEF t
<1>5. q # 0
  BY <1>4, ByteArrayAssumption
<1> QED BY <1>2, <1>3, <1>4, <1>5

-----------------------------------------------------------------------------
(* The operators of ByteArray in a state of Inv.                           *)

\* What the type invariant says in the terms the lemmas use.
LEMMA Basics ==
  ASSUME Inv
  PROVE  /\ Len(blocks) \in Nat \ {0} /\ Capacity \in Nat
         /\ position \in Nat /\ size \in Nat
         /\ position <= size /\ size <= Capacity
         /\ cur = Place(position, Len(blocks))
<1>0. blocks \in Seq(Block) /\ Len(blocks) > 0
  BY DEF Inv, TypeOK
<1>1. Len(blocks) \in Nat \ {0}
  BY <1>0
<1>2. Capacity \in Nat
  BY <1>1, AtEnd DEF Capacity
<1>3. size \in 0 .. Capacity /\ position \in 0 .. size
  BY DEF Inv, TypeOK
<1>4. cur = Place(position, Len(blocks))
  BY DEF Inv, BlockMatches, Place, Capacity
<1> QED BY <1>1, <1>2, <1>3, <1>4

\* From the block of the position the loops stay inside the chain, and leave
\* the block of the position after them.
LEMMA Loops ==
  ASSUME position \in Nat, NEW n \in Nat, NEW bs, Len(bs) \in Nat,
         position + n <= Len(bs) * BlockSize, NEW c, c = 1 + position \div BlockSize
  PROVE  /\ Advance(c, n, bs) = Place(position + n, Len(bs))
         /\ \A i \in 0 .. n - 1 : BlockAt(c, i) \in 1 .. Len(bs)
         /\ \A i \in Nat : OffsetAt(i) \in 0 .. BlockSize - 1
<1>0. position \div BlockSize \in Nat /\ (position % BlockSize) \in 0 .. BlockSize - 1
  BY Split
<1>1. ASSUME NEW i \in Nat
      PROVE  /\ BlockAt(c, i) = 1 + (position + i) \div BlockSize
             /\ OffsetAt(i) \in 0 .. BlockSize - 1
  <2>1. position \div BlockSize + ((position % BlockSize) + i) \div BlockSize
          = (position + i) \div BlockSize
    BY Onward
  <2>2. (position % BlockSize) + i \in Nat
    BY <1>0, ByteArrayAssumption
  <2>3. ((position % BlockSize) + i) \div BlockSize \in Nat
        /\ (((position % BlockSize) + i) % BlockSize) \in 0 .. BlockSize - 1
    BY <2>2, Split
  <2> QED BY <1>0, <2>1, <2>3 DEF BlockAt, OffsetAt, Npos
<1>2. Advance(c, n, bs) = Existing(1 + (position + n) \div BlockSize, bs)
  BY <1>1 DEF Advance, BlockAt
<1>3. Advance(c, n, bs) = Place(position + n, Len(bs))
  BY <1>2, Lookup
<1>4. ASSUME NEW i \in 0 .. n - 1 PROVE BlockAt(c, i) \in 1 .. Len(bs)
  <2>1. Len(bs) * BlockSize \in Nat
    BY AtEnd
  <2>2. position + i \in Nat /\ position + i < Len(bs) * BlockSize
    BY <2>1
  <2>3. (position + i) \div BlockSize \in 0 .. Len(bs) - 1
    BY <2>2, Inside
  <2>4. BlockAt(c, i) = 1 + (position + i) \div BlockSize
    BY <1>1, i \in Nat
  <2> QED BY <2>3, <2>4
<1> QED BY <1>1, <1>3, <1>4

\* addCapacity makes room for n bytes, and the current block is the one they
\* begin in.
LEMMA Growth ==
  ASSUME Inv, NEW n \in Nat \ {0}
  PROVE  /\ Grown(n) \in Seq(Block)
         /\ Len(Grown(n)) \in Nat /\ Len(Grown(n)) >= Len(blocks)
         /\ Len(blocks) * BlockSize <= Len(Grown(n)) * BlockSize
         /\ position + n <= Len(Grown(n)) * BlockSize
         /\ CurGrown(n) = 1 + position \div BlockSize
<1> DEFINE k == NewBlocks(n)
           L == Len(blocks)
<1>1. /\ L \in Nat \ {0} /\ Capacity \in Nat /\ position \in Nat
      /\ position <= Capacity /\ cur = Place(position, L)
      /\ WritableCapacity = Capacity - position
      /\ Capacity = L * BlockSize
  BY Basics DEF WritableCapacity, Capacity
<1>2. k \in Nat /\ (k = 0 => WritableCapacity >= n)
      /\ (k > 0 => n <= WritableCapacity + k * BlockSize)
  <2>1. CASE WritableCapacity >= n
    BY <2>1 DEF NewBlocks
  <2>2. CASE WritableCapacity < n
    <3>1. n - WritableCapacity \in Nat \ {0}
      BY <1>1, <2>2
    <3>2. k = (n - WritableCapacity + BlockSize - 1) \div BlockSize
      BY <1>1, <2>2 DEF NewBlocks
    <3>3. k \in Nat \ {0} /\ n - WritableCapacity <= k * BlockSize
      BY <3>1, <3>2, RoundUp
    <3>4. k * BlockSize \in Nat
      BY <3>3, AtEnd
    <3> HIDE DEF k
    <3> QED BY <1>1, <3>3, <3>4
  <2> QED BY <1>1, <2>1, <2>2
<1>3. NewBlock \in Block
  BY DEF NewBlock, Block, Byte
<1>4. /\ Grown(n) \in Seq(Block) /\ Len(Grown(n)) = L + k
  <2>1. blocks \in Seq(Block)
    BY DEF Inv, TypeOK
  <2>2. [i \in 1 .. k |-> NewBlock] \in Seq(Block)
        /\ Len([i \in 1 .. k |-> NewBlock]) = k
    <3> HIDE DEF k
    <3> QED BY <1>2, <1>3
  <2>3. Grown(n) = blocks \o [i \in 1 .. k |-> NewBlock]
    BY DEF Grown
  <2> HIDE DEF k
  <2> QED BY <2>1, <2>2, <2>3, ConcatProperties
<1>5. (L + k) * BlockSize = L * BlockSize + k * BlockSize /\ k * BlockSize \in Nat
  <2> HIDE DEF k, L
  <2>1. L + k \in Nat /\ L \in Nat
    BY <1>1, <1>2
  <2>2. (L + k) * BlockSize = BlockSize * (L + k) /\ L * BlockSize = BlockSize * L
        /\ k * BlockSize = BlockSize * k /\ BlockSize * k \in Nat
    BY <1>2, <2>1, Distributes
  <2>3. BlockSize * (L + k) = BlockSize * L + BlockSize * k
    BY <1>2, <2>1, Distributes
  <2> QED BY <2>2, <2>3
<1>6. position + n <= (L + k) * BlockSize
  <2> HIDE DEF k
  <2>1. CASE k = 0 BY <1>1, <1>2, <1>5, <2>1
  <2>2. CASE k > 0 BY <1>1, <1>2, <1>5, <2>2
  <2> QED BY <1>2, <2>1, <2>2
<1>7. CurGrown(n) = 1 + position \div BlockSize
  <2>1. CASE k > 0 /\ WritableCapacity = 0
    <3>1. position = L * BlockSize
      BY <1>1, <2>1
    <3>2. position \div BlockSize = L
      BY <1>1, <3>1, AtEnd
    <3> QED BY <2>1, <3>2, <1>1 DEF CurGrown
  <2>2. CASE ~(k > 0 /\ WritableCapacity = 0)
    <3>1. position # L * BlockSize
      BY <1>1, <1>2, <2>2
    <3> QED BY <1>1, <2>2, <3>1 DEF CurGrown, Place
  <2> QED BY <2>1, <2>2
<1> HIDE DEF k
<1>8. Len(Grown(n)) \in Nat /\ Len(Grown(n)) >= L
      /\ L * BlockSize <= Len(Grown(n)) * BlockSize
  BY <1>1, <1>2, <1>4, <1>5, SMTT(20)
<1> QED BY <1>4, <1>6, <1>7, <1>8

\* Copying into the chain keeps its shape.
LEMMA FilledShape ==
  ASSUME NEW bs \in Seq(Block), NEW c, NEW s \in Seq(Byte), position \in Nat, c \in Nat
  PROVE  Filled(bs, c, s) \in Seq(Block) /\ Len(Filled(bs, c, s)) = Len(bs)
<1>1. Npos \in Nat
  BY Split, ByteArrayAssumption DEF Npos
<1>2. ASSUME NEW k \in 1 .. Len(bs), NEW o \in 0 .. BlockSize - 1
      PROVE  LET i == (k - c) * BlockSize + o + 1 IN
               (IF i > Npos /\ i <= Npos + Len(s) THEN s[i - Npos] ELSE bs[k][o]) \in Byte
  <2> DEFINE i == (k - c) * BlockSize + o + 1
  <2>1. i \in Int
    BY ByteArrayAssumption
  <2>2. bs[k] \in Block /\ bs[k][o] \in Byte
    <3>1. bs[k] \in Block
      OBVIOUS
    <3> QED BY <3>1 DEF Block
  <2> HIDE DEF i
  <2>3. (IF i > Npos /\ i <= Npos + Len(s) THEN s[i - Npos] ELSE bs[k][o]) \in Byte
    <3>1. CASE i > Npos /\ i <= Npos + Len(s)
      <4>1. i - Npos \in 1 .. Len(s)
        BY <1>1, <2>1, <3>1
      <4>2. s[i - Npos] \in Byte
        BY <4>1
      <4> QED BY <3>1, <4>2, Zenon
    <3>2. CASE ~(i > Npos /\ i <= Npos + Len(s))
      BY <2>2, <3>2, Zenon
    <3> QED BY <3>1, <3>2, Zenon
  <2> QED BY <2>3, Zenon DEF i
<1>3. Len(bs) \in Nat
  OBVIOUS
<1>4. \A k \in 1 .. Len(bs) :
        [o \in 0 .. BlockSize - 1 |->
           LET i == (k - c) * BlockSize + o + 1 IN
             IF i > Npos /\ i <= Npos + Len(s) THEN s[i - Npos] ELSE bs[k][o]] \in Block
  BY <1>2, Zenon DEF Block
<1> QED BY <1>3, <1>4 DEF Filled

\* What is read are bytes.
LEMMA BytesType ==
  ASSUME Inv, NEW n \in Nat, position + n <= Capacity, cur # Null
  PROVE  Bytes(n) \in Seq(Byte) /\ Len(Bytes(n)) = n
<1>1. /\ Len(blocks) \in Nat /\ position \in Nat /\ blocks \in Seq(Block)
      /\ cur = 1 + position \div BlockSize
  BY Basics DEF Place, Inv, TypeOK
<1>2. \A i \in 1 .. n : blocks[BlockAt(cur, i - 1)][OffsetAt(i - 1)] \in Byte
  <2> SUFFICES ASSUME NEW i \in 1 .. n
               PROVE  blocks[BlockAt(cur, i - 1)][OffsetAt(i - 1)] \in Byte
    OBVIOUS
  <2>1. i - 1 \in 0 .. n - 1 /\ i - 1 \in Nat
    OBVIOUS
  <2>2. BlockAt(cur, i - 1) \in 1 .. Len(blocks) /\ OffsetAt(i - 1) \in 0 .. BlockSize - 1
    BY <1>1, <2>1, Loops DEF Capacity
  <2>3. blocks[BlockAt(cur, i - 1)] \in Block
    BY <1>1, <2>2
  <2> QED BY <2>2, <2>3 DEF Block
<1> QED BY <1>2 DEF Bytes

LEMMA Ranges ==
  ASSUME NEW n \in Nat \ {0}, NEW p \in Nat, NEW z \in Nat,
         p <= z, z <= n * BlockSize
  PROVE  /\ z \in 0 .. n * BlockSize /\ p \in 0 .. z /\ n > 0
         /\ Place(p, n) \in {Null} \cup 1 .. n
<1>1. n * BlockSize \in Nat
  BY AtEnd
<1>2. CASE p = n * BlockSize
  BY <1>1, <1>2 DEF Place
<1>3. CASE p # n * BlockSize
  <2>1. p < n * BlockSize
    BY <1>1, <1>3
  <2>2. p \div BlockSize \in 0 .. n - 1
    BY <2>1, Inside
  <2> QED BY <1>1, <1>3, <2>2 DEF Place
<1> QED BY <1>2, <1>3

\* Inv in the terms of the lemmas, after a step.
LEMMA Restore ==
  ASSUME blocks' \in Seq(Block), Len(blocks') \in Nat \ {0},
         position' \in Nat, size' \in Nat, position' <= size',
         size' <= Len(blocks') * BlockSize,
         cur' = Place(position', Len(blocks')),
         got' \in Seq(Byte), fault' \in {"none", "empty read"}
  PROVE  Inv'
<1>1. /\ size' \in 0 .. Len(blocks') * BlockSize /\ position' \in 0 .. size'
      /\ Len(blocks') > 0
      /\ Place(position', Len(blocks')) \in {Null} \cup 1 .. Len(blocks')
  BY Ranges
<1>2. TypeOK'
  <2>1. Capacity' = Len(blocks') * BlockSize
    BY DEF Capacity
  <2>2. size' \in 0 .. Capacity' /\ cur' \in {Null} \cup 1 .. Len(blocks')
    BY <1>1, <2>1, Zenon
  <2>3. fault' \in {"none", "empty read", "access"}
    OBVIOUS
  <2> QED BY <1>1, <2>2, <2>3, Zenon DEF TypeOK
<1>3. BlockMatches'
  BY DEF BlockMatches, Place, Capacity
<1>4. NoNullBlock'
  BY DEF NoNullBlock
<1> QED BY <1>2, <1>3, <1>4 DEF Inv

-----------------------------------------------------------------------------
(* Recursion: the functions that the model defines by it are what their    *)
(* definitions say.  TLA+ promises that only if there is such a function,  *)
(* and there is one if the value at x depends on smaller arguments only.   *)

\* Induction: if a property of numbers fails it fails for a least one.
LEMMA Least ==
  ASSUME NEW S \in SUBSET Nat, S # {}
  PROVE  \E m \in S : \A k \in S : m <= k
<1>1. \E m \in S : \A k \in S : ~(<<k, m>> \in OpToRel(<, Nat))
  BY WFMin, NatLessThanWellFounded, Zenon
<1>2. PICK m \in S : \A k \in S : ~(<<k, m>> \in OpToRel(<, Nat))
  BY <1>1
<1>3. \A k \in S : ~ (k < m)
  BY <1>2, Zenon DEF OpToRel
<1>4. QED BY <1>3

\* g is what it should be wherever the rank is below n.
Upto(D, rank, step, n, g) ==
  \A x \in D : rank[x] < n => g[x] = step[x][g]

\* The value at x depends on those of lower rank only.
Lowers(D, T, rank, step) ==
  \A x \in D : \A f, g \in [D -> T] :
    (\A y \in D : rank[y] < rank[x] => f[y] = g[y]) => step[x][f] = step[x][g]

\* Two functions that are what they should be below n agree there.
LEMMA Agree ==
  ASSUME NEW D, NEW T, NEW rank \in [D -> Nat], NEW step, Lowers(D, T, rank, step),
         NEW n \in Nat, NEW f \in [D -> T], NEW g \in [D -> T],
         Upto(D, rank, step, n, f), Upto(D, rank, step, n, g)
  PROVE  \A x \in D : rank[x] < n => f[x] = g[x]
<1> DEFINE S == {k \in Nat : k < n /\ \E x \in D : rank[x] = k /\ f[x] # g[x]}
<1>1. SUFFICES ASSUME S # {} PROVE FALSE OBVIOUS
<1>2. PICK m \in S : \A k \in S : m <= k BY <1>1, Least
<1>3. PICK x \in D : rank[x] = m /\ f[x] # g[x] OBVIOUS
<1>4. \A y \in D : rank[y] < rank[x] => f[y] = g[y]
  <2> SUFFICES ASSUME NEW y \in D, rank[y] < rank[x], f[y] # g[y] PROVE FALSE OBVIOUS
  <2>1. rank[y] \in Nat /\ rank[y] < n BY <1>3
  <2>2. rank[y] \in S BY <2>1
  <2>3. QED BY <1>2, <1>3, <2>1, <2>2
<1>5. step[x][f] = step[x][g] BY <1>4 DEF Lowers
<1>6. f[x] = step[x][f] /\ g[x] = step[x][g] BY <1>3 DEF Upto
<1>7. QED BY <1>3, <1>5, <1>6

\* There is such a function for each n.
LEMMA Reaches ==
  ASSUME NEW D, NEW T, NEW t \in T, NEW rank \in [D -> Nat],
         NEW step \in [D -> [[D -> T] -> T]], Lowers(D, T, rank, step), NEW n \in Nat
  PROVE  \E g \in [D -> T] : Upto(D, rank, step, n, g)
<1> DEFINE S == {k \in Nat : ~\E g \in [D -> T] : Upto(D, rank, step, k, g)}
<1>1. SUFFICES ASSUME S # {} PROVE FALSE OBVIOUS
<1>2. PICK m \in S : \A k \in S : m <= k BY <1>1, Least
<1>3. m # 0
  <2>1. Upto(D, rank, step, 0, [x \in D |-> t]) BY DEF Upto
  <2>2. [x \in D |-> t] \in [D -> T] OBVIOUS
  <2>3. QED BY <2>1, <2>2
<1>4. m - 1 \in Nat /\ m - 1 \notin S BY <1>2, <1>3
<1>5. PICK g \in [D -> T] : Upto(D, rank, step, m - 1, g) BY <1>4
<1>6. PICK h : h = [x \in D |-> step[x][g]] OBVIOUS
<1>7. h \in [D -> T] BY <1>6
<1>8. \A y \in D : rank[y] < m - 1 => g[y] = h[y] BY <1>5, <1>6 DEF Upto
<1>9. Upto(D, rank, step, m, h)
  <2> SUFFICES ASSUME NEW x \in D, rank[x] < m PROVE h[x] = step[x][h] BY DEF Upto
  <2>1. \A y \in D : rank[y] < rank[x] => g[y] = h[y] BY <1>2, <1>8
  <2>2. step[x][g] = step[x][h] BY <1>7, <2>1 DEF Lowers
  <2>3. QED BY <1>6, <2>2
<1>10. QED BY <1>7, <1>9

\* A function that is what it should be everywhere.
Solvable(D, T, step) == \E f \in [D -> T] : \A x \in D : f[x] = step[x][f]

\* Recursion on a rank has a solution.
LEMMA Recursion ==
  ASSUME NEW D, NEW T, NEW t \in T, NEW rank \in [D -> Nat],
         NEW step \in [D -> [[D -> T] -> T]], Lowers(D, T, rank, step)
  PROVE  Solvable(D, T, step)
<1> DEFINE G(n) == CHOOSE g \in [D -> T] : Upto(D, rank, step, n, g)
<1>1. \A n \in Nat : G(n) \in [D -> T] /\ Upto(D, rank, step, n, G(n)) BY Reaches
<1> HIDE DEF G
<1>2. PICK f : f = [x \in D |-> G(rank[x] + 1)[x]] OBVIOUS
<1>3. f \in [D -> T] BY <1>1, <1>2
<1>4. ASSUME NEW x \in D PROVE f[x] = step[x][f]
  <2>1. rank[x] + 1 \in Nat /\ rank[x] < rank[x] + 1 OBVIOUS
  <2>2. PICK g \in [D -> T] : g = G(rank[x] + 1) /\ Upto(D, rank, step, rank[x] + 1, g)
    BY <1>1, <2>1
  <2>3. ASSUME NEW y \in D, rank[y] < rank[x] PROVE f[y] = g[y]
    <3>1. rank[y] + 1 \in Nat /\ rank[y] < rank[y] + 1 OBVIOUS
    <3>2. PICK h \in [D -> T] : h = G(rank[y] + 1) /\ Upto(D, rank, step, rank[y] + 1, h)
      BY <1>1, <3>1
    <3>3. Upto(D, rank, step, rank[y] + 1, g)
      <4> SUFFICES ASSUME NEW z \in D, rank[z] < rank[y] + 1 PROVE g[z] = step[z][g] BY DEF Upto
      <4>1. rank[z] < rank[x] + 1 BY <2>3
      <4>2. QED BY <2>2, <4>1 DEF Upto
    <3>4. h[y] = g[y] BY <3>1, <3>2, <3>3, Agree
    <3>5. QED BY <1>2, <3>2, <3>4
  <2>4. step[x][f] = step[x][g] BY <1>3, <2>3 DEF Lowers
  <2>5. f[x] = g[x] BY <1>2, <2>2
  <2>6. QED BY <2>1, <2>2, <2>4, <2>5 DEF Upto
<1>5. QED BY <1>3, <1>4 DEF Solvable

-----------------------------------------------------------------------------
(* Powers, and the bytes of an integer.                                    *)

\* Powers are what they should be.
LEMMA PowerStep ==
  ASSUME NEW b \in Nat \ {0}
  PROVE  /\ Power(b, 0) = 1
         /\ \A n \in Nat : Power(b, n + 1) = b * Power(b, n)
         /\ \A n \in Nat : Power(b, n) \in Nat \ {0}
<1> DEFINE T == Nat \ {0}
           rank == [i \in Nat |-> i]
           step == [i \in Nat |-> [f \in [Nat -> T] |-> IF i = 0 THEN 1 ELSE b * f[i - 1]]]
<1>0. \A x \in T : b * x \in T
  <2>1. ASSUME NEW x \in Nat, x > 0 PROVE b * x \in Nat /\ b * x > 0 BY <2>1, SMT
  <2>2. QED BY <2>1
<1>1. step \in [Nat -> [[Nat -> T] -> T]]
  <2>1. ASSUME NEW i \in Nat, NEW f \in [Nat -> T]
        PROVE  (IF i = 0 THEN 1 ELSE b * f[i - 1]) \in T
    <3>1. CASE i = 0 BY <3>1
    <3>2. CASE i # 0
      <4>1. i - 1 \in Nat BY <3>2
      <4>2. f[i - 1] \in T BY <4>1
      <4>3. QED BY <1>0, <3>2, <4>2
    <3>3. QED BY <3>1, <3>2
  <2>2. QED BY <2>1
<1>2. Lowers(Nat, T, rank, step)
  <2>1. ASSUME NEW i \in Nat, NEW f \in [Nat -> T], NEW g \in [Nat -> T],
               \A y \in Nat : rank[y] < rank[i] => f[y] = g[y]
        PROVE  step[i][f] = step[i][g]
    <3>1. CASE i = 0 BY <3>1
    <3>2. CASE i # 0
      <4>1. i - 1 \in Nat /\ i - 1 < i BY <3>2
      <4>2. f[i - 1] = g[i - 1] BY <2>1, <4>1
      <4>3. QED BY <4>2
    <3>3. QED BY <3>1, <3>2
  <2>2. QED BY <2>1 DEF Lowers
<1>3. PICK f \in [Nat -> T] : \A i \in Nat : f[i] = step[i][f]
  <2>1. 1 \in T /\ rank \in [Nat -> Nat] OBVIOUS
  <2> HIDE DEF T, rank, step
  <2>2. Solvable(Nat, T, step) BY <1>1, <1>2, <2>1, Recursion
  <2>3. QED BY <2>2 DEF Solvable
<1>4. PICK P : P = CHOOSE g : g = [i \in Nat |-> IF i = 0 THEN 1 ELSE b * g[i - 1]] OBVIOUS
<1>5. P = [i \in Nat |-> IF i = 0 THEN 1 ELSE b * P[i - 1]]
  <2>1. f = [i \in Nat |-> IF i = 0 THEN 1 ELSE b * f[i - 1]] BY <1>3
  <2>2. QED BY ONLY <1>4, <2>1
<1>6. \A n : Power(b, n) = P[n] BY <1>4 DEF Power
<1>7. \A n \in Nat : P[n] \in T
  <2> DEFINE S == {n \in Nat : P[n] \notin T}
  <2> SUFFICES ASSUME S # {} PROVE FALSE OBVIOUS
  <2>1. PICK m \in S : \A k \in S : m <= k BY Least
  <2>2. m # 0 BY <1>5
  <2>3. m - 1 \in Nat /\ m - 1 \notin S BY <2>1, <2>2
  <2>4. P[m - 1] \in T BY <2>3
  <2>5. P[m] = b * P[m - 1] BY <1>5, <2>2
  <2>6. QED BY <1>0, <2>4, <2>5
<1>8. P[0] = 1 BY <1>5
<1>9. \A n \in Nat : P[n + 1] = b * P[n] BY <1>5
<1>10. QED BY <1>6, <1>7, <1>8, <1>9

\* Coding is by division, and division comes down.
LEMMA Divided ==
  ASSUME NEW v \in Nat
  PROVE  /\ v \div Radix \in Nat
         /\ (v % Radix) \in 0 .. Radix - 1
         /\ v = Radix * (v \div Radix) + (v % Radix)
         /\ v >= Radix => v \div Radix < v
<1>1. Radix \in Nat /\ Radix >= 2 BY ByteArrayAssumption
<1>2. PICK q, r : q = v \div Radix /\ r = v % Radix OBVIOUS
<1>3. q \in Nat /\ r \in 0 .. Radix - 1 /\ v = Radix * q + r BY <1>1, <1>2, SMT
<1>4. ASSUME v >= Radix PROVE q < v
  <2>1. q # 0 BY <1>1, <1>3, <1>4, SMT
  <2>2. Radix * q >= 2 * q BY <1>1, <1>3, SMT
  <2>3. QED BY ONLY <1>1, <1>3, <2>1, <2>2, v \in Nat, SMT
<1>5. QED BY <1>2, <1>3, <1>4

\* What integers are coded as.
Codes == Seq(Octet)

\* One turn of the loop of writeUint32 and writeUint64 (bytearray.cpp:162-192).
LEMMA EncodeStep ==
  ASSUME NEW v \in Nat
  PROVE  Encode(v) = IF v >= Radix THEN <<(v % Radix) + Radix>> \o Encode(v \div Radix)
                     ELSE <<v>>
<1> DEFINE rank == [x \in Nat |-> x]
           step == [x \in Nat |-> [f \in [Nat -> Codes] |->
                      IF x >= Radix THEN <<(x % Radix) + Radix>> \o f[x \div Radix] ELSE <<x>>]]
<1>1. step \in [Nat -> [[Nat -> Codes] -> Codes]]
  <2>1. ASSUME NEW x \in Nat, NEW f \in [Nat -> Codes]
        PROVE  (IF x >= Radix THEN <<(x % Radix) + Radix>> \o f[x \div Radix] ELSE <<x>>) \in Codes
    <3>1. CASE x >= Radix
      <4>1. f[x \div Radix] \in Seq(Octet) BY Divided DEF Codes
      <4>2. (x % Radix) + Radix \in Octet BY Divided, ByteArrayAssumption DEF Octet
      <4>3. PICK a \in Octet, s \in Seq(Octet) : a = (x % Radix) + Radix /\ s = f[x \div Radix]
        BY <4>1, <4>2
      <4>4. <<a>> \o s \in Seq(Octet) OBVIOUS
      <4>5. QED BY <3>1, <4>3, <4>4 DEF Codes
    <3>2. CASE ~(x >= Radix)
      <4>1. x \in Octet BY <3>2, ByteArrayAssumption DEF Octet
      <4>2. QED BY <3>2, <4>1 DEF Codes
    <3>3. QED BY <3>1, <3>2
  <2>2. QED BY <2>1
<1>2. Lowers(Nat, Codes, rank, step)
  <2>1. ASSUME NEW x \in Nat, NEW f \in [Nat -> Codes], NEW g \in [Nat -> Codes],
               \A y \in Nat : rank[y] < rank[x] => f[y] = g[y]
        PROVE  step[x][f] = step[x][g]
    <3>1. x >= Radix => f[x \div Radix] = g[x \div Radix] BY <2>1, Divided
    <3>2. QED BY <3>1
  <2>2. QED BY <2>1 DEF Lowers
<1>3. PICK f \in [Nat -> Codes] : \A x \in Nat : f[x] = step[x][f]
  <2>1. <<>> \in Codes /\ rank \in [Nat -> Nat] BY DEF Codes
  <2> HIDE DEF rank, step
  <2>2. Solvable(Nat, Codes, step) BY <1>1, <1>2, <2>1, Recursion
  <2>3. QED BY <2>2 DEF Solvable
<1>4. PICK E : E = CHOOSE g : g = [x \in Nat |->
                 IF x >= Radix THEN <<(x % Radix) + Radix>> \o g[x \div Radix] ELSE <<x>>]
  OBVIOUS
<1>5. E = [x \in Nat |-> IF x >= Radix THEN <<(x % Radix) + Radix>> \o E[x \div Radix] ELSE <<x>>]
  <2>1. f = [x \in Nat |-> IF x >= Radix THEN <<(x % Radix) + Radix>> \o f[x \div Radix] ELSE <<x>>]
    BY <1>3
  <2>2. QED BY ONLY <1>4, <2>1
<1>6. \A n : Encode(n) = E[n] BY <1>4 DEF Encode
<1>7. E[v] = IF v >= Radix THEN <<(v % Radix) + Radix>> \o E[v \div Radix] ELSE <<v>> BY <1>5
<1>8. QED BY <1>6, <1>7

\* One turn of the loop of readUint32 and readUint64 (bytearray.cpp:323-360).
LEMMA DecodedStep ==
  /\ Decoded(<<>>) = 0
  /\ \A a \in Octet, s \in Seq(Octet) : Decoded(<<a>> \o s) = (a % Radix) + Radix * Decoded(s)
<1> DEFINE rank == [t \in Codes |-> Len(t)]
           step == [t \in Codes |-> [f \in [Codes -> Nat] |->
                      IF t = <<>> THEN 0 ELSE (t[1] % Radix) + Radix * f[Tail(t)]]]
<1>0. ASSUME NEW t \in Codes, t # <<>>
      PROVE  Tail(t) \in Codes /\ Len(Tail(t)) < Len(t) /\ t[1] \in Octet
  BY <1>0 DEF Codes
<1>1. step \in [Codes -> [[Codes -> Nat] -> Nat]]
  <2>1. ASSUME NEW t \in Codes, NEW f \in [Codes -> Nat]
        PROVE  (IF t = <<>> THEN 0 ELSE (t[1] % Radix) + Radix * f[Tail(t)]) \in Nat
    <3>1. CASE t = <<>> BY <3>1
    <3>2. CASE t # <<>>
      <4>1. f[Tail(t)] \in Nat /\ t[1] \in Nat BY <1>0, <3>2, ByteArrayAssumption DEF Octet
      <4>2. (t[1] % Radix) \in Nat BY <4>1, Divided
      <4>3. PICK a \in Nat, c \in Nat : a = (t[1] % Radix) /\ c = f[Tail(t)] BY <4>1, <4>2
      <4>4. a + Radix * c \in Nat BY ByteArrayAssumption, SMT
      <4>5. QED BY <3>2, <4>3, <4>4
    <3>3. QED BY <3>1, <3>2
  <2>2. QED BY <2>1
<1>2. Lowers(Codes, Nat, rank, step)
  <2>1. ASSUME NEW t \in Codes, NEW f \in [Codes -> Nat], NEW g \in [Codes -> Nat],
               \A y \in Codes : rank[y] < rank[t] => f[y] = g[y]
        PROVE  step[t][f] = step[t][g]
    <3>1. t # <<>> => f[Tail(t)] = g[Tail(t)] BY <1>0, <2>1
    <3>2. QED BY <3>1
  <2>2. QED BY <2>1 DEF Lowers
<1>3. PICK f \in [Codes -> Nat] : \A t \in Codes : f[t] = step[t][f]
  <2>1. 0 \in Nat /\ rank \in [Codes -> Nat] BY DEF Codes
  <2> HIDE DEF rank, step
  <2>2. Solvable(Codes, Nat, step) BY <1>1, <1>2, <2>1, Recursion
  <2>3. QED BY <2>2 DEF Solvable
<1>4. PICK E : E = CHOOSE g : g = [t \in Codes |->
                 IF t = <<>> THEN 0 ELSE (t[1] % Radix) + Radix * g[Tail(t)]]
  OBVIOUS
<1>5. E = [t \in Codes |-> IF t = <<>> THEN 0 ELSE (t[1] % Radix) + Radix * E[Tail(t)]]
  <2>1. f = [t \in Codes |-> IF t = <<>> THEN 0 ELSE (t[1] % Radix) + Radix * f[Tail(t)]]
    BY <1>3
  <2>2. QED BY ONLY <1>4, <2>1
<1>6. \A s : Decoded(s) = E[s] BY <1>4 DEF Decoded, Codes
<1>7. E[<<>>] = 0
  <2>1. <<>> \in Codes BY DEF Codes
  <2>2. QED BY <1>5, <2>1
<1>8. ASSUME NEW a \in Octet, NEW s \in Seq(Octet) PROVE E[<<a>> \o s] = (a % Radix) + Radix * E[s]
  <2>1. PICK t : t = <<a>> \o s OBVIOUS
  <2>2. t \in Codes /\ t # <<>> /\ t[1] = a /\ Tail(t) = s BY <2>1 DEF Codes
  <2>3. QED BY <1>5, <2>1, <2>2
<1>9. QED BY <1>6, <1>7, <1>8

\* What the bytes of v are: all but the last have the high bit, they are no more
\* than the groups that v needs, and they decode to v.
Coded(v, s) ==
  /\ s \in Seq(Octet) /\ Len(s) > 0
  /\ \A i \in 1 .. Len(s) - 1 : s[i] >= Radix
  /\ s[Len(s)] < Radix
  /\ Decoded(s) = v
  /\ \A g \in Nat : v < Power(Radix, g + 1) => Len(s) <= g + 1

\* The high bit is not part of the value.
LEMMA LowDigit ==
  ASSUME NEW v \in Nat, v < Radix
  PROVE  (v % Radix) = v /\ ((v + Radix) % Radix) = v
BY ByteArrayAssumption, SMT

\* The loop ends, and with these bytes.
LEMMA EncodeCodes ==
  ASSUME NEW v \in Nat
  PROVE  Coded(v, Encode(v))
<1> DEFINE S == {n \in Nat : ~Coded(n, Encode(n))}
<1>0. Radix \in Nat /\ Radix >= 2 BY ByteArrayAssumption
<1>1. SUFFICES ASSUME S # {} PROVE FALSE OBVIOUS
<1>2. PICK m \in S : \A k \in S : m <= k BY <1>1, Least
<1>3. CASE m < Radix
  <2>1. PICK s : s = Encode(m) OBVIOUS
  <2>2. s = <<m>> /\ m \in Octet
    <3>1. m \in Nat /\ ~(m >= Radix) BY <1>0, <1>3
    <3>2. Encode(m) = <<m>> BY <3>1, EncodeStep
    <3>3. QED BY <1>0, <2>1, <3>1, <3>2 DEF Octet
  <2>3. s \in Seq(Octet) /\ Len(s) = 1 /\ s[1] = m BY <2>2
  <2>4. Decoded(s) = m
    <3>0. <<>> \in Seq(Octet) OBVIOUS
    <3>1. PICK e \in Seq(Octet) : e = <<>> BY <3>0
    <3>2. s = <<m>> \o e BY <2>2, <3>1
    <3>3. Decoded(s) = (m % Radix) + Radix * 0 BY <2>2, <3>1, <3>2, DecodedStep
    <3>4. (m % Radix) = m BY <1>3, LowDigit
    <3>5. QED BY <1>0, <3>3, <3>4
  <2>5. Coded(m, s) BY <1>3, <2>3, <2>4 DEF Coded
  <2>6. QED BY <2>1, <2>5
<1>4. CASE m >= Radix
  <2>1. PICK q, r : q = m \div Radix /\ r = m % Radix OBVIOUS
  <2>2. q \in Nat /\ r \in 0 .. Radix - 1 /\ m = Radix * q + r /\ q < m
    BY <1>4, <2>1, Divided
  <2>3. PICK s : s = Encode(q) OBVIOUS
  <2>4. Coded(q, s) BY <1>2, <2>2, <2>3
  <2>5. PICK a : a = r + Radix OBVIOUS
  <2>6. a \in Octet /\ a >= Radix BY <1>0, <2>2, <2>5 DEF Octet
  <2>7. PICK u : u = <<a>> \o s OBVIOUS
  <2>8. s \in Seq(Octet) /\ Len(s) \in Nat /\ Len(s) > 0 BY <2>4 DEF Coded
  <2>9. /\ u \in Seq(Octet) /\ Len(u) = Len(s) + 1 /\ u[1] = a
        /\ \A i \in 1 .. Len(s) : u[i + 1] = s[i]
    BY <2>6, <2>7, <2>8
  <2>10. \A i \in 1 .. Len(u) - 1 : u[i] >= Radix
    <3> SUFFICES ASSUME NEW i \in 1 .. Len(u) - 1 PROVE u[i] >= Radix OBVIOUS
    <3>1. CASE i = 1 BY <2>6, <2>9, <3>1
    <3>2. CASE i # 1
      <4>1. i - 1 \in 1 .. Len(s) - 1 /\ (i - 1) + 1 = i BY <2>8, <2>9, <3>2
      <4>2. PICK j \in 1 .. Len(s) : j = i - 1 /\ j + 1 = i BY <2>8, <4>1
      <4>4. u[j + 1] = s[j] BY ONLY <2>9, <4>2, j \in 1 .. Len(s)
      <4>3. QED BY <2>4, <4>1, <4>2, <4>4 DEF Coded
    <3>3. QED BY <3>1, <3>2
  <2>11. u[Len(u)] < Radix BY <2>4, <2>8, <2>9 DEF Coded
  <2>12. Decoded(u) = m
    <3>1. Decoded(u) = (a % Radix) + Radix * q
      <4>1. Decoded(u) = (a % Radix) + Radix * Decoded(s) BY <2>6, <2>7, <2>8, DecodedStep
      <4>2. QED BY <2>4, <4>1 DEF Coded
    <3>2. (a % Radix) = r
      <4>1. r \in Nat /\ r < Radix BY <1>0, <2>2
      <4>2. ((r + Radix) % Radix) = r BY <4>1, LowDigit
      <4>3. QED BY <2>5, <4>2
    <3>3. Radix * q \in Nat BY <1>0, <2>2, SMT
    <3>4. QED BY <2>2, <3>1, <3>2, <3>3
  <2>13. ASSUME NEW g \in Nat, m < Power(Radix, g + 1) PROVE Len(u) <= g + 1
    <3>0. Radix \in Nat \ {0} BY <1>0
    <3>1. g # 0
      <4>1. Power(Radix, 0 + 1) = Radix * 1 BY <3>0, PowerStep
      <4>2. QED BY <1>0, <1>4, <2>13, <4>1
    <3>2. PICK h \in Nat : g = h + 1
      <4>1. g - 1 \in Nat /\ g = (g - 1) + 1 BY <3>1
      <4>2. QED BY <4>1
    <3>3. PICK w \in Nat : w = Power(Radix, h + 1) BY <3>0, <3>2, PowerStep
    <3>4. Power(Radix, g + 1) = Radix * w BY <3>0, <3>2, <3>3, PowerStep
    <3>5. q < w
      <4> SUFFICES ASSUME w <= q PROVE FALSE BY <2>2, <3>3
      <4>1. Radix * w <= Radix * q BY <1>0, <2>2, SMT
      <4>2. Radix * w \in Nat /\ Radix * q \in Nat BY <1>0, <2>2, SMT
      <4>3. QED BY <2>2, <2>13, <3>4, <4>1, <4>2
    <3>6. Len(s) <= h + 1 BY <2>4, <3>3, <3>5 DEF Coded
    <3>7. QED BY <2>8, <2>9, <3>2, <3>6
  <2>14. Coded(m, u) BY <2>8, <2>9, <2>10, <2>11, <2>12, <2>13 DEF Coded
  <2>15. u = Encode(m) BY <1>4, <2>1, <2>3, <2>5, <2>7, EncodeStep
  <2>16. QED BY <2>14, <2>15
<1>5. QED BY <1>0, <1>3, <1>4

-----------------------------------------------------------------------------
(* What is written.                                                        *)

LEMMA StringType ==
  ASSUME NEW s \in Seq(Octet)
  PROVE  s \in Seq(Byte) /\ Len(s) \in Nat /\ (s # <<>> => Len(s) # 0)
<1>1. Octet \subseteq Byte
  BY DEF Byte
<1>2. PICK n \in Nat : s \in [1 .. n -> Octet] /\ Len(s) = n
  OBVIOUS
<1>3. s \in [1 .. n -> Byte]
  BY <1>1, <1>2
<1>4. s \in Seq(Byte)
  BY <1>3
<1> QED BY <1>4, EmptySeq

LEMMA StringsType == Strings \subseteq Seq(Octet)
<1> SUFFICES ASSUME NEW s \in Strings PROVE s \in Seq(Octet)
  OBVIOUS
<1>1. PICK n \in 0 .. MaxWrite : s \in [1 .. n -> Octet]
  BY DEF Strings
<1>2. n \in Nat
  BY ByteArrayAssumption
<1> QED BY <1>1, <1>2

\* The bytes of an integer are bytes.
LEMMA CodeType ==
  ASSUME NEW w \in Nat, NEW v \in Unsigned(w)
  PROVE  v \in Nat /\ Encode(v) \in Seq(Octet)
<1>1. v \in Nat
  BY DEF Unsigned
<1> QED BY <1>1, EncodeCodes DEF Coded

LEMMA MaxOfType ==
  ASSUME NEW a \in Nat, NEW b \in Nat
  PROVE  MaxOf(a, b) \in Nat /\ a <= MaxOf(a, b) /\ b <= MaxOf(a, b)
         /\ \A m \in Nat : a <= m /\ b <= m => MaxOf(a, b) <= m
BY DEF MaxOf

-----------------------------------------------------------------------------
(* One lemma for each operation.                                           *)

LEMMA WriteKeeps ==
  ASSUME Inv, NEW s \in Seq(Octet), Write(s)
  PROVE  Inv'
<1>1. s \in Seq(Byte) /\ Len(s) \in Nat /\ (s # <<>> => Len(s) # 0)
  BY StringType
<1>2. CASE s = <<>>
  BY <1>2 DEF Write, vars, Inv, TypeOK, BlockMatches, NoNullBlock, Capacity
<1>3. CASE s # <<>>
  <2> DEFINE n == Len(s)
             bs == Grown(n)
             c == CurGrown(n)
  <2>1. n \in Nat \ {0}
    BY <1>1, <1>3
  <2>2. /\ bs \in Seq(Block) /\ Len(bs) \in Nat /\ Len(bs) >= Len(blocks)
        /\ Len(blocks) * BlockSize <= Len(bs) * BlockSize
        /\ position + n <= Len(bs) * BlockSize
        /\ c = 1 + position \div BlockSize
    BY <2>1, Growth
  <2>3. /\ Len(blocks) \in Nat \ {0} /\ position \in Nat /\ size \in Nat
        /\ size <= Len(blocks) * BlockSize /\ position \div BlockSize \in Nat
    BY Basics, Split DEF Capacity
  <2>4. Len(blocks) * BlockSize \in Nat /\ Len(bs) * BlockSize \in Nat
    BY <2>2, <2>3, AtEnd
  <2> HIDE DEF bs, c, n
  <2>5. /\ Advance(c, n, bs) = Place(position + n, Len(bs))
        /\ BlockAt(c, n - 1) \in 1 .. Len(bs)
    <3>1. n - 1 \in 0 .. n - 1 /\ n \in Nat
      BY <2>1
    <3>2. /\ Advance(c, n, bs) = Place(position + n, Len(bs))
          /\ \A i \in 0 .. n - 1 : BlockAt(c, i) \in 1 .. Len(bs)
      BY <2>2, <2>3, <3>1, Loops
    <3> QED BY <3>1, <3>2
  <2>6. ~HitsNull(c, n, bs)
    BY <2>2, <2>3, <2>5 DEF HitsNull, Null
  <2>7. /\ blocks' = Filled(bs, c, s) /\ cur' = Advance(c, n, bs)
        /\ position' = position + n /\ size' = MaxOf(size, position + n)
        /\ UNCHANGED <<got, fault>>
    BY <1>3, <2>6 DEF Write, bs, c, n
  <2>8. blocks' \in Seq(Block) /\ Len(blocks') = Len(bs)
    <3>1. c \in Nat
      BY <2>2, <2>3
    <3> QED BY <1>1, <2>2, <2>3, <2>7, <3>1, FilledShape
  <2>9. /\ size' \in Nat /\ position' <= size' /\ size' <= Len(bs) * BlockSize
        /\ position' \in Nat
    BY <2>1, <2>2, <2>3, <2>4, <2>7, MaxOfType
  <2>10. got' \in Seq(Byte) /\ fault' \in {"none", "empty read"}
    BY <2>7 DEF Inv, TypeOK, NoNullBlock
  <2>11. Len(blocks') \in Nat \ {0} /\ cur' = Place(position', Len(blocks'))
    BY <2>2, <2>3, <2>5, <2>7, <2>8
  <2> QED BY <2>8, <2>9, <2>10, <2>11, Restore
<1> QED BY <1>2, <1>3

LEMMA TakeKeeps ==
  ASSUME Inv, NEW n \in Nat, n <= ReadableSize, Take(n)
  PROVE  Inv'
<1>1. /\ Len(blocks) \in Nat \ {0} /\ Capacity \in Nat
      /\ position \in Nat /\ size \in Nat /\ position + n <= size /\ size <= Capacity
      /\ cur = Place(position, Len(blocks)) /\ blocks \in Seq(Block)
  <2>1. blocks \in Seq(Block)
    BY DEF Inv, TypeOK
  <2>2. n <= size - position
    BY DEF ReadableSize
  <2> QED BY Basics, <2>1, <2>2
<1>2. got \in Seq(Byte) /\ fault \in {"none", "empty read"}
  BY DEF Inv, TypeOK, NoNullBlock
<1>3. CASE cur = Null
  <2>1. position = Capacity /\ n = 0
    <3>1. position \div BlockSize \in Nat
      BY <1>1, Split
    <3>2. position = Len(blocks) * BlockSize
      BY <1>1, <1>3, <3>1 DEF Place, Null
    <3> QED BY <1>1, <3>2 DEF Capacity
  <2>2. fault' = "empty read" /\ UNCHANGED <<blocks, cur, position, size, got>>
    BY <1>3, <2>1 DEF Take, HitsNull
  <2> QED BY <2>2 DEF Inv, TypeOK, BlockMatches, NoNullBlock, Capacity
<1>4. CASE cur # Null
  <2>1. cur = 1 + position \div BlockSize
    BY <1>1, <1>4 DEF Place
  <2>2. /\ Advance(cur, n, blocks) = Place(position + n, Len(blocks))
        /\ \A i \in 0 .. n - 1 : BlockAt(cur, i) \in 1 .. Len(blocks)
    <3>1. position + n <= Len(blocks) * BlockSize
      BY <1>1 DEF Capacity
    <3>2. Len(blocks) \in Nat
      BY <1>1
    <3> QED BY <1>1, <2>1, <3>1, <3>2, Loops
  <2>3. ~HitsNull(cur, n, blocks)
    <3>1. CASE n = 0 BY <1>4, <3>1 DEF HitsNull
    <3>2. CASE n # 0
      <4>1. BlockAt(cur, n - 1) \in 1 .. Len(blocks)
        BY <2>2, <3>2
      <4> QED BY <1>1, <1>4, <4>1 DEF HitsNull
    <3> QED BY <3>1, <3>2
  <2>4. /\ got' = Bytes(n) /\ position' = position + n
        /\ cur' = Advance(cur, n, blocks) /\ UNCHANGED <<blocks, size, fault>>
    BY <2>3 DEF Take
  <2>5. got' \in Seq(Byte)
    BY <1>1, <1>4, <2>4, BytesType
  <2>6. blocks' \in Seq(Block) /\ Len(blocks') \in Nat \ {0} /\ blocks' = blocks
    BY <1>1, <2>4
  <2>7. position' \in Nat /\ size' \in Nat /\ position' <= size'
    BY <1>1, <2>4
  <2>8. size' <= Len(blocks') * BlockSize
    BY <1>1, <2>4 DEF Capacity
  <2>9. cur' = Place(position', Len(blocks'))
    BY <2>2, <2>4
  <2>10. fault' \in {"none", "empty read"}
    BY <1>2, <2>4
  <2> QED BY <2>5, <2>6, <2>7, <2>8, <2>9, <2>10, Restore
<1> QED BY <1>3, <1>4

\* An integer is read from what is readable.
LEMMA UsedRange ==
  ASSUME NEW s, Len(s) \in Nat
  PROVE  Used(s) \in Nat /\ Used(s) <= Len(s)
<1> DEFINE U == {i \in 1 .. Len(s) : \A j \in 1 .. i - 1 : ~IsLast(s, j)}
<1>1. IsFiniteSet(1 .. Len(s)) /\ Cardinality(1 .. Len(s)) = Len(s)
  <2>1. 1 \in Int /\ Len(s) \in Int
    OBVIOUS
  <2>2. /\ IsFiniteSet(1 .. Len(s))
        /\ Cardinality(1 .. Len(s)) = IF 1 > Len(s) THEN 0 ELSE Len(s) - 1 + 1
    BY <2>1, FS_Interval
  <2> QED BY <2>2
<1>2. U \subseteq 1 .. Len(s)
  OBVIOUS
<1>3. Cardinality(U) <= Cardinality(1 .. Len(s)) /\ IsFiniteSet(U)
  BY <1>1, <1>2, FS_Subset, Zenon
<1>4. Cardinality(U) \in Nat
  BY <1>3, FS_CardinalityType
<1> QED BY <1>1, <1>3, <1>4 DEF Used

LEMMA SetPositionKeeps ==
  ASSUME Inv, NEW p \in Nat, SetPosition(p)
  PROVE  Inv'
<1>1. /\ Len(blocks) \in Nat \ {0} /\ Capacity \in Nat
      /\ position \in Nat /\ size \in Nat /\ size <= Capacity
  BY Basics
<1>4. /\ blocks \in Seq(Block) /\ got \in Seq(Byte)
      /\ fault \in {"none", "empty read"}
  BY DEF Inv, TypeOK, NoNullBlock
<1>2. CASE p > Capacity
  BY <1>2 DEF SetPosition, vars, Inv, TypeOK, BlockMatches, NoNullBlock, Capacity
<1>3. CASE p <= Capacity
  <2>1. /\ position' = p /\ size' = MaxOf(size, p) /\ cur' = Walk(p, blocks)
        /\ UNCHANGED <<blocks, got, fault>>
    <3>1. ~(p > Capacity)
      BY <1>1, <1>3
    <3> QED BY <3>1 DEF SetPosition
  <2>2. cur' = Place(p, Len(blocks))
    BY <1>1, <1>3, <2>1, Lookup DEF Walk, Capacity
  <2>3. size' \in Nat /\ p <= size' /\ size' <= Capacity
    BY <1>1, <1>3, <2>1, MaxOfType
  <2>4. blocks' \in Seq(Block) /\ Len(blocks') \in Nat \ {0}
    <3>1. blocks' = blocks
      BY <2>1
    <3> QED BY <1>1, <1>4, <3>1
  <2>5. position' \in Nat /\ position' <= size' /\ size' <= Len(blocks') * BlockSize
    BY <2>1, <2>3 DEF Capacity
  <2>6. cur' = Place(position', Len(blocks'))
    BY <2>1, <2>2
  <2>7. got' \in Seq(Byte) /\ fault' \in {"none", "empty read"}
    BY <1>4, <2>1
  <2> QED BY <2>3, <2>4, <2>5, <2>6, <2>7, Restore
<1> QED BY <1>1, <1>2, <1>3

LEMMA ClearKeeps ==
  ASSUME Inv, Clear
  PROVE  Inv'
<1>1. /\ blocks \in Seq(Block) /\ got \in Seq(Byte) /\ fault \in {"none", "empty read"}
  BY DEF Inv, TypeOK, NoNullBlock
<1>2. Len(blocks) \in Nat \ {0}
  BY Basics
<1>3. blocks[1] \in Block
  <2>1. 1 \in 1 .. Len(blocks)
    BY <1>2
  <2> QED BY <1>1, <2>1, ElementOfSeq
<1>4. <<blocks[1]>> \in Seq(Block) /\ Len(<<blocks[1]>>) = 1
  BY <1>3
<1>5. /\ blocks' = <<blocks[1]>> /\ cur' = 1 /\ position' = 0 /\ size' = 0
      /\ got' = got /\ fault' = fault
  BY DEF Clear
<1>6. 0 \div BlockSize = 0 /\ 1 * BlockSize \in Nat \ {0}
  BY ByteArrayAssumption
<1>7. cur' = Place(position', 1)
  BY <1>5, <1>6 DEF Place
<1>8. blocks' \in Seq(Block) /\ Len(blocks') = 1
  BY <1>4, <1>5, Zenon
<1>9. size' <= Len(blocks') * BlockSize /\ Len(blocks') \in Nat \ {0}
  BY <1>5, <1>6, <1>8
<1>10. cur' = Place(position', Len(blocks'))
  BY <1>7, <1>8
<1>11. got' \in Seq(Byte) /\ fault' \in {"none", "empty read"}
  BY <1>1, <1>5, Zenon
<1>12. position' \in Nat /\ size' \in Nat /\ position' <= size'
  BY <1>5
<1> QED BY <1>8, <1>9, <1>10, <1>11, <1>12, Restore

LEMMA ReceiveKeeps ==
  ASSUME Inv, NEW len \in Nat, NEW s \in Seq(Octet), Receive(len, s)
  PROVE  Inv'
<1> DEFINE bs == Grown(len)
           c == CurGrown(len)
<1>1. len \in Nat \ {0} /\ Len(s) <= len
  BY DEF Receive
<1>2. s \in Seq(Byte) /\ Len(s) \in Nat /\ (s # <<>> => Len(s) # 0)
  BY StringType
<1>3. /\ bs \in Seq(Block) /\ Len(bs) \in Nat /\ Len(bs) >= Len(blocks)
      /\ Len(blocks) * BlockSize <= Len(bs) * BlockSize
      /\ position + len <= Len(bs) * BlockSize
      /\ c = 1 + position \div BlockSize
  BY <1>1, Growth
<1>4. /\ Len(blocks) \in Nat \ {0} /\ position \in Nat /\ size \in Nat
      /\ position <= size
      /\ size <= Len(blocks) * BlockSize /\ position \div BlockSize \in Nat
  BY Basics, Split DEF Capacity
<1>5. Len(blocks) * BlockSize \in Nat /\ Len(bs) * BlockSize \in Nat
  BY <1>3, <1>4, AtEnd
<1> HIDE DEF bs, c
<1>6. BlockAt(c, len - 1) \in 1 .. Len(bs)
  <2>1. len - 1 \in 0 .. len - 1
    BY <1>1
  <2>2. \A i \in 0 .. len - 1 : BlockAt(c, i) \in 1 .. Len(bs)
    BY <1>1, <1>3, <1>4, Loops
  <2> QED BY <2>1, <2>2
<1>7. ~HitsNull(c, len, bs)
  BY <1>3, <1>4, <1>6 DEF HitsNull, Null
<1>8. /\ blocks' = Filled(bs, c, s)
      /\ cur' = IF s = <<>> THEN c ELSE Walk(position + Len(s), bs)
      /\ position' = position + Len(s)
      /\ size' = IF s = <<>> THEN size ELSE MaxOf(size, position + Len(s))
      /\ UNCHANGED <<got, fault>>
  BY <1>7 DEF Receive, bs, c
<1>9. blocks' \in Seq(Block) /\ Len(blocks') = Len(bs)
  <2>1. c \in Nat
    BY <1>3, <1>4
  <2> QED BY <1>2, <1>3, <1>4, <1>8, <2>1, FilledShape
<1>10. /\ position' \in Nat /\ position' < Len(bs) * BlockSize + 1
       /\ (s = <<>> => position' = position)
  <2>1. s = <<>> => Len(s) = 0
    OBVIOUS
  <2> QED BY <1>1, <1>2, <1>3, <1>4, <1>5, <1>8, <2>1
<1>11. size' \in Nat /\ position' <= size' /\ size' <= Len(bs) * BlockSize
  <2>1. CASE s = <<>>
    BY <1>3, <1>4, <1>5, <1>8, <1>10, <2>1
  <2>2. CASE s # <<>>
    <3>1. size' = MaxOf(size, position')
      BY <1>8, <2>2
    <3> QED BY <1>3, <1>4, <1>5, <1>10, <3>1, MaxOfType
  <2> QED BY <2>1, <2>2
<1>12. cur' = Place(position', Len(bs))
  <2>1. CASE s = <<>>
    <3>1. position' # Len(bs) * BlockSize
      BY <1>1, <1>3, <1>4, <1>5, <1>10, <2>1
    <3> QED BY <1>3, <1>8, <1>10, <2>1, <3>1 DEF Place
  <2>2. CASE s # <<>>
    <3>1. cur' = Existing(1 + position' \div BlockSize, bs)
      BY <1>8, <2>2 DEF Walk
    <3>2. position' <= Len(bs) * BlockSize
      BY <1>5, <1>10
    <3> QED BY <1>3, <1>10, <3>1, <3>2, Lookup
  <2> QED BY <2>1, <2>2
<1>13. Len(blocks') \in Nat \ {0} /\ cur' = Place(position', Len(blocks'))
       /\ size' <= Len(blocks') * BlockSize
  <2>1. Len(bs) \in Nat \ {0}
    BY <1>3, <1>4
  <2> QED BY <1>9, <1>11, <1>12, <2>1
<1>14. got' \in Seq(Byte) /\ fault' \in {"none", "empty read"}
  BY <1>8 DEF Inv, TypeOK, NoNullBlock
<1> QED BY <1>9, <1>10, <1>11, <1>13, <1>14, Restore

\* Deliver leaves the same block by setPosition as Take by its loop.
LEMMA DeliverTakes ==
  ASSUME Inv, NEW n \in Nat, Deliver(n)
  PROVE  n <= ReadableSize /\ Take(n)
<1>1. n <= ReadableSize /\ n > 0
  BY DEF Deliver
<1>2. /\ Len(blocks) \in Nat \ {0} /\ Capacity \in Nat
      /\ position \in Nat /\ size \in Nat /\ position + n <= size /\ size <= Capacity
      /\ cur = Place(position, Len(blocks))
  <2>1. n <= size - position
    BY <1>1 DEF ReadableSize
  <2> QED BY Basics, <2>1
<1>3. /\ Existing(1 + (position + n) \div BlockSize, blocks)
           = Place(position + n, Len(blocks))
      /\ cur = 1 + position \div BlockSize
  <2>1. position + n <= Len(blocks) * BlockSize /\ position # Len(blocks) * BlockSize
        /\ position + n \in Nat /\ Len(blocks) \in Nat
    BY <1>1, <1>2 DEF Capacity
  <2> QED BY <1>2, <2>1, Lookup DEF Place
<1>4. Advance(cur, n, blocks) = Walk(position + n, blocks)
  <2>1. position + n <= Len(blocks) * BlockSize
    BY <1>2 DEF Capacity
  <2>2. Len(blocks) \in Nat
    BY <1>2
  <2>3. Advance(cur, n, blocks) = Place(position + n, Len(blocks))
    BY <1>2, <1>3, <2>1, <2>2, Loops
  <2> QED BY <1>3, <2>3 DEF Walk
<1>5. CASE HitsNull(cur, n, blocks)
  BY <1>1, <1>5 DEF Deliver, Take
<1>6. CASE ~HitsNull(cur, n, blocks)
  BY <1>1, <1>4, <1>6 DEF Deliver, Take
<1> QED BY <1>1, <1>5, <1>6

\* So does reading an integer, of as many bytes as it has.
LEMMA ReadUintTakes ==
  ASSUME Inv, ReadUint
  PROVE  \E n \in Nat : n <= ReadableSize /\ Take(n)
<1> DEFINE r == Bytes(ReadableSize)
<1>1. ReadableSize \in Nat /\ Take(Used(r))
  BY Basics DEF ReadUint, ReadableSize
<1>2. Len(r) = ReadableSize
  BY <1>1 DEF Bytes
<1> HIDE DEF r
<1>3. Used(r) \in Nat /\ Used(r) <= ReadableSize
  BY <1>1, <1>2, UsedRange
<1> QED BY <1>1, <1>3

LEMMA ReadTakes ==
  ASSUME Inv, NEW n \in Nat, Read(n)
  PROVE  UNCHANGED vars \/ (n <= ReadableSize /\ Take(n))
<1>1. ReadableSize \in Int
  BY Basics DEF ReadableSize
<1> QED BY <1>1 DEF Read

-----------------------------------------------------------------------------
(* The theorem.                                                            *)

LEMMA InitInv == Init => Inv
<1> SUFFICES ASSUME Init PROVE Inv
  OBVIOUS
<1>1. NewBlock \in Block
  BY DEF NewBlock, Block, Byte
<1>2. blocks = <<NewBlock>> /\ blocks \in Seq(Block) /\ Len(blocks) = 1
  BY <1>1 DEF Init
<1>3. Capacity = BlockSize /\ BlockSize \in Nat \ {0} /\ 0 \div BlockSize = 0
  BY <1>2, ByteArrayAssumption DEF Capacity
<1>4. cur = 1 /\ position = 0 /\ size = 0 /\ got = <<>> /\ fault = "none"
  BY DEF Init
<1>5. TypeOK
  BY <1>2, <1>3, <1>4, EmptySeq DEF TypeOK
<1>6. BlockMatches
  BY <1>3, <1>4 DEF BlockMatches
<1> QED BY <1>4, <1>5, <1>6 DEF Inv, NoNullBlock

LEMMA StepInv == Inv /\ [Next]_vars => Inv'
<1> SUFFICES ASSUME Inv, [Next]_vars PROVE Inv'
  OBVIOUS
<1>0. CASE UNCHANGED vars
  BY <1>0 DEF vars, Inv, TypeOK, BlockMatches, NoNullBlock, Capacity
<1>1. CASE \E s \in Strings : Write(s)
  BY <1>1, WriteKeeps, StringsType
<1>2. ASSUME NEW n \in 0 .. MaxWrite, Read(n) PROVE Inv'
  <2>1. n \in Nat
    BY ByteArrayAssumption
  <2> QED BY <1>0, <1>2, <2>1, ReadTakes, TakeKeeps
<1>3. ASSUME NEW p \in 0 .. MaxBlocks * BlockSize, SetPosition(p) PROVE Inv'
  <2>1. p \in Nat
    BY ByteArrayAssumption
  <2> QED BY <1>3, <2>1, SetPositionKeeps
<1>4. CASE Clear
  BY <1>4, ClearKeeps
<1>5. ASSUME NEW v \in Unsigned(Wide), WriteUint(v) PROVE Inv'
  BY <1>5, WriteKeeps, CodeType, ByteArrayAssumption DEF WriteUint
<1>6. CASE ReadUint
  BY <1>6, ReadUintTakes, TakeKeeps
<1>7. ASSUME NEW s \in Strings, NEW len \in 1 .. MaxWrite, Receive(len, s) PROVE Inv'
  <2>1. len \in Nat
    BY ByteArrayAssumption
  <2> QED BY <1>7, <2>1, ReceiveKeeps, StringsType
<1>8. ASSUME NEW n \in 1 .. MaxWrite, Deliver(n) PROVE Inv'
  <2>1. n \in Nat
    BY ByteArrayAssumption
  <2> QED BY <1>8, <2>1, DeliverTakes, TakeKeeps
<1> QED BY <1>0, <1>1, <1>2, <1>3, <1>4, <1>5, <1>6, <1>7, <1>8 DEF Next

\* For every block size: after any sequence of writes, reads, moves, integers
\* and received or sent bytes the current block is the one the position is in,
\* and only the empty read at the end of the last block meets a null block.
THEOREM BlockFollowsPosition == Spec => [](BlockMatches /\ NoNullBlock)
<1>1. Inv => BlockMatches /\ NoNullBlock
  BY DEF Inv
<1> QED BY InitInv, StepInv, <1>1, PTL DEF Spec

-----------------------------------------------------------------------------
(* The bytes of the chain, numbered from 0, and the sequence they are.     *)

Cell(bs, j) == bs[1 + j \div BlockSize][j % BlockSize]
Data(bs, z) == [i \in 1 .. z |-> Cell(bs, i - 1)]

LEMMA CellType ==
  ASSUME NEW bs \in Seq(Block), NEW j \in Nat, j < Len(bs) * BlockSize
  PROVE  /\ 1 + j \div BlockSize \in 1 .. Len(bs)
         /\ (j % BlockSize) \in 0 .. BlockSize - 1
         /\ Cell(bs, j) \in Byte
<1>1. Len(bs) \in Nat
  OBVIOUS
<1>2. j \div BlockSize \in 0 .. Len(bs) - 1
  BY <1>1, Inside
<1>3. (j % BlockSize) \in 0 .. BlockSize - 1
  BY Split
<1>4. 1 + j \div BlockSize \in 1 .. Len(bs)
  BY <1>1, <1>2
<1>5. bs[1 + j \div BlockSize] \in Block
  BY <1>4
<1> QED BY <1>3, <1>4, <1>5 DEF Cell, Block

LEMMA DataType ==
  ASSUME NEW bs \in Seq(Block), NEW z \in Nat, z <= Len(bs) * BlockSize
  PROVE  /\ Data(bs, z) \in Seq(Byte) /\ Len(Data(bs, z)) = z
         /\ \A i \in 1 .. z : Data(bs, z)[i] = Cell(bs, i - 1)
<1>1. Len(bs) \in Nat
  OBVIOUS
<1>2. Len(bs) * BlockSize \in Nat
  BY <1>1, AtEnd
<1>3. \A i \in 1 .. z : Cell(bs, i - 1) \in Byte
  BY <1>2, CellType
<1> QED BY <1>3 DEF Data

\* The offset of a copying loop, as Onward says of its block.
LEMMA OnwardOffset ==
  ASSUME NEW p \in Nat, NEW i \in Nat
  PROVE  (((p % BlockSize) + i) % BlockSize) = ((p + i) % BlockSize)
<1> DEFINE q == p \div BlockSize
           r == p % BlockSize
           d == (r + i) \div BlockSize
           e == (r + i) % BlockSize
<1>1. q \in Nat /\ r \in 0 .. BlockSize - 1 /\ p = BlockSize * q + r
  BY Split
<1>2. r + i \in Nat
  BY <1>1, ByteArrayAssumption
<1>3. d \in Nat /\ e \in 0 .. BlockSize - 1 /\ r + i = BlockSize * d + e
  BY <1>2, Split
<1>4. BlockSize * (q + d) = BlockSize * q + BlockSize * d
      /\ BlockSize * q \in Nat /\ BlockSize * d \in Nat
  BY <1>1, <1>3, Distributes
<1>5. e \in Nat /\ e < BlockSize /\ q + d \in Nat
  BY <1>1, <1>3, ByteArrayAssumption
<1> HIDE DEF q, r, d, e
<1>6. p + i = BlockSize * (q + d) + e
  BY <1>1, <1>3, <1>4, <1>5, ByteArrayAssumption
<1>7. ((p + i) % BlockSize) = e
  BY <1>5, <1>6, SplitUnique
<1> QED BY <1>7 DEF r, e

\* The copying loops visit the bytes one after the other.
LEMMA LoopCells ==
  ASSUME position \in Nat, NEW i \in Nat, NEW c, c = 1 + position \div BlockSize, NEW bs
  PROVE  bs[BlockAt(c, i)][OffsetAt(i)] = Cell(bs, position + i)
<1>1. /\ position \div BlockSize + ((position % BlockSize) + i) \div BlockSize
           = (position + i) \div BlockSize
      /\ (((position % BlockSize) + i) % BlockSize) = ((position + i) % BlockSize)
  BY Onward, OnwardOffset
<1>2. /\ position \div BlockSize \in Nat /\ (position + i) \div BlockSize \in Nat
      /\ ((position % BlockSize) + i) \div BlockSize \in Nat
  <2>1. (position % BlockSize) \in 0 .. BlockSize - 1
    BY Split
  <2>2. (position % BlockSize) + i \in Nat /\ position + i \in Nat
    BY <2>1, ByteArrayAssumption
  <2> QED BY <2>2, Split
<1>3. BlockAt(c, i) = 1 + (position + i) \div BlockSize
  BY <1>1, <1>2 DEF BlockAt, Npos
<1> QED BY <1>1, <1>3 DEF Cell, OffsetAt, Npos

\* What is copied into the chain from the position on is s, and nothing else
\* changes.
LEMMA FilledCells ==
  ASSUME NEW bs \in Seq(Block), NEW s \in Seq(Byte), position \in Nat,
         NEW c, c = 1 + position \div BlockSize,
         NEW j \in Nat, j < Len(bs) * BlockSize
  PROVE  Cell(Filled(bs, c, s), j)
           = IF position <= j /\ j < position + Len(s) THEN s[j - position + 1]
             ELSE Cell(bs, j)
<1> DEFINE k == 1 + j \div BlockSize
           o == j % BlockSize
           i == (k - c) * BlockSize + o + 1
<1>1. /\ k \in 1 .. Len(bs) /\ o \in 0 .. BlockSize - 1
      /\ Len(s) \in Nat
  BY CellType
<1>2. /\ j \div BlockSize \in Nat /\ j = BlockSize * (j \div BlockSize) + o
      /\ position \div BlockSize \in Nat
      /\ position = BlockSize * (position \div BlockSize) + Npos
      /\ Npos \in Nat /\ o \in Nat
  <2>1. /\ j \div BlockSize \in Nat /\ o \in 0 .. BlockSize - 1
        /\ j = BlockSize * (j \div BlockSize) + o
    BY Split
  <2>2. /\ position \div BlockSize \in Nat /\ Npos \in 0 .. BlockSize - 1
        /\ position = BlockSize * (position \div BlockSize) + Npos
    BY Split DEF Npos
  <2> HIDE DEF o, k
  <2>3. Npos \in Nat /\ o \in Nat
    BY <2>1, <2>2, ByteArrayAssumption
  <2> QED BY <2>1, <2>2, <2>3
<1>3. i - Npos = j - position + 1 /\ i \in Int
  <2> DEFINE a == j \div BlockSize
             b == position \div BlockSize
  <2>1. (k - c) * BlockSize = BlockSize * a - BlockSize * b
        /\ BlockSize * a \in Nat /\ BlockSize * b \in Nat
    <3>1. k - c = a - b /\ a \in Nat /\ b \in Nat
      BY <1>2
    <3> HIDE DEF a, b, k
    <3>2. BlockSize * a \in Nat /\ BlockSize * b \in Nat
      BY <3>1, Distributes
    <3>3. (a - b) * BlockSize = BlockSize * a - BlockSize * b
      BY <3>1, ByteArrayAssumption, SMTT(30)
    <3> QED BY <3>1, <3>2, <3>3
  <2>2. /\ j = BlockSize * a + o /\ position = BlockSize * b + Npos
        /\ Npos \in Nat /\ o \in Nat
    BY <1>2
  <2>3. i = (k - c) * BlockSize + o + 1
    OBVIOUS
  <2> HIDE DEF a, b, k, o, i
  <2> DEFINE x == (k - c) * BlockSize
             y == BlockSize * a
             z == BlockSize * b
  <2>4. x = y - z /\ y \in Nat /\ z \in Nat /\ j = y + o /\ position = z + Npos
        /\ i = x + o + 1
    BY <2>1, <2>2, <2>3
  <2> HIDE DEF x, y, z
  <2>5. Npos \in Nat /\ o \in Nat
    BY <2>2
  <2> QED BY ONLY <2>4, <2>5
<1>4. Cell(Filled(bs, c, s), j)
        = IF i > Npos /\ i <= Npos + Len(s) THEN s[i - Npos] ELSE bs[k][o]
  BY <1>1 DEF Filled, Cell
<1>5. Cell(bs, j) = bs[k][o]
  BY DEF Cell
<1> HIDE DEF i, k, o
<1>6. (i > Npos /\ i <= Npos + Len(s)) <=> (position <= j /\ j < position + Len(s))
  BY <1>1, <1>2, <1>3
<1> QED BY <1>3, <1>4, <1>5, <1>6

LEMMA GrowthCount ==
  ASSUME Inv, NEW n \in Nat \ {0}
  PROVE  NewBlocks(n) \in Nat
<1>1. WritableCapacity \in Nat
  BY Basics DEF WritableCapacity
<1>2. CASE WritableCapacity >= n
  BY <1>2 DEF NewBlocks
<1>3. CASE WritableCapacity < n
  <2>1. n - WritableCapacity \in Nat \ {0}
    BY <1>1, <1>3
  <2> QED BY <1>1, <1>3, <2>1, RoundUp DEF NewBlocks
<1> QED BY <1>1, <1>2, <1>3

\* addCapacity does not touch what is there.
LEMMA GrownCells ==
  ASSUME Inv, NEW n \in Nat \ {0}, NEW j \in Nat, j < Len(blocks) * BlockSize
  PROVE  Cell(Grown(n), j) = Cell(blocks, j)
<1>1. blocks \in Seq(Block)
  BY DEF Inv, TypeOK
<1>2. 1 + j \div BlockSize \in 1 .. Len(blocks)
  BY <1>1, CellType
<1>3. Grown(n)[1 + j \div BlockSize] = blocks[1 + j \div BlockSize]
  <2> DEFINE m == 1 + j \div BlockSize
  <2>1. m \in 1 .. Len(blocks)
    BY <1>2
  <2> HIDE DEF m
  <2>2. Len(Grown(n)) \in Nat /\ Len(Grown(n)) >= Len(blocks) /\ Len(blocks) \in Nat
    BY Growth, <1>1
  <2>3. Grown(n)[m] = blocks[m]
    <3>1. NewBlocks(n) \in Nat
      BY GrowthCount
    <3>2. NewBlock \in Block
      BY DEF NewBlock, Block, Byte
    <3>3. [i \in 1 .. NewBlocks(n) |-> NewBlock] \in Seq(Block)
      BY <3>1, <3>2
    <3> DEFINE new == [i \in 1 .. NewBlocks(n) |-> NewBlock]
    <3>4. Grown(n) = blocks \o new /\ new \in Seq(Block)
      BY <3>3 DEF Grown
    <3>0. Len(new) \in Nat
      BY <3>4, LenProperties
    <3> HIDE DEF new
    <3>5. m \in 1 .. Len(blocks) + Len(new) /\ m <= Len(blocks)
      BY <2>1, <2>2, <3>0
    <3> QED BY <1>1, <3>4, <3>5, ConcatProperties
  <2> QED BY <2>3 DEF m
<1> QED BY <1>3 DEF Cell

-----------------------------------------------------------------------------
(* The steps of ByteSeq, in terms of the bytes before and after.           *)

\* e is d but for what is behind p and up to q, and long enough to hold that.
Overwrites(d, e, p, q) ==
  /\ p < q /\ p <= Len(d) /\ q <= Len(e)
  /\ Len(e) = MaxOf(Len(d), q)
  /\ \A i \in 1 .. Len(e) : i <= p \/ i > q => e[i] = d[i]

\* e as Put of ByteSeq makes it from d.
IsPut(d, e, p, q) ==
  LET s == SubSeq(e, p + 1, q) IN
    /\ q > p /\ Len(e) >= q /\ q = p + Len(s)
    /\ e = SubSeq(d, 1, p) \o s \o SubSeq(d, p + Len(s) + 1, Len(d))

LEMMA Joined ==
  ASSUME NEW a \in Seq(Byte), NEW b \in Seq(Byte), NEW n \in Nat, Len(a) = n
  PROVE  /\ a \o b \in Seq(Byte) /\ Len(a \o b) = n + Len(b)
         /\ \A i \in 1 .. n + Len(b) :
              (a \o b)[i] = IF i <= n THEN a[i] ELSE b[i - n]
BY ConcatProperties

LEMMA Overwritten ==
  ASSUME NEW d \in Seq(Byte), NEW e \in Seq(Byte), NEW p \in Nat, NEW q \in Nat,
         Overwrites(d, e, p, q)
  PROVE  IsPut(d, e, p, q)
<1> DEFINE a == SubSeq(d, 1, p)
           b == SubSeq(e, p + 1, q)
           z == SubSeq(d, q + 1, Len(d))
<1>0. /\ Len(d) \in Nat /\ Len(e) \in Nat
      /\ p < q /\ p <= Len(d) /\ q <= Len(e)
      /\ Len(e) = IF Len(d) > q THEN Len(d) ELSE q
      /\ \A i \in 1 .. Len(e) : i <= p \/ i > q => e[i] = d[i]
  BY DEF Overwrites, MaxOf
<1>1. /\ a \in Seq(Byte) /\ Len(a) = p /\ \A i \in 1 .. p : a[i] = d[i]
  <2>1. \A i \in 1 .. p : d[i] \in Byte
    BY <1>0
  <2> QED BY <2>1, SubSeqProperties
<1>2. /\ b \in Seq(Byte) /\ Len(b) = q - p /\ \A i \in 1 .. q - p : b[i] = e[p + i]
  <2>1. \A i \in p + 1 .. q : e[i] \in Byte
    BY <1>0
  <2>2. /\ b \in Seq(Byte) /\ Len(b) = IF p + 1 <= q THEN q - (p + 1) + 1 ELSE 0
        /\ \A i \in 1 .. q - (p + 1) + 1 : b[i] = e[p + 1 + i - 1]
    BY <1>0, <2>1, SubSeqProperties
  <2> HIDE DEF b
  <2> QED BY <1>0, <2>2, SMTT(20)
<1>3. /\ z \in Seq(Byte) /\ Len(z) = IF q < Len(d) THEN Len(d) - q ELSE 0
      /\ \A i \in 1 .. Len(d) - q : z[i] = d[q + i]
  <2>1. \A i \in q + 1 .. Len(d) : d[i] \in Byte
    BY <1>0
  <2>2. /\ z \in Seq(Byte)
        /\ Len(z) = IF q + 1 <= Len(d) THEN Len(d) - (q + 1) + 1 ELSE 0
        /\ \A i \in 1 .. Len(d) - (q + 1) + 1 : z[i] = d[q + 1 + i - 1]
    BY <1>0, <2>1, SubSeqProperties
  <2> HIDE DEF z
  <2> QED BY <1>0, <2>2
<1> HIDE DEF a, b, z
<1> DEFINE ab == a \o b
<1>4. /\ ab \in Seq(Byte) /\ Len(ab) = q
      /\ \A i \in 1 .. q : ab[i] = IF i <= p THEN a[i] ELSE b[i - p]
  <2>1. /\ a \o b \in Seq(Byte) /\ Len(a \o b) = p + Len(b)
        /\ \A i \in 1 .. p + Len(b) : (a \o b)[i] = IF i <= p THEN a[i] ELSE b[i - p]
    BY <1>1, <1>2, Joined
  <2>2. p + Len(b) = q
    BY <1>0, <1>2
  <2> QED BY <2>1, <2>2
<1> HIDE DEF ab
<1>5. /\ ab \o z \in Seq(Byte) /\ Len(ab \o z) = q + Len(z)
      /\ \A i \in 1 .. q + Len(z) : (ab \o z)[i] = IF i <= q THEN ab[i] ELSE z[i - q]
  BY <1>3, <1>4, Joined
<1>6. Len(ab \o z) = Len(e)
  BY <1>0, <1>3, <1>5
<1>7. ASSUME NEW i \in 1 .. Len(e) PROVE e[i] = (ab \o z)[i]
  <2>1. CASE i <= p
    <3>1. (ab \o z)[i] = ab[i] /\ ab[i] = a[i] /\ a[i] = d[i]
      BY <1>0, <1>1, <1>4, <1>5, <1>6, <2>1
    <3> QED BY <1>0, <2>1, <3>1
  <2>2. CASE i > p /\ i <= q
    <3>1. (ab \o z)[i] = ab[i] /\ ab[i] = b[i - p]
      BY <1>0, <1>4, <1>5, <1>6, <2>2
    <3>2. i - p \in 1 .. q - p /\ p + (i - p) = i
      BY <2>2
    <3>3. b[i - p] = e[p + (i - p)]
      BY <1>2, <3>2
    <3> QED BY <3>1, <3>2, <3>3
  <2>3. CASE i > q
    <3>1. (ab \o z)[i] = z[i - q]
      BY <1>0, <1>5, <1>6, <2>3
    <3>2. i - q \in 1 .. Len(d) - q /\ q + (i - q) = i
      BY <1>0, <2>3
    <3>3. z[i - q] = d[q + (i - q)]
      BY <1>3, <3>2
    <3> QED BY <1>0, <2>3, <3>1, <3>2, <3>3
  <2>4. i <= p \/ (i > p /\ i <= q) \/ i > q
    BY <1>0
  <2> QED BY <2>1, <2>2, <2>3, <2>4, Zenon
<1>8. e = ab \o z
  BY <1>5, <1>6, <1>7, SeqEqual
<1>9. q > p /\ Len(e) >= q /\ q = p + Len(b)
  BY <1>0, <1>2
<1>10. e = a \o b \o SubSeq(d, p + Len(b) + 1, Len(d))
  <2>1. e = a \o b \o SubSeq(d, q + 1, Len(d))
    BY <1>8, Zenon DEF ab, z
  <2> QED BY <1>9, <2>1, Zenon
<1> QED BY <1>9, <1>10 DEF IsPut, a, b

LEMMA WritesSeen ==
  ASSUME NEW d \in Seq(Byte), d = Data(blocks, size),
         NEW e \in Seq(Byte), e = Data(blocks', size'),
         NEW p \in Nat, p = position, NEW q \in Nat, q = position',
         Overwrites(d, e, p, q), got' = got
  PROVE  Abstract!Next
<1>1. IsPut(d, e, p, q)
  BY Overwritten
<1>2. IsPut(Data(blocks, size), Data(blocks', size'), position, position')
  BY <1>1, Zenon
<1>3. Abstract!Writes
  BY <1>2, Zenon DEF IsPut, Abstract!Writes, Abstract!Put, Data, Cell
<1> QED BY <1>3 DEF Abstract!Next

LEMMA GetSeen ==
  ASSUME NEW d \in Seq(Byte), d = Data(blocks, size), UNCHANGED <<blocks, size>>,
         NEW n \in Nat, position \in Nat, position' = position + n,
         position + n <= Len(d), got' \in Seq(Byte), Len(got') = n,
         \A i \in 1 .. n : got'[i] = d[position + i]
  PROVE  Abstract!Next
<1> DEFINE g == SubSeq(d, position + 1, position + n)
<1>1. \A i \in position + 1 .. position + n : d[i] \in Byte
  OBVIOUS
<1>2. /\ g \in Seq(Byte)
      /\ Len(g) = IF position + 1 <= position + n
                  THEN position + n - (position + 1) + 1 ELSE 0
      /\ \A i \in 1 .. position + n - (position + 1) + 1 :
           g[i] = d[position + 1 + i - 1]
  BY <1>1, SubSeqProperties
<1> HIDE DEF g
<1>3. Len(g) = n /\ \A i \in 1 .. n : g[i] = d[position + i]
  BY <1>2
<1>4. got' = g
  BY <1>2, <1>3, SeqEqual
<1>5. position' - position = n /\ position' >= position
  OBVIOUS
<1>6. Abstract!Get(n)
  BY <1>4 DEF Abstract!Get, Data, Cell, g
<1>7. Abstract!Get(position' - position)
  BY <1>5, <1>6
<1> QED BY <1>5, <1>7 DEF Abstract!Next

LEMMA SeekSeen ==
  ASSUME NEW d \in Seq(Byte), d = Data(blocks, size),
         NEW e \in Seq(Byte), e = Data(blocks', size'), got' = got,
         position' \in Nat,
         Len(e) = IF position' > Len(d) THEN position' ELSE Len(d),
         \A i \in 1 .. Len(d) : e[i] = d[i]
  PROVE  Abstract!Next
<1> DEFINE g == SubSeq(e, 1, Len(d))
<1>1. Len(d) \in Nat /\ Len(e) \in Nat /\ Len(d) <= Len(e)
  OBVIOUS
<1>2. \A i \in 1 .. Len(d) : e[i] \in Byte
  BY <1>1
<1>3. /\ g \in Seq(Byte) /\ Len(g) = IF 1 <= Len(d) THEN Len(d) - 1 + 1 ELSE 0
      /\ \A i \in 1 .. Len(d) - 1 + 1 : g[i] = e[1 + i - 1]
  BY <1>1, <1>2, SubSeqProperties
<1> HIDE DEF g
<1>4. Len(g) = Len(d) /\ \A i \in 1 .. Len(g) : g[i] = d[i]
  BY <1>1, <1>3
<1>5. g = d
  BY <1>3, <1>4, SeqEqual
<1>6. Abstract!Seek(position')
  BY <1>5 DEF Abstract!Seek, Data, Cell, g
<1> QED BY <1>6 DEF Abstract!Next

\* What ByteSeq does not see.
LEMMA StutterSeen ==
  ASSUME Data(blocks', size') = Data(blocks, size), UNCHANGED <<position, got>>
  PROVE  UNCHANGED Abstract!vars
BY DEF Abstract!vars, Data, Cell

-----------------------------------------------------------------------------
(* What the operations of ByteArray are to ByteSeq.                        *)

\* The bytes before a step.
LEMMA DataNow ==
  ASSUME Inv
  PROVE  /\ Data(blocks, size) \in Seq(Byte) /\ Len(Data(blocks, size)) = size
         /\ \A i \in 1 .. size : Data(blocks, size)[i] = Cell(blocks, i - 1)
         /\ blocks \in Seq(Block) /\ size \in Nat /\ size <= Len(blocks) * BlockSize
<1>1. blocks \in Seq(Block)
  BY DEF Inv, TypeOK
<1>2. size \in Nat /\ size <= Len(blocks) * BlockSize
  BY Basics DEF Capacity
<1> QED BY <1>1, <1>2, DataType

\* Filling the grown chain from the position on, as Write and Receive do.
LEMMA FillSeen ==
  ASSUME Inv, NEW n \in Nat \ {0}, NEW s \in Seq(Byte), Len(s) <= n,
         blocks' = Filled(Grown(n), CurGrown(n), s),
         position' = position + Len(s),
         size' = IF s = <<>> THEN size ELSE MaxOf(size, position + Len(s)),
         got' = got
  PROVE  Abstract!Next \/ UNCHANGED Abstract!vars
<1> DEFINE bs == Grown(n)
           c == CurGrown(n)
           d == Data(blocks, size)
           e == Data(blocks', size')
<1>1. /\ bs \in Seq(Block) /\ Len(bs) \in Nat /\ Len(bs) >= Len(blocks)
      /\ Len(blocks) * BlockSize <= Len(bs) * BlockSize
      /\ position + n <= Len(bs) * BlockSize
      /\ c = 1 + position \div BlockSize
  BY Growth
<1>2. /\ Len(blocks) \in Nat \ {0} /\ position \in Nat /\ size \in Nat
      /\ position <= size /\ size <= Len(blocks) * BlockSize
      /\ position \div BlockSize \in Nat /\ Len(s) \in Nat
  BY Basics, Split, LenProperties DEF Capacity
<1>3. Len(blocks) * BlockSize \in Nat /\ Len(bs) * BlockSize \in Nat
  BY <1>1, <1>2, AtEnd
<1>4. /\ d \in Seq(Byte) /\ Len(d) = size
      /\ \A i \in 1 .. size : d[i] = Cell(blocks, i - 1)
  BY DataNow
<1>5. ASSUME NEW j \in Nat, j < size PROVE Cell(bs, j) = Cell(blocks, j)
  BY <1>2, <1>3, <1>5, GrownCells
<1>6. s = <<>> \/ Len(s) # 0
  BY EmptySeq
<1> HIDE DEF bs, c
<1>7. blocks' = Filled(bs, c, s)
  BY DEF bs, c
<1>8. blocks' \in Seq(Block) /\ Len(blocks') = Len(bs)
  <2>1. c \in Nat
    BY <1>1, <1>2
  <2> QED BY <1>1, <1>2, <1>7, <2>1, FilledShape
<1>9. size' \in Nat /\ size' <= Len(blocks') * BlockSize
  <2>1. CASE s = <<>>
    BY <1>1, <1>2, <1>3, <1>8, <2>1
  <2>2. CASE s # <<>>
    <3>1. size' = MaxOf(size, position + Len(s))
      BY <2>2
    <3>2. position + Len(s) \in Nat /\ position + Len(s) <= Len(bs) * BlockSize
          /\ size <= Len(bs) * BlockSize
      BY <1>1, <1>2, <1>3
    <3> QED BY <1>2, <1>3, <1>8, <3>1, <3>2 DEF MaxOf
  <2> QED BY <2>1, <2>2
<1>10. /\ e \in Seq(Byte) /\ Len(e) = size'
       /\ \A i \in 1 .. size' : e[i] = Cell(blocks', i - 1)
  BY <1>8, <1>9, DataType
<1>11. ASSUME NEW j \in Nat, j < size'
       PROVE  Cell(blocks', j) = IF position <= j /\ j < position + Len(s)
                                 THEN s[j - position + 1] ELSE Cell(bs, j)
  <2>1. j < Len(bs) * BlockSize
    BY <1>3, <1>8, <1>9, <1>11
  <2> QED BY <1>1, <1>2, <1>7, <2>1, FilledCells
<1> HIDE DEF d, e
<1>12. CASE s = <<>>
  <2>1. size' = size /\ position' = position /\ Len(s) = 0
    BY <1>2, <1>12
  <2>2. \A i \in 1 .. size : e[i] = d[i]
    <3> SUFFICES ASSUME NEW i \in 1 .. size PROVE e[i] = d[i]
      OBVIOUS
    <3>1. i - 1 \in Nat /\ i - 1 < size
      BY <1>2
    <3>2. Cell(blocks', i - 1) = Cell(bs, i - 1)
      BY <1>2, <1>11, <2>1, <3>1
    <3> QED BY <1>4, <1>5, <1>10, <2>1, <3>1, <3>2
  <2>3. e = d
    BY <1>4, <1>10, <2>1, <2>2, SeqEqual
  <2> QED BY <2>1, <2>3, StutterSeen DEF d, e
<1>13. CASE s # <<>>
  <2>1. /\ position < position' /\ position' \in Nat
        /\ size' = MaxOf(size, position') /\ position' <= size'
    <3>1. /\ position' = position + Len(s) /\ Len(s) \in Nat \ {0}
          /\ size' = MaxOf(size, position + Len(s))
      BY <1>2, <1>6, <1>13
    <3>2. position + Len(s) \in Nat /\ position < position + Len(s)
          /\ position + Len(s) <= MaxOf(size, position + Len(s))
      BY <1>2, <3>1 DEF MaxOf
    <3> QED BY <3>1, <3>2
  <2>2. ASSUME NEW i \in 1 .. Len(e), i <= position \/ i > position'
        PROVE  e[i] = d[i]
    <3>1. i - 1 \in Nat /\ i - 1 < size' /\ i \in 1 .. size'
      BY <1>9, <1>10
    <3>2. Cell(blocks', i - 1) = Cell(bs, i - 1)
      BY <1>2, <1>11, <2>2, <3>1
    <3>3. i <= size
      BY <1>2, <1>10, <2>1, <2>2, <3>1 DEF MaxOf
    <3> QED BY <1>4, <1>5, <1>10, <3>1, <3>2, <3>3
  <2>3. PICK p, q : p = position /\ q = position'
    OBVIOUS
  <2>4. p \in Nat /\ q \in Nat
    BY <1>2, <2>1, <2>3
  <2>5. Overwrites(d, e, p, q)
    <3>1. Overwrites(d, e, position, position')
      BY <1>2, <1>4, <1>10, <2>1, <2>2 DEF Overwrites
    <3> QED BY <2>3, <3>1, Zenon
  <2>6. PICK x, y : x = d /\ y = e
    OBVIOUS
  <2>7. /\ x \in Seq(Byte) /\ y \in Seq(Byte) /\ Overwrites(x, y, p, q)
        /\ x = Data(blocks, size) /\ y = Data(blocks', size')
    BY <1>4, <1>10, <2>5, <2>6, Zenon DEF d, e
  <2> QED BY <2>3, <2>4, <2>7, WritesSeen, Zenon
<1> QED BY <1>12, <1>13

LEMMA WriteSeen ==
  ASSUME Inv, NEW s \in Seq(Octet), Write(s)
  PROVE  Abstract!Next \/ UNCHANGED Abstract!vars
<1>1. s \in Seq(Byte) /\ Len(s) \in Nat /\ (s # <<>> => Len(s) # 0)
  BY StringType
<1>2. CASE UNCHANGED <<blocks, position, size, got>>
  BY <1>2, StutterSeen
<1>3. CASE /\ s # <<>>
           /\ blocks' = Filled(Grown(Len(s)), CurGrown(Len(s)), s)
           /\ position' = position + Len(s)
           /\ size' = MaxOf(size, position + Len(s)) /\ got' = got
  BY <1>1, <1>3, FillSeen
<1> QED BY <1>2, <1>3 DEF Write, vars

LEMMA ReceiveSeen ==
  ASSUME Inv, NEW len \in Nat, NEW s \in Seq(Octet), Receive(len, s)
  PROVE  Abstract!Next \/ UNCHANGED Abstract!vars
<1>1. s \in Seq(Byte) /\ Len(s) <= len /\ len \in Nat \ {0}
  BY StringType DEF Receive
<1>2. CASE UNCHANGED <<blocks, position, size, got>>
  BY <1>2, StutterSeen
<1>3. CASE /\ blocks' = Filled(Grown(len), CurGrown(len), s)
           /\ position' = position + Len(s)
           /\ size' = IF s = <<>> THEN size ELSE MaxOf(size, position + Len(s))
           /\ got' = got
  BY <1>1, <1>3, FillSeen
<1> QED BY <1>2, <1>3 DEF Receive

LEMMA TakeSeen ==
  ASSUME Inv, NEW n \in Nat, n <= ReadableSize, Take(n)
  PROVE  Abstract!Next \/ UNCHANGED Abstract!vars
<1>1. /\ Len(blocks) \in Nat /\ position \in Nat /\ size \in Nat
      /\ position + n <= size /\ size <= Capacity
      /\ cur = Place(position, Len(blocks))
  <2>1. n <= size - position
    BY DEF ReadableSize
  <2> QED BY Basics, <2>1
<1>2. CASE HitsNull(cur, n, blocks)
  BY <1>2, StutterSeen DEF Take
<1>3. CASE ~HitsNull(cur, n, blocks)
  <2>1. /\ cur # Null /\ got' = Bytes(n) /\ position' = position + n
        /\ UNCHANGED <<blocks, size>>
    BY <1>3 DEF Take, HitsNull
  <2>2. cur = 1 + position \div BlockSize
    BY <1>1, <2>1 DEF Place
  <2>3. got' \in Seq(Byte) /\ Len(got') = n
    <3>1. position + n <= Capacity
      BY <1>1, Basics
    <3> QED BY <2>1, <3>1, BytesType
  <2>4. PICK d : d = Data(blocks, size)
    OBVIOUS
  <2>5. /\ d \in Seq(Byte) /\ Len(d) = size
        /\ \A i \in 1 .. size : d[i] = Cell(blocks, i - 1)
    BY <2>4, DataNow, Zenon
  <2>6. ASSUME NEW i \in 1 .. n PROVE got'[i] = d[position + i]
    <3>1. i - 1 \in Nat /\ position + i \in 1 .. size
      BY <1>1
    <3>2. Bytes(n)[i] = blocks[BlockAt(cur, i - 1)][OffsetAt(i - 1)]
      BY DEF Bytes
    <3>3. Bytes(n)[i] = Cell(blocks, position + (i - 1))
      BY <1>1, <2>2, <3>1, <3>2, LoopCells
    <3>4. d[position + i] = Cell(blocks, position + (i - 1))
      <4>1. PICK k \in 1 .. size : k = position + i
        BY <3>1, Zenon
      <4>2. d[k] = Cell(blocks, k - 1)
        BY <2>5, Zenon
      <4>3. k - 1 = position + (i - 1)
        BY <1>1, <4>1
      <4> QED BY <4>1, <4>2, <4>3, Zenon
    <3> QED BY <2>1, <3>3, <3>4
  <2>7. position + n <= Len(d)
    BY <1>1, <2>5
  <2> QED BY <1>1, <2>1, <2>3, <2>4, <2>5, <2>6, <2>7, GetSeen
<1> QED BY <1>2, <1>3

LEMMA SetPositionSeen ==
  ASSUME Inv, NEW p \in Nat, SetPosition(p)
  PROVE  Abstract!Next \/ UNCHANGED Abstract!vars
<1>1. CASE p > Capacity
  BY <1>1, StutterSeen DEF SetPosition, vars
<1>2. CASE ~(p > Capacity)
  <2>1. /\ position' = p /\ size' = MaxOf(size, p) /\ blocks' = blocks /\ got' = got
    BY <1>2 DEF SetPosition
  <2>2. /\ Capacity \in Nat /\ size \in Nat /\ size <= Capacity
        /\ Capacity = Len(blocks) * BlockSize
    BY Basics DEF Capacity
  <2>3. size' \in Nat /\ size <= size' /\ size' <= Capacity
        /\ size' = IF p > size THEN p ELSE size
    BY <1>2, <2>1, <2>2 DEF MaxOf
  <2>4. PICK d, e : d = Data(blocks, size) /\ e = Data(blocks', size')
    OBVIOUS
  <2>5. /\ d \in Seq(Byte) /\ Len(d) = size
        /\ \A i \in 1 .. size : d[i] = Cell(blocks, i - 1)
    BY <2>4, DataNow, Zenon
  <2>6. blocks' \in Seq(Block) /\ size' <= Len(blocks') * BlockSize
    BY <2>1, <2>2, <2>3, DataNow
  <2>7. /\ Data(blocks', size') \in Seq(Byte) /\ Len(Data(blocks', size')) = size'
        /\ \A i \in 1 .. size' : Data(blocks', size')[i] = Cell(blocks', i - 1)
    BY <2>3, <2>6, DataType
  <2>8. /\ e \in Seq(Byte) /\ Len(e) = size'
        /\ \A i \in 1 .. size' : e[i] = Cell(blocks, i - 1)
    BY <2>1, <2>4, <2>7, Zenon
  <2>9. \A i \in 1 .. Len(d) : e[i] = d[i]
    BY <2>2, <2>3, <2>5, <2>8
  <2>10. Len(e) = IF position' > Len(d) THEN position' ELSE Len(d)
    BY <2>1, <2>3, <2>5, <2>8
  <2>11. position' \in Nat /\ got' = got
    BY <2>1
  <2> QED BY <2>4, <2>5, <2>8, <2>9, <2>10, <2>11, SeekSeen
<1> QED BY <1>1, <1>2

LEMMA ClearSeen ==
  ASSUME Clear
  PROVE  Abstract!Next
<1>1. position' = 0 /\ size' = 0 /\ got' = got
  BY DEF Clear
<1>2. Data(blocks', size') = <<>>
  BY <1>1 DEF Data
<1>3. Abstract!Clear
  BY <1>1, <1>2 DEF Abstract!Clear, Data, Cell
<1> QED BY <1>3 DEF Abstract!Next

LEMMA NextSeen ==
  ASSUME Inv, [Next]_vars
  PROVE  [Abstract!Next]_(Abstract!vars)
<1> DEFINE Seen == Abstract!Next \/ UNCHANGED Abstract!vars
<1> SUFFICES Seen
  OBVIOUS
<1> HIDE DEF Seen
<1>0. CASE UNCHANGED vars
  BY <1>0, StutterSeen DEF vars, Seen
<1>1. CASE \E s \in Strings : Write(s)
  BY <1>1, WriteSeen, StringsType DEF Seen
<1>2. ASSUME NEW n \in 0 .. MaxWrite, Read(n) PROVE Seen
  <2>1. n \in Nat
    BY ByteArrayAssumption
  <2> QED BY <1>0, <1>2, <2>1, ReadTakes, TakeSeen DEF Seen
<1>3. ASSUME NEW p \in 0 .. MaxBlocks * BlockSize, SetPosition(p) PROVE Seen
  <2>1. p \in Nat
    BY ByteArrayAssumption
  <2> QED BY <1>3, <2>1, SetPositionSeen DEF Seen
<1>4. CASE Clear
  BY <1>4, ClearSeen DEF Seen
<1>5. ASSUME NEW v \in Unsigned(Wide), WriteUint(v) PROVE Seen
  BY <1>5, WriteSeen, CodeType, ByteArrayAssumption DEF WriteUint, Seen
<1>6. CASE ReadUint
  BY <1>6, ReadUintTakes, TakeSeen DEF Seen
<1>7. ASSUME NEW s \in Strings, NEW len \in 1 .. MaxWrite, Receive(len, s) PROVE Seen
  <2>1. len \in Nat
    BY ByteArrayAssumption
  <2> QED BY <1>7, <2>1, ReceiveSeen, StringsType DEF Seen
<1>8. ASSUME NEW n \in 1 .. MaxWrite, Deliver(n) PROVE Seen
  <2>1. n \in Nat
    BY ByteArrayAssumption
  <2> QED BY <1>8, <2>1, DeliverTakes, TakeSeen DEF Seen
<1> QED BY <1>0, <1>1, <1>2, <1>3, <1>4, <1>5, <1>6, <1>7, <1>8 DEF Next

LEMMA InitSeen == Init => Abstract!Init
<1> SUFFICES ASSUME Init PROVE Abstract!Init
  OBVIOUS
<1>1. position = 0 /\ size = 0 /\ got = <<>>
  BY DEF Init
<1>2. Data(blocks, size) = <<>>
  BY <1>1 DEF Data
<1> QED BY <1>1, <1>2 DEF Abstract!Init, Data, Cell

\* Whatever the block size, and whatever the order of writes, reads, moves,
\* integers, received and sent bytes, the chain of blocks is one sequence of
\* bytes with a position (bytearray.cpp:414-488): a read returns what is in it at
\* the position, a write changes nothing beside what it writes, moving the
\* position changes nothing.
THEOREM ChainIsSequence == Spec => ImplementsByteSeq
<1>1. Spec => []Inv
  BY InitInv, StepInv, PTL DEF Spec
<1>2. Inv /\ [Next]_vars => [Abstract!Next]_(Abstract!vars)
  BY NextSeen
<1> QED BY <1>1, <1>2, InitSeen, PTL DEF Spec, ImplementsByteSeq, Abstract!Spec

-----------------------------------------------------------------------------
(* ByteSeq lets a step write what it likes; that it is what was handed in  *)
(* is a property of the actions that write.                                *)

LEMMA FillPuts ==
  ASSUME Inv, NEW n \in Nat \ {0}, NEW s \in Seq(Byte), Len(s) <= n,
         blocks' = Filled(Grown(n), CurGrown(n), s),
         s # <<>> => size' = MaxOf(size, position + Len(s)),
         NEW i \in 1 .. Len(s)
  PROVE  Data(blocks', size')[position + i] = s[i]
<1> DEFINE bs == Grown(n)
           c == CurGrown(n)
<1>1. /\ bs \in Seq(Block) /\ position + n <= Len(bs) * BlockSize
      /\ c = 1 + position \div BlockSize /\ Len(bs) \in Nat
  BY Growth
<1>2. /\ position \in Nat /\ size \in Nat /\ Len(s) \in Nat /\ i \in Nat
      /\ Len(bs) * BlockSize \in Nat
  BY <1>1, Basics, AtEnd, LenProperties
<1> HIDE DEF bs, c
<1>3. size' = MaxOf(size, position + Len(s))
  <2>1. s # <<>>
    BY EmptySeq
  <2> QED BY <2>1
<1>4. position + i \in 1 .. size'
  BY <1>2, <1>3 DEF MaxOf
<1>5. PICK j \in Nat : j = position + (i - 1)
  BY <1>2
<1>6. Data(blocks', size')[position + i] = Cell(blocks', j)
  <2>1. (position + i) - 1 = j
    BY <1>2, <1>5
  <2> QED BY <1>4, <2>1 DEF Data
<1>7. /\ j < Len(bs) * BlockSize /\ position <= j /\ j < position + Len(s)
      /\ j - position + 1 = i
  BY <1>1, <1>2, <1>5
<1>8. Cell(Filled(bs, c, s), j) = s[i]
  BY <1>1, <1>2, <1>7, FilledCells
<1> QED BY <1>6, <1>8 DEF bs, c

\* write() and a stream that receives put exactly the bytes they are given at
\* the position, block boundaries and growth or not (bytearray.cpp:414-452,
\* socketStream.cpp:27-39).
Puts ==
  \A s \in Seq(Octet) :
    Write(s) \/ (\E len \in 1 .. MaxWrite : Receive(len, s)) =>
      \A i \in 1 .. Len(s) : Data(blocks', size')[position + i] = s[i]

THEOREM GivenIsWritten == Spec => [][Puts]_vars
<1>1. ASSUME Inv, Inv', NEW s \in Seq(Octet), Write(s), NEW i \in 1 .. Len(s)
      PROVE  Data(blocks', size')[position + i] = s[i]
  <2>1. s \in Seq(Byte) /\ Len(s) \in Nat \ {0} /\ s # <<>>
    BY StringType, EmptySeq
  <2>2. fault' # "access"
    BY <1>1 DEF Inv, NoNullBlock
  <2>3. /\ blocks' = Filled(Grown(Len(s)), CurGrown(Len(s)), s)
        /\ size' = MaxOf(size, position + Len(s))
    BY <1>1, <2>1, <2>2 DEF Write
  <2> QED BY <1>1, <2>1, <2>3, FillPuts
<1>2. ASSUME Inv, Inv', NEW s \in Seq(Octet), NEW len \in 1 .. MaxWrite, Receive(len, s),
             NEW i \in 1 .. Len(s)
      PROVE  Data(blocks', size')[position + i] = s[i]
  <2>1. s \in Seq(Byte) /\ Len(s) \in Nat /\ len \in Nat \ {0} /\ Len(s) <= len
    BY <1>2, StringType, ByteArrayAssumption DEF Receive
  <2>2. fault' # "access"
    BY <1>2 DEF Inv, NoNullBlock
  <2>3. /\ blocks' = Filled(Grown(len), CurGrown(len), s)
        /\ size' = IF s = <<>> THEN size ELSE MaxOf(size, position + Len(s))
    BY <1>2, <2>2 DEF Receive
  <2> QED BY <1>2, <2>1, <2>3, FillPuts
<1>3. Inv /\ Inv' => Puts
  BY <1>1, <1>2 DEF Puts
<1>4. Spec => []Inv
  BY InitInv, StepInv, PTL DEF Spec
<1> QED BY <1>3, <1>4, PTL

-----------------------------------------------------------------------------
(* Integers.                                                               *)

\* One call of readUint takes these bytes, whatever follows them.
LEMMA UsedAll ==
  ASSUME NEW v \in Unsigned(Width), NEW s \in Seq(Byte), Len(Encode(v)) <= Len(s),
         SubSeq(s, 1, Len(Encode(v))) = Encode(v)
  PROVE  Used(s) = Len(Encode(v))
<1>1. PICK c : c = Encode(v) OBVIOUS
<1>2. v \in Nat BY DEF Unsigned
<1>3. Coded(v, c) BY <1>1, <1>2, EncodeCodes
<1>4. PICK n \in Nat : n = Len(c) BY <1>3 DEF Coded
<1>5. n > 0 /\ n <= Len(s) /\ SubSeq(s, 1, n) = c BY <1>1, <1>3, <1>4 DEF Coded
<1>6. n <= Groups
  <2>1. Radix \in Nat \ {0} /\ Groups - 1 \in Nat /\ (Groups - 1) + 1 = Groups
    BY ByteArrayAssumption
  <2>2. v < Power(Radix, (Groups - 1) + 1)
    <3>0. 2 \in Nat \ {0} OBVIOUS
    <3>1. PICK m \in Nat, k \in Nat : m = Power(2, Width) /\ k = Power(Radix, Groups)
      BY <2>1, <3>0, PowerStep, ByteArrayAssumption
    <3>2. v < m BY <1>2, <3>1 DEF Unsigned
    <3>3. m <= k BY <3>1, WidthAssumption
    <3>4. v < k BY <1>2, <3>2, <3>3
    <3>5. QED BY <2>1, <3>1, <3>4
  <2>3. n <= (Groups - 1) + 1 BY <1>3, <1>4, <2>1, <2>2 DEF Coded
  <2>4. QED BY <2>1, <2>3
<1>7. \A i \in 1 .. n : s[i] = c[i]
  <2>1. \A i \in 1 .. n : SubSeq(s, 1, n)[i] = s[i] BY <1>4, <1>5
  <2>2. QED BY <1>5, <2>1
<1>8. \A i \in 1 .. n : c[i] \in 0 .. 2 * Radix - 1 /\ c[i] # Unwritten
  BY <1>3, <1>4, ByteArrayAssumption DEF Coded, Octet
<1>9. ASSUME NEW j \in 1 .. n PROVE IsLast(s, j) <=> j = n
  <2>1. j = n => s[j] < Radix /\ s[j] # Unwritten BY <1>3, <1>4, <1>7, <1>8 DEF Coded
  <2>2. j # n => j # Groups /\ ~(s[j] < Radix)
    <3> SUFFICES ASSUME j # n PROVE j # Groups /\ ~(s[j] < Radix) OBVIOUS
    <3>1. j \in 1 .. n - 1 BY <1>5
    <3>2. c[j] >= Radix BY <1>3, <1>4, <3>1 DEF Coded
    <3>3. s[j] = c[j] /\ c[j] \in Int /\ Radix \in Int BY <1>7, <1>8, ByteArrayAssumption
    <3>4. j # Groups BY <1>6, <3>1, ByteArrayAssumption
    <3>5. QED BY <3>2, <3>3, <3>4
  <2>3. QED BY <2>1, <2>2 DEF IsLast
<1>10. {i \in 1 .. Len(s) : \A j \in 1 .. i - 1 : ~IsLast(s, j)} = 1 .. n
  <2>1. ASSUME NEW i \in 1 .. n, NEW j \in 1 .. i - 1 PROVE ~IsLast(s, j)
    <3>1. j \in 1 .. n /\ j # n OBVIOUS
    <3>2. QED BY <1>9, <3>1
  <2>2. ASSUME NEW i \in 1 .. Len(s), i > n PROVE \E j \in 1 .. i - 1 : IsLast(s, j)
    <3>1. n \in 1 .. n /\ n \in 1 .. i - 1 BY <1>5, <2>2
    <3>2. QED BY <1>9, <3>1
  <2>3. \A i \in 1 .. n : i \in 1 .. Len(s) BY <1>5
  <2>4. \A i \in 1 .. Len(s) : i > n \/ i \in 1 .. n OBVIOUS
  <2>5. QED BY <2>1, <2>2, <2>3, <2>4
<1>11. Cardinality(1 .. n) = n
  <2>1. 1 \in Int /\ n \in Int OBVIOUS
  <2>2. Cardinality(1 .. n) = IF 1 > n THEN 0 ELSE n - 1 + 1 BY <2>1, FS_Interval
  <2>3. QED BY <1>5, <2>2
<1>12. QED BY <1>1, <1>4, <1>10, <1>11 DEF Used

\* Small negative numbers are odd, and what was folded can be unfolded.
LEMMA ZigzagReturns ==
  ASSUME NEW b \in Nat \ {0}, NEW v \in Signed(b)
  PROVE  Unzigzag(Zigzag(v, b)) = v
<1>1. PICK w \in Nat : w = Power(2, b - 1) /\ Power(2, b) = 2 * w
  <2>1. PICK k \in Nat : k = b - 1 /\ k + 1 = b OBVIOUS
  <2>2. 2 \in Nat \ {0} OBVIOUS
  <2>3. Power(2, k) \in Nat /\ Power(2, k + 1) = 2 * Power(2, k) BY <2>2, PowerStep
  <2>4. QED BY <2>1, <2>3
<1>2. v \in Int /\ 0 - w <= v /\ v < w BY <1>1 DEF Signed
<1>3. CASE v < 0
  <2>1. (2 * (0 - v) - 1) \in Nat /\ 2 * (0 - v) - 1 < 2 * w BY <1>2, <1>3
  <2>2. ((2 * (0 - v) - 1) % (2 * w)) = 2 * (0 - v) - 1 BY <1>1, <2>1, SMT
  <2>3. Zigzag(v, b) = 2 * (0 - v) - 1 BY <1>1, <1>3, <2>2 DEF Zigzag
  <2>4. ((2 * (0 - v) - 1) % 2) = 1 /\ (2 * (0 - v) - 1) \div 2 = (0 - v) - 1
    BY <1>2, SMT
  <2>5. QED BY <1>2, <2>3, <2>4 DEF Unzigzag
<1>4. CASE ~(v < 0)
  <2>1. Zigzag(v, b) = 2 * v BY <1>4 DEF Zigzag
  <2>2. ((2 * v) % 2) = 0 /\ (2 * v) \div 2 = v BY <1>2, SMT
  <2>3. QED BY <2>1, <2>2 DEF Unzigzag
<1>5. QED BY <1>3, <1>4

\* For every radix, number of groups and width that the groups can hold: wherever
\* the bytes of an integer of that width lie, across whatever blocks, and whatever
\* follows them, one call of readUint takes them all and no other, and they decode
\* to the integer; a signed one, of either width, returns from zigzag
\* (bytearray.cpp:133-192, 318-360).
THEOREM IntegersReturn == Spec => []VarintsReturn
<1>1. ASSUME Inv, NEW v \in Unsigned(Width), fault = "none", Len(Encode(v)) <= ReadableSize,
             SubSeq(Readable, 1, Len(Encode(v))) = Encode(v)
      PROVE  Used(Readable) = Len(Encode(v)) /\ Decoded(Encode(v)) = v
  <2>1. Coded(v, Encode(v)) BY CodeType, EncodeCodes, ByteArrayAssumption
  <2>2. Len(Encode(v)) \in Nat /\ Len(Encode(v)) > 0 BY <2>1 DEF Coded
  <2>3. /\ ReadableSize \in Nat /\ position + ReadableSize <= Capacity
        /\ cur # Null
    BY <1>1, <2>2, Basics, ByteArrayAssumption
       DEF ReadableSize, Inv, TypeOK, BlockMatches, Null
  <2>4. Readable \in Seq(Byte) /\ Len(Readable) = ReadableSize
    BY <1>1, <2>3, BytesType DEF Readable
  <2>5. Used(Readable) = Len(Encode(v)) BY <1>1, <2>4, UsedAll
  <2>6. QED BY <2>1, <2>5 DEF Coded
<1>2. Inv => VarintsReturn BY <1>1, ZigzagReturns, ByteArrayAssumption DEF VarintsReturn, Returns
<1>3. Spec => []Inv
  BY InitInv, StepInv, PTL DEF Spec
<1> QED BY <1>2, <1>3, PTL
=============================================================================
