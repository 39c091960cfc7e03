------------------------------ MODULE ByteArray ------------------------------
(***************************************************************************)
(* ByteArray: bytes in a chain of blocks of one size, read and written at  *)
(* a position.  Besides the position it keeps the current block, and every *)
(* access goes to that block at the offset position % blockSize, so the    *)
(* two must agree; the current block is null when the position is behind   *)
(* the last block.  Streams receive into its blocks and send from them.    *)
(***************************************************************************)
EXTENDS Integers, Sequences, FiniteSets

CONSTANTS BlockSize,
          Radix,   \* 128: a byte below it is the last of an integer
          Groups,  \* 5: bytes that readUint32 and readUint64 take at most
          Width,   \* 32: bits of the integers of writeInt32 and writeUint32
          Wide,    \* 64: bits of those of writeInt64 and writeUint64
          Unwritten, \* what new char[] holds
          MaxWrite, MaxBlocks

ASSUME ByteArrayAssumption ==
  /\ BlockSize \in Nat \ {0}
  /\ Radix \in Nat \ {0, 1} /\ Groups \in Nat \ {0}
  /\ Width \in Nat \ {0} /\ Wide \in Nat \ {0}
  /\ Unwritten \notin Nat
  /\ MaxWrite \in Nat /\ MaxBlocks \in Nat \ {0}

\* Powers are a function here and not `^', of which the provers know nothing.
Power(b, n) ==
  LET P[i \in Nat] == IF i = 0 THEN 1 ELSE b * P[i - 1]
  IN  P[n]

\* What one call takes at most holds any integer of the smaller width.
ASSUME WidthAssumption == Power(2, Width) <= Power(Radix, Groups)

VARIABLES blocks,   \* blocks[i][o]: the chain from m_rootBlock
          cur,      \* index of m_curBlock, or Null
          position, size,
          got,      \* what the last read delivered
          fault     \* "none", or how a null block was dereferenced

vars == <<blocks, cur, position, size, got, fault>>

Octet == 0 .. 2 * Radix - 1
Byte  == Octet \cup {Unwritten}

Null      == 0
Block     == [0 .. BlockSize - 1 -> Byte]
NewBlock  == [o \in 0 .. BlockSize - 1 |-> Unwritten]
Capacity  == Len(blocks) * BlockSize
ReadableSize     == size - position
WritableCapacity == Capacity - position

TypeOK ==
  /\ blocks \in Seq(Block) /\ Len(blocks) > 0
  /\ cur \in {Null} \cup 1 .. Len(blocks)
  /\ size \in 0 .. Capacity /\ position \in 0 .. size
  /\ got \in Seq(Byte)
  /\ fault \in {"none", "empty read", "access"}

Init ==
  /\ blocks = <<NewBlock>> /\ cur = 1
  /\ position = 0 /\ size = 0
  /\ got = <<>>
  /\ fault = "none"

-----------------------------------------------------------------------------
(* Where the copying loops go: all of them start in block c at npos, take  *)
(* what the block has left, and go on at the start of the next one.        *)

Npos == position % BlockSize

BlockAt(c, i)  == c + (Npos + i) \div BlockSize
OffsetAt(i)    == (Npos + i) % BlockSize

\* block->next of the last block is null.
Existing(i, bs) == IF i \in 1 .. Len(bs) THEN i ELSE Null

AdvanceLate(c, n, bs) ==  \* mutant: a block that was used to its end is kept
  Existing(c + (IF n = 0 THEN 0 ELSE (Npos + n - 1) \div BlockSize), bs)

\* The current block after n bytes; one that is used to its end is left at once.
Advance(c, n, bs) == Existing(c + (Npos + n) \div BlockSize, bs)

Bytes(n) == [i \in 1 .. n |-> blocks[BlockAt(cur, i - 1)][OffsetAt(i - 1)]]

Filled(bs, c, s) ==
  [k \in 1 .. Len(bs) |->
     [o \in 0 .. BlockSize - 1 |->
        LET i == (k - c) * BlockSize + o + 1 IN
          IF i > Npos /\ i <= Npos + Len(s) THEN s[i - Npos] ELSE bs[k][o]]]

\* addCapacity(n): blocks are appended; if nothing was writable the current
\* block, which was null, is the first new one.
NewBlocks(n) ==
  IF WritableCapacity >= n THEN 0
  ELSE (n - WritableCapacity + BlockSize - 1) \div BlockSize

Grown(n) == blocks \o [i \in 1 .. NewBlocks(n) |-> NewBlock]

CurGrownKept(n) == IF n > 0 THEN cur ELSE Null  \* mutant: the null block is left alone

CurGrown(n) ==
  IF NewBlocks(n) > 0 /\ WritableCapacity = 0 THEN Len(blocks) + 1 ELSE cur

Strings == UNION {[1 .. n -> Octet] : n \in 0 .. MaxWrite}

MaxOf(a, b) == IF a > b THEN a ELSE b

-----------------------------------------------------------------------------
(* Operations.                                                             *)

\* n bytes from the current block c of the chain bs run into a null block.
HitsNull(c, n, bs) == c = Null \/ (n > 0 /\ BlockAt(c, n - 1) > Len(bs))

\* write(buf, n).
Write(s) ==
  /\ position + Len(s) <= MaxBlocks * BlockSize  \* bound
  /\ IF s = <<>> THEN UNCHANGED vars
     ELSE LET c == CurGrown(Len(s))
              bs == Grown(Len(s))
          IN  IF HitsNull(c, Len(s), bs)
              THEN fault' = "access" /\ UNCHANGED <<blocks, cur, position, size, got>>
              ELSE /\ blocks' = Filled(bs, c, s)
                   /\ cur' = Advance(c, Len(s), bs)
                   /\ position' = position + Len(s)
                   /\ size' = MaxOf(size, position + Len(s))
                   /\ UNCHANGED <<got, fault>>

\* read(buf, n) when n bytes are readable; a null current block is looked at
\* even for nothing.
Take(n) ==
  IF HitsNull(cur, n, blocks)
  THEN /\ fault' = IF n = 0 THEN "empty read" ELSE "access"
       /\ UNCHANGED <<blocks, cur, position, size, got>>
  ELSE /\ got' = Bytes(n)
       /\ position' = position + n
       /\ cur' = Advance(cur, n, blocks)
       /\ UNCHANGED <<blocks, size, fault>>

Read(n) ==
  IF n > ReadableSize THEN UNCHANGED vars  \* out_of_range
  ELSE Take(n)

\* setPosition's walk from the root: on while the rest is more than a block,
\* and once more when it is exactly one.
WalkShort(p, bs) ==  \* mutant: the last step is forgotten
  Existing(IF p = 0 THEN 1 ELSE 1 + (p - 1) \div BlockSize, bs)

Walk(p, bs) == Existing(1 + p \div BlockSize, bs)

SetPosition(p) ==
  IF p > Capacity THEN UNCHANGED vars  \* out_of_range
  ELSE /\ position' = p
       /\ size' = MaxOf(size, p)
       /\ cur' = Walk(p, blocks)
       /\ UNCHANGED <<blocks, got, fault>>

\* clear() keeps the first block and what is in it.
Clear ==
  /\ blocks' = <<blocks[1]>> /\ cur' = 1
  /\ position' = 0 /\ size' = 0
  /\ UNCHANGED <<got, fault>>

-----------------------------------------------------------------------------
(* Integers of variable length, least significant group first.             *)

Unsigned(w) == 0 .. Power(2, w) - 1
Signed(w)   == 0 - Power(2, w - 1) .. Power(2, w - 1) - 1

EncodeShort(v) ==  \* mutant: the loop stops one value late
  LET E[x \in Nat] == IF x > Radix THEN <<(x % Radix) + Radix>> \o E[x \div Radix] ELSE <<x>>
  IN  E[v]

Encode(v) ==
  LET E[x \in Nat] == IF x >= Radix THEN <<(x % Radix) + Radix>> \o E[x \div Radix] ELSE <<x>>
  IN  E[v]

\* The bytes one integer takes from s: up to the first below Radix, Groups at
\* most, or all there are.
IsLast(s, i) == i = Groups \/ (s[i] # Unwritten /\ s[i] < Radix)
Used(s) == Cardinality({i \in 1 .. Len(s) : \A j \in 1 .. i - 1 : ~IsLast(s, j)})

Decoded(s) ==
  LET D[t \in Seq(Octet)] == IF t = <<>> THEN 0 ELSE (t[1] % Radix) + Radix * D[Tail(t)]
  IN  D[s]

Zigzag(v, w) == IF v < 0 THEN (2 * (0 - v) - 1) % Power(2, w) ELSE 2 * v
Unzigzag(u)  == IF u % 2 = 1 THEN 0 - (u \div 2) - 1 ELSE u \div 2

WriteUint(v) == Write(Encode(v))

\* readUint32 and readUint64 take a byte at a time: when they run out of bytes
\* what they took is gone.
ReadUint ==
  /\ ReadableSize > 0
  /\ Take(Used(Bytes(ReadableSize)))

-----------------------------------------------------------------------------
(* SocketStream on a ByteArray.                                            *)

\* read(ba, len): getWriteBuffers(len), recv fills the first rt bytes of them,
\* setPosition.
Receive(len, s) ==
  /\ len > 0 /\ Len(s) <= len
  /\ position + len <= MaxBlocks * BlockSize  \* bound
  /\ LET c == CurGrown(len)
         bs == Grown(len)
     IN  IF HitsNull(c, len, bs)
         THEN fault' = "access" /\ UNCHANGED <<blocks, cur, position, size, got>>
         ELSE /\ blocks' = Filled(bs, c, s)
              /\ cur' = IF s = <<>> THEN c ELSE Walk(position + Len(s), bs)
              /\ position' = position + Len(s)
              /\ size' = IF s = <<>> THEN size ELSE MaxOf(size, position + Len(s))
              /\ UNCHANGED <<got, fault>>

\* write(ba, len): getReadBuffers(len), send takes n of them, setPosition.
Deliver(n) ==
  /\ n > 0 /\ n <= ReadableSize
  /\ IF HitsNull(cur, n, blocks)
     THEN fault' = "access" /\ UNCHANGED <<blocks, cur, position, size, got>>
     ELSE /\ got' = Bytes(n)
          /\ position' = position + n
          /\ cur' = Walk(position + n, blocks)
          /\ UNCHANGED <<blocks, size, fault>>

-----------------------------------------------------------------------------
Next ==
  \/ /\ fault = "none"
     /\ \/ \E s \in Strings : Write(s)
        \/ \E n \in 0 .. MaxWrite : Read(n)
        \/ \E p \in 0 .. MaxBlocks * BlockSize : SetPosition(p)
        \/ Clear
        \/ \E v \in Unsigned(Wide) : WriteUint(v)
        \/ ReadUint
        \/ \E s \in Strings, len \in 1 .. MaxWrite : Receive(len, s)
        \/ \E n \in 1 .. MaxWrite : Deliver(n)
  \/ fault # "none" /\ UNCHANGED vars

Spec == Init /\ [][Next]_vars

-----------------------------------------------------------------------------
\* The current block is the one the position is in, and null exactly behind
\* the last block: every access adds position % blockSize to it and looks no
\* further.  Six operations move the two separately.
BlockMatches ==
  cur = IF position = Capacity THEN Null ELSE 1 + position \div BlockSize

\* No null block is dereferenced, but for one case: reading nothing (an empty
\* string) at the very end of the last block.
NoNullBlock == fault # "access"

Readable == Bytes(ReadableSize)

\* If the bytes of v are the next to be read, one call takes them and no other,
\* and they decode to v.
Returns(v) ==
  LET n == Len(Encode(v)) IN
    fault = "none" /\ n <= ReadableSize /\ SubSeq(Readable, 1, n) = Encode(v) =>
      Used(Readable) = n /\ Decoded(Encode(v)) = v

\* Every integer of 32 bits is read back, whatever follows it and wherever the
\* block boundaries are, and every signed one, of 64 bits too, returns from
\* zigzag.
VarintsReturn ==
  /\ \A v \in Unsigned(Width) : Returns(v)
  /\ \A w \in {Width, Wide} : \A v \in Signed(w) : Unzigzag(Zigzag(v, w)) = v

\* What bytearray.h:216-220 says of readUint64, whose writer takes up to ten
\* bytes (bytearray.h:120): every integer of 64 bits is read back, and the
\* position moves on by what it occupies.  The loop ends after five bytes.
LongsReturn == \A v \in Unsigned(Wide) : Returns(v)

\* The first m_size bytes of the chain and the position are a ByteSeq.
Abstract == INSTANCE ByteSeq WITH
  data <- [i \in 1 .. size |-> blocks[1 + (i - 1) \div BlockSize][(i - 1) % BlockSize]],
  pos <- position

ImplementsByteSeq == Abstract!Spec
=============================================================================
