------------------------------- MODULE ByteSeq -------------------------------
(***************************************************************************)
(* What ByteArray promises: a sequence of bytes and a position in it.      *)
(* What is written replaces what is there and extends the sequence; what   *)
(* is read is what is there; a position beyond the end extends the         *)
(* sequence by bytes that nobody has written.                              *)
(***************************************************************************)
EXTENDS Naturals, Sequences

CONSTANT Byte

VARIABLES data, pos, got

vars == <<data, pos, got>>

Init == data = <<>> /\ pos = 0 /\ got = <<>>

Put(s) ==
  /\ data' = SubSeq(data, 1, pos) \o s \o SubSeq(data, pos + Len(s) + 1, Len(data))
  /\ pos' = pos + Len(s)
  /\ UNCHANGED got

Get(n) ==
  /\ pos + n <= Len(data)
  /\ got' = SubSeq(data, pos + 1, pos + n)
  /\ pos' = pos + n
  /\ UNCHANGED data

Seek(p) ==
  /\ pos' = p
  /\ Len(data') = IF p > Len(data) THEN p ELSE Len(data)
  /\ SubSeq(data', 1, Len(data)) = data
  /\ UNCHANGED got

Clear == data' = <<>> /\ pos' = 0 /\ UNCHANGED got

\* A step that writes says by the new position how much it wrote.
Writes == pos' > pos /\ Len(data') >= pos' /\ Put(SubSeq(data', pos + 1, pos'))

Next ==
  \/ Writes
  \/ pos' >= pos /\ Get(pos' - pos)
  \/ Seek(pos')
  \/ Clear

Spec == Init /\ [][Next]_vars
=============================================================================
