------------------------------ MODULE Chunking ------------------------------
(***************************************************************************)
(* Content-defined chunks (dedup/rabin.py) and the Bloom filter over their *)
(* digests (dedup/bloom.py).  A polynomial over GF(2) is the number of its *)
(* coefficients.  The bytes, the window and the polynomial of the code (8  *)
(* bits, 64 bytes, degree 53) are parameters.                              *)
(***************************************************************************)
EXTENDS Integers, Sequences, SequencesExt, FiniteSets, Bitwise

CONSTANTS
  ByteBits, Window, Polynomial,
  MinSize, MaxSize, AvgBits,     \* of the Chunker
  BloomBits, BloomProbes         \* m and k of the filter

Deg[p \in Nat] == IF p = 0 THEN -1 ELSE 1 + Deg[p \div 2]
Rem[x \in Nat] ==
  LET d == Deg[x] - Deg[Polynomial] IN IF x = 0 \/ d < 0 THEN x ELSE Rem[x ^^ (Polynomial * 2 ^ d)]
AppendByte(h, b) == Rem[h * 2 ^ ByteBits + b]

(* RabinTables: what a byte leaves when it falls out of the window, and what *)
(* takes the high bits of the digest away.                                   *)
Times(n) == [i \in 1 .. n |-> i]
Pushed(b, zeros) == FoldLeft(LAMBDA h, i : AppendByte(h, 0), AppendByte(0, b), Times(zeros))
Bytes == [i \in 1 .. 2 ^ ByteBits |-> i - 1]
OutTableLong == <<>> \o [i \in DOMAIN Bytes |-> Pushed(Bytes[i], Window)]
OutTable == <<>> \o [i \in DOMAIN Bytes |-> Pushed(Bytes[i], Window - 1)]
ModTable ==
  <<>> \o [i \in DOMAIN Bytes |-> LET high == Bytes[i] * 2 ^ Deg[Polynomial] IN Rem[high] | high]

(* next_boundary_py: the window slides from where it is full at MinSize.     *)
Slide(st, b) ==
  LET left == st.digest ^^ OutTable[Head(st.window) + 1]
      index == left \div 2 ^ (Deg[Polynomial] - ByteBits)
  IN [window |-> Append(Tail(st.window), b),
      digest |-> (left * 2 ^ ByteBits + b) ^^ ModTable[(index % 2 ^ ByteBits) + 1]]
NewWindow == [window |-> [i \in 1 .. Window |-> 0], digest |-> 0]
Least(a, b) == IF a < b THEN a ELSE b
RECURSIVE Scan(_, _, _, _)
Scan(buf, i, st, eof) ==
  IF i = Least(Len(buf), MaxSize)
  THEN IF i = MaxSize THEN MaxSize ELSE IF eof THEN Len(buf) ELSE 0
  ELSE LET next == Slide(st, buf[i + 1])
       IN IF i + 1 >= MinSize /\ next.digest % 2 ^ AvgBits = 0 THEN i + 1 ELSE Scan(buf, i + 1, next, eof)
NextBoundary(buf, eof) ==
  IF Len(buf) <= MinSize THEN IF eof THEN Len(buf) ELSE 0
  ELSE Scan(buf, IF MinSize < Window THEN 0 ELSE MinSize - Window, NewWindow, eof)

(* Chunker.chunks: it reads while less than a largest chunk is in hand and   *)
(* then until the buffer is full; a read may return less than it asks for.   *)
ReadSize == 2 * MaxSize
NewChunker(data) == [left |-> data, buf |-> <<>>, eof |-> FALSE, filling |-> FALSE, out |-> <<>>]
Wants(c) == Len(c.buf) < MaxSize
Filled(c) == ~c.eof /\ (Wants(c) \/ c.filling)
Read(c, n) ==
  LET buf == c.buf \o SubSeq(c.left, 1, n) IN
  [c EXCEPT !.buf = buf, !.left = SubSeq(@, n + 1, Len(@)), !.eof = n = 0,
            !.filling = n > 0 /\ Len(buf) < ReadSize]
Cut(c) ==
  LET cut == NextBoundary(c.buf, c.eof) IN
  [c EXCEPT !.out = Append(@, SubSeq(c.buf, 1, cut)), !.buf = SubSeq(@, cut + 1, Len(@))]

-----------------------------------------------------------------------------
(* BloomFilter: the probes by double hashing, in bytes of eight bits.        *)
Positions(d) == {(d[1] + i * (d[2] | 1)) % BloomBits : i \in 0 .. BloomProbes - 1}
NewBloom == [bits |-> [i \in 0 .. (BloomBits + 7) \div 8 - 1 |-> 0], count |-> 0]
BloomAdded(f, d) ==
  [bits |-> [i \in DOMAIN f.bits |-> FoldLeft(|, f.bits[i], SetToSeq({2 ^ (p % 8) : p \in {q \in Positions(d) : q \div 8 = i}}))],
   count |-> f.count + 1]
BloomHas(f, d) == \A p \in Positions(d) : f.bits[p \div 8] & 2 ^ (p % 8) # 0
=============================================================================
