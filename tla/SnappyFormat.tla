----------------------------- MODULE SnappyFormat -----------------------------
(***************************************************************************)
(* Snappy's format (snappy.cc, snappy-stubs-internal.h): the length in     *)
(* front, and items of a tag byte with what follows it: literals, and      *)
(* copies of what was written before.  Bytes are 0..255 and integers       *)
(* little-endian.                                                          *)
(***************************************************************************)
EXTENDS Bytes, SequencesExt, FiniteSetsExt

\* Integers beyond this are not told apart: no output is as long.
Huge == 2^28

\* Little-endian; a high fourth byte makes it huge.
LittleEndian(bytes) ==
  LET byte(k) == IF k <= Len(bytes) THEN bytes[k] ELSE 0
  IN  IF byte(4) >= 16 THEN Huge
      ELSE byte(1) + 256 * byte(2) + 256^2 * byte(3) + 256^3 * byte(4)

-------------------------------------------------------------------------------
(* The length: Varint. *)

\* How many bytes of 7 bits a value takes, below Huge at most 4.
VarintSize(v) == CHOOSE n \in 1..4 : v < 128^n /\ (n = 1 \/ v >= 128^(n - 1))

\* Fault: what is above the 7 bits stays.
Encode32Unmasked(v) ==
  [k \in 1..VarintSize(v) |-> (v \div 128^(k - 1)) + IF k < VarintSize(v) THEN 128 ELSE 0]

\* Encode32: all bytes but the last have the high bit.
Encode32(v) ==
  [k \in 1..VarintSize(v) |->
     ((v \div 128^(k - 1)) % 128) + IF k < VarintSize(v) THEN 128 ELSE 0]

\* Where a varint ends: the first byte without the high bit.
VarintEnd(s) == {n \in 1..Least(5, Len(s)) : s[n] < 128 /\ \A k \in 1..n-1 : s[k] >= 128}

\* The value of its 7 bits each, as an unsigned of 32 bits.
VarintValue(s, n) ==
  LET group(k) == IF k <= n THEN s[k] % 128 ELSE 0
  IN  IF n = 5 /\ s[5] % 16 # 0 THEN Huge
      ELSE group(1) + 128 * group(2) + 128^2 * group(3) + 128^3 * group(4)

NoVarint == [ok |-> FALSE, value |-> 0, size |-> 0]

\* Parse32WithLimit: the fifth byte may only hold the 4 bits that are left.
Parse32(s) ==
  IF \E n \in VarintEnd(s) : n < 5 \/ s[n] < 16
  THEN LET n == Min(VarintEnd(s)) IN [ok |-> TRUE, value |-> VarintValue(s, n), size |-> n]
  ELSE NoVarint

\* ReadUncompressedLength: whatever the fifth byte holds beyond is shifted out.
ReadUncompressedLength(s) ==
  IF VarintEnd(s) # {}
  THEN LET n == Min(VarintEnd(s)) IN [ok |-> TRUE, value |-> VarintValue(s, n), size |-> n]
  ELSE NoVarint

-------------------------------------------------------------------------------
(* Tags. *)

LITERAL == 0
COPY_1_BYTE_OFFSET == 1
COPY_2_BYTE_OFFSET == 2
COPY_4_BYTE_OFFSET == 3

MakeEntry(extra, len, copy_offset) == [extra |-> extra, len |-> len, copy_offset |-> copy_offset]

\* char_table: what a tag byte says of the bytes behind it, the length and the
\* high bits of the offset.
char_table(c) ==
  LET kind == c % 4
      high == c \div 4
  IN  CASE kind = LITERAL /\ high < 60 -> MakeEntry(0, high + 1, 0)
        [] kind = LITERAL /\ high >= 60 -> MakeEntry(high - 59, 1, 0)
        [] kind = COPY_1_BYTE_OFFSET -> MakeEntry(1, (high % 8) + 4, high \div 8)
        [] kind = COPY_2_BYTE_OFFSET -> MakeEntry(2, high + 1, 0)
        [] kind = COPY_4_BYTE_OFFSET -> MakeEntry(4, high + 1, 0)

\* ComputeTable, kind by kind: the entries it assigns.
ComputeTable ==
  {<<LITERAL + 4 * (len - 1), MakeEntry(0, len, 0)>> : len \in 1..60}
  \cup {<<LITERAL + 4 * (extra + 59), MakeEntry(extra, 1, 0)>> : extra \in 1..4}
  \cup {<<COPY_1_BYTE_OFFSET + 4 * (len - 4) + 32 * high, MakeEntry(1, len, high)>> :
          len \in 4..11, high \in 0..7}
  \cup {<<COPY_2_BYTE_OFFSET + 4 * (len - 1), MakeEntry(2, len, 0)>> : len \in 1..64}
  \cup {<<COPY_4_BYTE_OFFSET + 4 * (len - 1), MakeEntry(4, len, 0)>> : len \in 1..64}

\* The debug build's check that the two agree and no entry is missing.
ASSUME TableIsComputed ==
  ComputeTable = {<<c, char_table(c)>> : c \in Byte}

-------------------------------------------------------------------------------
(* What the compressor emits. *)

MaxCompressedLength(n) == 32 + n + n \div 6

\* Bytes of n, lowest first, as many as it needs.
BytesOf(n) ==
  LET count == IF n < 256 THEN 1 ELSE IF n < 256^2 THEN 2 ELSE 3
  IN  [k \in 1..count |-> (n \div 256^(k - 1)) % 256]

LiteralTag(len) ==
  IF len <= 60 THEN <<LITERAL + 4 * (len - 1)>>
  ELSE <<LITERAL + 4 * (59 + Len(BytesOf(len - 1)))>> \o BytesOf(len - 1)

\* On the fast path 16 bytes are read and written, however short the literal is.
FastLiteral(len, allow_fast_path) == allow_fast_path /\ len <= 16

EmitLiteral(literal) == LiteralTag(Len(literal)) \o literal

EmitCopyLessThan64(offset, len) ==
  IF len < 12 /\ offset < 2048
  THEN <<COPY_1_BYTE_OFFSET + 4 * (len - 4) + 32 * (offset \div 256), offset % 256>>
  ELSE <<COPY_2_BYTE_OFFSET + 4 * (len - 1), offset % 256, offset \div 256>>

\* Fault: a rest of fewer than four bytes is left over.
CopyLengthsGreedy(len) ==
  [k \in 1..(len \div 64) |-> 64] \o IF len % 64 = 0 THEN <<>> ELSE <<Larger(len % 64, 4)>>

\* 64 at a time while at least four are left, and 60 once if need be.
CopyLengths(len) ==
  LET full == IF len >= 68 THEN (len - 68) \div 64 + 1 ELSE 0
      left == len - 64 * full
  IN  [k \in 1..full |-> 64] \o IF left > 64 THEN <<60, left - 60>> ELSE <<left>>

EmitCopy(offset, len) ==
  LET lengths == CopyLengths(len)
      emitted[k \in 0..Len(lengths)] ==
        IF k = 0 THEN <<>> ELSE emitted[k - 1] \o EmitCopyLessThan64(offset, lengths[k])
  IN  emitted[Len(lengths)]

\* The largest n such that s continues alike after p1 and after p2.
FindMatchLength(s, p1, p2) ==
  Max({n \in 0..Len(s) - p2 : \A k \in 1..n : s[p1 + k] = s[p2 + k]})
===============================================================================
