----------------------------- MODULE SnappyProofs -----------------------------
(***************************************************************************)
(* What TLAPS proves about Snappy, for any hash function, block size,      *)
(* input, stream and fragments: the compressor's matches lie behind what   *)
(* they are copied to, neither it nor the decompressor reads or writes     *)
(* beyond what there is room for, and what was compressed comes back.      *)
(***************************************************************************)
EXTENDS Snappy, TextFacts

-------------------------------------------------------------------------------
(* Numbers and bytes. *)

\* What two bytes hold.
TwoBytes == 65536

LEMMA HighAndLow ==
  ASSUME NEW n \in Nat
  PROVE  /\ n \div 256 \in Nat /\ n % 256 \in Byte
         /\ n < TwoBytes => n \div 256 \in Byte
BY DEF Byte, TwoBytes

\* One byte more for every 61, and one for every 6 of some.
LEMMA Sixtieths ==
  ASSUME NEW m \in Nat, NEW n \in Nat
  PROVE  /\ m \div 61 + n \div 61 <= (m + n) \div 61
         /\ m \div 6 + n \div 6 <= (m + n) \div 6
         /\ n \div 61 <= n \div 6 /\ n \div 6 <= n
         /\ n >= 6 => 1 + n \div 61 <= n \div 6
<1>1. m \div 61 + n \div 61 <= (m + n) \div 61
  OBVIOUS
<1>2. m \div 6 + n \div 6 <= (m + n) \div 6
  OBVIOUS
<1>3. n \div 61 <= n \div 6 /\ n \div 6 <= n
  OBVIOUS
<1>4. n >= 6 => 1 + n \div 61 <= n \div 6
  OBVIOUS
<1> QED
  BY <1>1, <1>2, <1>3, <1>4

TagEntry == [extra : 0..4, len : 1..64, copy_offset : 0..7]

LEMMA EntryIs ==
  ASSUME NEW c \in Byte
  PROVE  char_table(c) \in TagEntry
<1> DEFINE low == c % 4
           high == c \div 4
<1>1. low \in 0..3 /\ high \in 0..63 /\ high % 8 \in 0..7 /\ high \div 8 \in 0..7
  BY DEF Byte
<1>2. char_table(c) =
        CASE low = LITERAL /\ high < 60 -> MakeEntry(0, high + 1, 0)
          [] low = LITERAL /\ high >= 60 -> MakeEntry(high - 59, 1, 0)
          [] low = COPY_1_BYTE_OFFSET -> MakeEntry(1, (high % 8) + 4, high \div 8)
          [] low = COPY_2_BYTE_OFFSET -> MakeEntry(2, high + 1, 0)
          [] low = COPY_4_BYTE_OFFSET -> MakeEntry(4, high + 1, 0)
  BY DEF char_table
<1> HIDE DEF low, high
<1>3. CASE low = 0 /\ high < 60
  <2>1. char_table(c) = MakeEntry(0, high + 1, 0)
    BY <1>1, <1>2, <1>3 DEF LITERAL, COPY_1_BYTE_OFFSET, COPY_2_BYTE_OFFSET, COPY_4_BYTE_OFFSET
  <2> QED
    BY <1>1, <1>3, <2>1 DEF MakeEntry, TagEntry
<1>4. CASE low = 0 /\ ~(high < 60)
  <2>1. high >= 60
    BY <1>1, <1>4
  <2>2. char_table(c) = MakeEntry(high - 59, 1, 0)
    BY <1>1, <1>2, <1>4, <2>1 DEF LITERAL, COPY_1_BYTE_OFFSET, COPY_2_BYTE_OFFSET, COPY_4_BYTE_OFFSET
  <2> QED
    BY <1>1, <2>1, <2>2 DEF MakeEntry, TagEntry
<1>5. CASE low = 1
  <2>1. char_table(c) = MakeEntry(1, (high % 8) + 4, high \div 8)
    BY <1>1, <1>2, <1>5 DEF LITERAL, COPY_1_BYTE_OFFSET, COPY_2_BYTE_OFFSET, COPY_4_BYTE_OFFSET
  <2> QED
    BY <1>1, <2>1 DEF MakeEntry, TagEntry
<1>6. CASE low = 2
  <2>1. char_table(c) = MakeEntry(2, high + 1, 0)
    BY <1>1, <1>2, <1>6 DEF LITERAL, COPY_1_BYTE_OFFSET, COPY_2_BYTE_OFFSET, COPY_4_BYTE_OFFSET
  <2> QED
    BY <1>1, <2>1 DEF MakeEntry, TagEntry
<1>7. CASE low = 3
  <2>1. char_table(c) = MakeEntry(4, high + 1, 0)
    BY <1>1, <1>2, <1>7 DEF LITERAL, COPY_1_BYTE_OFFSET, COPY_2_BYTE_OFFSET, COPY_4_BYTE_OFFSET
  <2> QED
    BY <1>1, <2>1 DEF MakeEntry, TagEntry
<1> QED
  BY <1>1, <1>3, <1>4, <1>5, <1>6, <1>7

LEMMA LittleEndianIs ==
  ASSUME NEW s \in Seq(Byte)
  PROVE  LittleEndian(s) \in Nat
<1> DEFINE byte(k) == IF k <= Len(s) THEN s[k] ELSE 0
<1>1. \A k \in 1..4 : byte(k) \in Nat
  <2>1. \A k \in 1..Len(s) : s[k] \in Byte
    OBVIOUS
  <2>2. \A b \in Byte : b \in Nat
    BY DEF Byte
  <2>3. \A k \in 1..Len(s) : s[k] \in Nat
    BY <2>1, <2>2
  <2> QED
    BY <2>3
<1>2. LittleEndian(s) = IF byte(4) >= 16 THEN Huge
                        ELSE byte(1) + 256 * byte(2) + 256^2 * byte(3) + 256^3 * byte(4)
  BY DEF LittleEndian
<1>3. Huge \in Nat /\ 256^2 = 65536 /\ 256^3 = 16777216
  BY DEF Huge
<1>4. byte(1) \in Nat /\ byte(2) \in Nat /\ byte(3) \in Nat /\ byte(4) \in Nat
  BY <1>1
<1> HIDE DEF byte
<1>5. LittleEndian(s) = IF byte(4) >= 16 THEN Huge
                        ELSE byte(1) + 256 * byte(2) + 65536 * byte(3) + 16777216 * byte(4)
  BY <1>2, <1>3
<1> QED
  BY <1>3, <1>4, <1>5

-------------------------------------------------------------------------------
(* The length in front. *)

LEMMA EncodedIs ==
  ASSUME NEW v \in Nat, v < Huge
  PROVE  Encode32(v) \in Seq(Byte) /\ Len(Encode32(v)) <= 4
<1>1. /\ 128^0 = 1 /\ 128^1 = 128 /\ 128^2 = 16384 /\ 128^3 = 2097152 /\ 128^4 = 268435456
      /\ Huge = 268435456
  BY DEF Huge
<1>2. \E n \in 1..4 : v < 128^n /\ (n = 1 \/ v >= 128^(n - 1))
  <2>1. CASE v < 128
    BY <1>1, <2>1
  <2>2. CASE v >= 128 /\ v < 16384
    <3>1. 2 - 1 = 1 /\ 2 \in 1..4
      OBVIOUS
    <3> QED
      BY <1>1, <2>2, <3>1
  <2>3. CASE v >= 16384 /\ v < 2097152
    <3>1. 3 - 1 = 2 /\ 3 \in 1..4
      OBVIOUS
    <3> QED
      BY <1>1, <2>3, <3>1
  <2>4. CASE v >= 2097152
    <3>1. 4 - 1 = 3 /\ 4 \in 1..4
      OBVIOUS
    <3> QED
      BY <1>1, <2>4, <3>1
  <2> QED
    BY <2>1, <2>2, <2>3, <2>4
<1> DEFINE size == VarintSize(v)
<1>3. size \in 1..4
  BY <1>2 DEF VarintSize
<1>4. Encode32(v) = [k \in 1..size |-> ((v \div 128^(k - 1)) % 128) + IF k < size THEN 128 ELSE 0]
  BY DEF Encode32
<1> HIDE DEF size
<1>5. ASSUME NEW m \in Nat PROVE m % 128 \in Byte /\ (m % 128) + 128 \in Byte
  BY DEF Byte
<1>6. ASSUME NEW k \in 1..size PROVE v \div 128^(k - 1) \in Nat
  <2>1. k - 1 = 0 \/ k - 1 = 1 \/ k - 1 = 2 \/ k - 1 = 3
    BY <1>3
  <2>2. v \div 1 \in Nat /\ v \div 128 \in Nat /\ v \div 16384 \in Nat /\ v \div 2097152 \in Nat
    OBVIOUS
  <2> DEFINE e == k - 1
  <2>3. e = 0 \/ e = 1 \/ e = 2 \/ e = 3
    BY <2>1
  <2> HIDE DEF e
  <2>4. 128^e = 1 \/ 128^e = 128 \/ 128^e = 16384 \/ 128^e = 2097152
    <3>1. CASE e = 0
      BY <1>1, <3>1
    <3>2. CASE e = 1
      BY <1>1, <3>2
    <3>3. CASE e = 2
      BY <1>1, <3>3
    <3>4. CASE e = 3
      BY <1>1, <3>4
    <3> QED
      BY <2>3, <3>1, <3>2, <3>3, <3>4
  <2> QED
    BY <2>2, <2>4 DEF e
<1>7. ASSUME NEW k \in 1..size
      PROVE  ((v \div 128^(k - 1)) % 128) + (IF k < size THEN 128 ELSE 0) \in Byte
  <2> DEFINE m == v \div 128^(k - 1)
  <2>1. m \in Nat
    BY <1>6
  <2> HIDE DEF m
  <2>2. m % 128 \in Byte /\ (m % 128) + 128 \in Byte
    BY <1>5, <2>1
  <2>3. (m % 128) + 0 = m % 128
    BY <2>1
  <2>4. (m % 128) + (IF k < size THEN 128 ELSE 0) \in Byte
    <3>1. CASE k < size
      BY <2>2, <3>1
    <3>2. CASE ~(k < size)
      BY <2>2, <2>3, <3>2
    <3> QED
      BY <3>1, <3>2
  <2> QED
    BY <2>4 DEF m
<1>8. Encode32(v) \in [1..size -> Byte]
  <2> DEFINE byte(k) == ((v \div 128^(k - 1)) % 128) + (IF k < size THEN 128 ELSE 0)
  <2>1. \A k \in 1..size : byte(k) \in Byte
    BY <1>7
  <2>2. Encode32(v) = [k \in 1..size |-> byte(k)]
    BY <1>4
  <2> HIDE DEF byte
  <2> QED
    BY <2>1, <2>2
<1> QED
  BY <1>3, <1>8

LEMMA VarintIs ==
  ASSUME NEW s \in Seq(Byte), NEW n \in 1..5, n <= Len(s)
  PROVE  VarintValue(s, n) \in Nat
<1> DEFINE group(k) == IF k <= n THEN s[k] % 128 ELSE 0
<1>1. \A b \in Byte : b % 128 \in Nat
  BY DEF Byte
<1>2. \A k \in 1..Len(s) : s[k] % 128 \in Nat
  BY <1>1
<1>3. \A k \in 1..4 : k <= n => k \in 1..Len(s)
  OBVIOUS
<1>4. \A k \in 1..4 : group(k) \in Nat
  BY <1>2, <1>3
<1>5. VarintValue(s, n) =
        IF n = 5 /\ s[5] % 16 # 0 THEN Huge
        ELSE group(1) + 128 * group(2) + 128^2 * group(3) + 128^3 * group(4)
  BY DEF VarintValue
<1>6. group(1) \in Nat /\ group(2) \in Nat /\ group(3) \in Nat /\ group(4) \in Nat
  BY <1>4
<1>7. 128^2 = 16384 /\ 128^3 = 2097152 /\ Huge \in Nat
  BY DEF Huge
<1>8. group(1) + 128 * group(2) + 128^2 * group(3) + 128^3 * group(4) \in Nat
  <2> DEFINE g1 == group(1)
             g2 == group(2)
             g3 == group(3)
             g4 == group(4)
  <2>1. g1 \in Nat /\ g2 \in Nat /\ g3 \in Nat /\ g4 \in Nat
    BY <1>6
  <2> HIDE DEF g1, g2, g3, g4
  <2>2. g1 + 128 * g2 + 128^2 * g3 + 128^3 * g4 \in Nat
    BY <1>7, <2>1
  <2> QED
    BY <2>2 DEF g1, g2, g3, g4
<1> QED
  BY <1>5, <1>7, <1>8

LEMMA LengthIs ==
  ASSUME NEW s \in Seq(Byte)
  PROVE  /\ ReadUncompressedLength(s).value \in Nat
         /\ ReadUncompressedLength(s).size \in Nat
         /\ Parse32(s).value \in Nat
<1> DEFINE ends == VarintEnd(s)
<1>1. ends \in SUBSET (1..5) /\ \A n \in ends : n <= Len(s)
  BY DEF VarintEnd, Least
<1>2. ASSUME ends # {}
      PROVE  Min(ends) \in 1..5 /\ Min(ends) <= Len(s)
  <2>1. ends \subseteq Nat
    BY <1>1
  <2>2. PICK n \in ends : \A m \in ends : n <= m
    BY <1>2, <2>1, LeastNat
  <2>3. Min(ends) \in ends
    BY <2>2 DEF Min
  <2> QED
    BY <1>1, <2>3
<1>3. ASSUME ends # {}
      PROVE  VarintValue(s, Min(ends)) \in Nat /\ Min(ends) \in Nat
  BY <1>2, <1>3, VarintIs
<1>4. ReadUncompressedLength(s) =
        IF ends # {} THEN [ok |-> TRUE, value |-> VarintValue(s, Min(ends)), size |-> Min(ends)]
        ELSE NoVarint
  BY DEF ReadUncompressedLength
<1>5. \/ /\ ends # {}
         /\ Parse32(s) = [ok |-> TRUE, value |-> VarintValue(s, Min(ends)), size |-> Min(ends)]
      \/ Parse32(s) = NoVarint
  BY DEF Parse32
<1>6. NoVarint.value \in Nat /\ NoVarint.size \in Nat
  BY DEF NoVarint
<1> HIDE DEF ends
<1> QED
  BY <1>3, <1>4, <1>5, <1>6

-------------------------------------------------------------------------------
(* Literals and copies as they are emitted. *)

LEMMA BytesOfIs ==
  ASSUME NEW n \in Nat, n < TwoBytes
  PROVE  BytesOf(n) \in Seq(Byte) /\ Len(BytesOf(n)) = IF n < 256 THEN 1 ELSE 2
<1> DEFINE count == IF n < 256 THEN 1 ELSE 2
<1>1. 256^0 = 1 /\ 256^1 = 256 /\ 256^2 = TwoBytes
  BY DEF TwoBytes
<1>2. 1 - 1 = 0 /\ 2 - 1 = 1
  OBVIOUS
<1>3. (IF n < 256 THEN 1 ELSE IF n < 256^2 THEN 2 ELSE 3) = count /\ count \in Nat
  BY <1>1
<1>4. BytesOf(n) = [k \in 1..count |-> (n \div 256^(k - 1)) % 256] /\ count \in Nat
  <2>1. BytesOf(n) = [k \in 1..(IF n < 256 THEN 1 ELSE IF n < 256^2 THEN 2 ELSE 3) |->
                        (n \div 256^(k - 1)) % 256]
    BY DEF BytesOf
  <2> HIDE DEF count
  <2> QED
    BY <1>3, <2>1
<1>5. ASSUME NEW k \in 1..count PROVE (n \div 256^(k - 1)) % 256 \in Byte
  <2>1. k = 1 \/ k = 2
    OBVIOUS
  <2>2. 256^(k - 1) = 1 \/ 256^(k - 1) = 256
    <3>1. CASE k = 1
      BY <1>1, <1>2, <3>1
    <3>2. CASE k = 2
      BY <1>1, <1>2, <3>2
    <3> QED
      BY <2>1, <3>1, <3>2
  <2>3. (n \div 1) % 256 \in Byte /\ (n \div 256) % 256 \in Byte
    BY DEF Byte
  <2> QED
    BY <2>2, <2>3
<1> HIDE DEF count
<1>6. BytesOf(n) \in [1..count -> Byte] /\ count \in Nat
  BY <1>4, <1>5
<1>7. BytesOf(n) \in Seq(Byte) /\ Len(BytesOf(n)) = count
  BY <1>6
<1> QED
  BY <1>7 DEF count

LEMMA LiteralTagIs ==
  ASSUME NEW n \in Nat, n >= 1, n <= TwoBytes
  PROVE  /\ LiteralTag(n) \in Seq(Byte)
         /\ Len(LiteralTag(n)) <= 1 + n \div 61
         /\ n <= 60 => Len(LiteralTag(n)) = 1
<1>1. CASE n <= 60
  <2>1. LiteralTag(n) = <<4 * (n - 1)>>
    BY <1>1 DEF LiteralTag, LITERAL
  <2> DEFINE b == 4 * (n - 1)
  <2>2. b \in Byte
    BY <1>1 DEF Byte
  <2> HIDE DEF b
  <2>4. LiteralTag(n) \in Seq(Byte) /\ Len(LiteralTag(n)) = 1
    BY <2>1, <2>2 DEF b
  <2>3. n \div 61 \in Nat
    OBVIOUS
  <2> QED
    BY <2>3, <2>4
<1>2. CASE ~(n <= 60)
  <2> DEFINE m == n - 1
             b == BytesOf(m)
  <2>1. m \in Nat /\ m < TwoBytes
    BY DEF TwoBytes
  <2>10. m < 256 => n \div 61 >= 1
    BY <1>2
  <2>7. ~(m < 256) => n \div 61 >= 2
    BY <1>2
  <2> HIDE DEF m
  <2>2. b \in Seq(Byte) /\ Len(b) = IF m < 256 THEN 1 ELSE 2
    BY <2>1, BytesOfIs
  <2>3. LiteralTag(n) = <<4 * (59 + Len(b))>> \o b
    BY <1>2 DEF LiteralTag, LITERAL, m
  <2> HIDE DEF b
  <2> DEFINE first == 4 * (59 + Len(b))
  <2>4. first \in Byte
    BY <2>2 DEF Byte
  <2> HIDE DEF first
  <2>5. <<first>> \in Seq(Byte) /\ Len(<<first>>) = 1
    BY <2>4
  <2>9. <<first>> \o b \in Seq(Byte) /\ Len(<<first>> \o b) = 1 + Len(b)
    BY <2>2, <2>5, Joined
  <2>6. LiteralTag(n) \in Seq(Byte) /\ Len(LiteralTag(n)) = 1 + Len(b)
    BY <2>3, <2>9 DEF first
  <2>8. n \div 61 \in Nat
    OBVIOUS
  <2>11. Len(b) <= n \div 61 /\ Len(b) \in Nat
    BY <2>2, <2>7, <2>8, <2>10
  <2> QED
    BY <1>2, <2>6, <2>8, <2>11
<1> QED
  BY <1>1, <1>2

LEMMA EmitLiteralIs ==
  ASSUME NEW s \in Seq(Byte), Len(s) >= 1, Len(s) <= TwoBytes
  PROVE  /\ EmitLiteral(s) \in Seq(Byte)
         /\ Len(EmitLiteral(s)) <= 1 + Len(s) \div 61 + Len(s)
         /\ Len(s) <= 60 => Len(EmitLiteral(s)) = 1 + Len(s)
<1> DEFINE tag == LiteralTag(Len(s))
<1>1. tag \in Seq(Byte) /\ Len(tag) <= 1 + Len(s) \div 61 /\ (Len(s) <= 60 => Len(tag) = 1)
  <2>1. Len(s) \in Nat
    OBVIOUS
  <2> QED
    BY <2>1, LiteralTagIs
<1>2. EmitLiteral(s) = tag \o s
  BY DEF EmitLiteral
<1> HIDE DEF tag
<1>3. EmitLiteral(s) \in Seq(Byte) /\ Len(EmitLiteral(s)) = Len(tag) + Len(s) /\ Len(tag) \in Nat
  BY <1>1, <1>2, Joined
<1> DEFINE more == Len(s) \div 61
<1>4. more \in Nat /\ Len(s) \in Nat
  OBVIOUS
<1>5. Len(tag) <= 1 + more /\ Len(tag) \in Nat
  BY <1>1, <1>3
<1> HIDE DEF more
<1>7. \A t, l, m \in Nat : t <= 1 + m => t + l <= 1 + m + l
  OBVIOUS
<1>6. /\ Len(tag) + Len(s) <= 1 + more + Len(s)
      /\ Len(s) <= 60 => Len(tag) + Len(s) = 1 + Len(s)
  BY <1>1, <1>4, <1>5, <1>7, Zenon
<1> QED
  BY <1>3, <1>6 DEF more

LEMMA EmitCopyLessThan64Is ==
  ASSUME NEW offset \in Nat, offset < TwoBytes, NEW n \in Nat, n >= 4, n <= 64
  PROVE  /\ EmitCopyLessThan64(offset, n) \in Seq(Byte)
         /\ Len(EmitCopyLessThan64(offset, n)) <= 3
<1>1. offset % 256 \in Byte /\ offset \div 256 \in Byte
  BY HighAndLow
<1>2. CASE n < 12 /\ offset < 2048
  <2> DEFINE tag == 1 + 4 * (n - 4) + 32 * (offset \div 256)
  <2>1. tag \in Byte
    BY <1>2 DEF Byte
  <2>2. EmitCopyLessThan64(offset, n) = <<tag, offset % 256>>
    BY <1>2 DEF EmitCopyLessThan64, COPY_1_BYTE_OFFSET
  <2> HIDE DEF tag
  <2> QED
    BY <1>1, <2>1, <2>2
<1>3. CASE ~(n < 12 /\ offset < 2048)
  <2> DEFINE tag == 2 + 4 * (n - 1)
  <2>1. tag \in Byte
    BY DEF Byte
  <2>2. EmitCopyLessThan64(offset, n) = <<tag, offset % 256, offset \div 256>>
    BY <1>3 DEF EmitCopyLessThan64, COPY_2_BYTE_OFFSET
  <2> HIDE DEF tag
  <2> QED
    BY <1>1, <2>1, <2>2
<1> QED
  BY <1>2, <1>3

\* No piece of a copy is shorter than four bytes or longer than 64, and three
\* bytes for each of them are fewer than the copy has.
LEMMA CopyLengthsAre ==
  ASSUME NEW n \in Nat, n >= 4
  PROVE  /\ CopyLengths(n) \in Seq(Nat)
         /\ \A k \in 1..Len(CopyLengths(n)) : CopyLengths(n)[k] >= 4 /\ CopyLengths(n)[k] <= 64
         /\ 3 * Len(CopyLengths(n)) <= n - 1
<1> DEFINE full == IF n >= 68 THEN (n - 68) \div 64 + 1 ELSE 0
           left == n - 64 * full
           first == [k \in 1..full |-> 64]
           last == IF left > 64 THEN <<60, left - 60>> ELSE <<left>>
           Piece == {m \in Nat : m >= 4 /\ m <= 64}
<1>1. full \in Nat /\ left \in Nat /\ left >= 4 /\ left < 68 /\ n = left + 64 * full
  OBVIOUS
<1>2. CopyLengths(n) = first \o last
  BY DEF CopyLengths
<1> HIDE DEF full
<1>3. 64 \in Piece
  OBVIOUS
<1>4. first \in Seq(Piece) /\ Len(first) = full
  <2> HIDE DEF Piece
  <2>1. first \in [1..full -> Piece]
    BY <1>3
  <2> QED
    BY <1>1, <2>1
<1>5. last \in Seq(Piece) /\ Len(last) = IF left > 64 THEN 2 ELSE 1
  <2>1. CASE left > 64
    <3>1. 60 \in Piece /\ left - 60 \in Piece
      BY <1>1, <2>1
    <3>2. last = <<60, left - 60>>
      BY <2>1
    <3> HIDE DEF Piece, left, last
    <3> QED
      BY <2>1, <3>1, <3>2
  <2>2. CASE ~(left > 64)
    <3>1. left \in Piece
      BY <1>1, <2>2
    <3>2. last = <<left>>
      BY <2>2
    <3> HIDE DEF Piece, left, last
    <3> QED
      BY <2>2, <3>1, <3>2
  <2> QED
    BY <2>1, <2>2
<1> HIDE DEF left, first, last, Piece
<1>6. CopyLengths(n) \in Seq(Piece) /\ Len(CopyLengths(n)) = Len(first) + Len(last)
  BY <1>2, <1>4, <1>5, JoinedOf
<1>7. 3 * Len(CopyLengths(n)) <= n - 1
  <2>1. \A f, l \in Nat : l >= 4 => 3 * (f + 1) <= l + 64 * f - 1
    OBVIOUS
  <2>2. \A f, l \in Nat : l > 64 => 3 * (f + 2) <= l + 64 * f - 1
    OBVIOUS
  <2>3. CASE left > 64
    <3>1. Len(CopyLengths(n)) = full + 2
      BY <1>4, <1>5, <1>6, <2>3
    <3> QED
      BY <1>1, <2>2, <2>3, <3>1
  <2>4. CASE ~(left > 64)
    <3>1. Len(CopyLengths(n)) = full + 1
      BY <1>4, <1>5, <1>6, <2>4
    <3> QED
      BY <1>1, <2>1, <3>1
  <2> QED
    BY <2>3, <2>4
<1>8. \A k \in 1..Len(CopyLengths(n)) : CopyLengths(n)[k] \in Piece
  BY <1>6
<1>9. Piece \subseteq Nat /\ \A m \in Piece : m >= 4 /\ m <= 64
  BY DEF Piece
<1>10. CopyLengths(n) \in Seq(Nat)
  BY <1>6, <1>9, SeqInLarger
<1> QED
  BY <1>7, <1>8, <1>9, <1>10

\* Copies of these lengths, one behind another.
EmitsAs(f, offset, lengths) ==
  /\ f[0] = <<>>
  /\ \A k \in 1..Len(lengths) : /\ f[k - 1] \in Seq(Byte)
                                /\ f[k] = f[k - 1] \o EmitCopyLessThan64(offset, lengths[k])

\* A copy takes fewer bytes than it stands for.
LEMMA EmitCopyIs ==
  ASSUME NEW offset \in Nat, offset < TwoBytes, NEW n \in Nat, n >= 4
  PROVE  /\ EmitCopy(offset, n) \in Seq(Byte) /\ Len(EmitCopy(offset, n)) <= n - 1
         /\ \E f : /\ EmitsAs(f, offset, CopyLengths(n))
                  /\ f[Len(CopyLengths(n))] = EmitCopy(offset, n)
<1> DEFINE lengths == CopyLengths(n)
           m == Len(lengths)
           piece(k) == EmitCopyLessThan64(offset, lengths[k])
           g == [kx \in (1..m) \X Seq(Byte) |-> kx[2] \o piece(kx[1])]
           Is(f) == f = [k \in 0..m |-> IF k = 0 THEN <<>> ELSE f[k - 1] \o piece(k)]
           emitted == CHOOSE f : Is(f)
           T == [k \in 0..m |-> {s \in Seq(Byte) : Len(s) <= 3 * k}]
<1>1. /\ lengths \in Seq(Nat) /\ m \in Nat
      /\ \A k \in 1..m : lengths[k] \in Nat /\ lengths[k] >= 4 /\ lengths[k] <= 64
      /\ 3 * m <= n - 1
  <2>1. lengths \in Seq(Nat) /\ 3 * m <= n - 1
    BY CopyLengthsAre
  <2>2. \A k \in 1..m : lengths[k] >= 4 /\ lengths[k] <= 64
    BY CopyLengthsAre
  <2> HIDE DEF lengths
  <2>3. m \in Nat /\ \A k \in 1..m : lengths[k] \in Nat
    BY <2>1
  <2> QED
    BY <2>1, <2>2, <2>3
<1>2. \A k \in 1..m : piece(k) \in Seq(Byte) /\ Len(piece(k)) <= 3
  BY <1>1, EmitCopyLessThan64Is
<1>3. EmitCopy(offset, n) = emitted[m]
  BY DEF EmitCopy
<1> HIDE DEF m, lengths
<1>4. \A k \in 1..m : \A s \in T[k - 1] : s \in Seq(Byte) /\ s \o piece(k) \in T[k]
  <2> SUFFICES ASSUME NEW k \in 1..m, NEW s \in T[k - 1]
               PROVE  s \in Seq(Byte) /\ s \o piece(k) \in T[k]
    OBVIOUS
  <2>1. k - 1 \in 0..m /\ k \in 0..m
    BY <1>1
  <2>2. s \in Seq(Byte) /\ Len(s) <= 3 * (k - 1) /\ Len(s) \in Nat
    BY <2>1
  <2> DEFINE e == piece(k)
  <2>3. e \in Seq(Byte) /\ Len(e) <= 3 /\ Len(e) \in Nat
    BY <1>2
  <2> HIDE DEF e
  <2>4. s \o e \in Seq(Byte) /\ Len(s \o e) = Len(s) + Len(e)
    BY <2>2, <2>3, Joined
  <2>5. Len(s \o e) <= 3 * k
    BY <2>1, <2>2, <2>3, <2>4
  <2> QED
    BY <2>1, <2>2, <2>4, <2>5 DEF e
<1>5. <<>> \in T[0]
  <2>1. 0 \in 0..m /\ <<>> \in Seq(Byte) /\ Len(<<>>) = 0
    BY <1>1
  <2> QED
    BY <2>1
<1>6. \A k \in 1..m : \A s \in T[k - 1] : g[<<k, s>>] = s \o piece(k)
  BY <1>4
<1>7. PICK f : TurnsTo(m, <<>>, g, f) /\ \A k \in 0..m : f[k] \in T[k]
  <2> HIDE DEF g, T, piece
  <2>1. \A k \in 1..m : \A s \in T[k - 1] : g[<<k, s>>] \in T[k]
    BY <1>4, <1>6
  <2>2. m \in Nat
    BY <1>1
  <2> QED
    BY <1>5, <2>1, <2>2, TurnsTyped
<1>8. Is(f)
  <2>1. \A k \in 0..m : f[k] = IF k = 0 THEN <<>> ELSE f[k - 1] \o piece(k)
    <3>1. \A k \in 0..m : f[k] = IF k = 0 THEN <<>> ELSE g[<<k, f[k - 1]>>]
      BY <1>7 DEF TurnsTo
    <3>2. \A k \in 0..m : k # 0 => k \in 1..m /\ k - 1 \in 0..m
      BY <1>1
    <3> HIDE DEF g, T
    <3> QED
      BY <1>6, <1>7, <3>1, <3>2
  <2>2. f = [k \in 0..m |-> f[k]]
    BY <1>7 DEF TurnsTo
  <2> QED
    BY <2>1, <2>2
<1>9. Is(emitted)
  BY <1>8
<1> HIDE DEF emitted
<1>10. \A k \in 0..m : emitted[k] = IF k = 0 THEN <<>> ELSE emitted[k - 1] \o piece(k)
  BY <1>9
<1>11. \A k \in 0..m : emitted[k] \in T[k]
  <2>1. 0 \in 0..m /\ \A k \in 1..m : k \in 0..m /\ k # 0
    BY <1>1
  <2> HIDE DEF T, piece
  <2>2. emitted[0] = <<>>
    BY <1>10, <2>1, Zenon
  <2>3. \A k \in 1..m : emitted[k] = emitted[k - 1] \o piece(k)
    BY <1>10, <2>1, Zenon
  <2>4. emitted[0] \in T[0]
    BY <1>5, <2>2
  <2>5. \A k \in 1..m : emitted[k - 1] \in T[k - 1] => emitted[k] \in T[k]
    BY <1>4, <2>3
  <2> QED
    BY <1>1, <2>4, <2>5, TurnByTurn
<1>12. emitted[m] \in Seq(Byte) /\ Len(emitted[m]) <= 3 * m /\ Len(emitted[m]) \in Nat
  BY <1>1, <1>11
<1>13. EmitsAs(emitted, offset, lengths)
  <2>1. 0 \in 0..m /\ \A k \in 1..m : k \in 0..m /\ k # 0 /\ k - 1 \in 0..m
    BY <1>1
  <2>2. \A k \in 0..m : emitted[k] \in Seq(Byte)
    BY <1>11
  <2> HIDE DEF T
  <2>3. emitted[0] = <<>>
    BY <1>10, <2>1, Zenon
  <2>4. \A k \in 1..m : emitted[k] = emitted[k - 1] \o piece(k)
    BY <1>10, <2>1, Zenon
  <2> QED
    BY <2>1, <2>2, <2>3, <2>4 DEF EmitsAs, m
<1> QED
  BY <1>1, <1>3, <1>12, <1>13 DEF m, lengths

LEMMA FindMatchLengthIs ==
  ASSUME NEW s \in Seq(Byte), NEW p1 \in Nat, NEW p2 \in Nat, p2 <= Len(s)
  PROVE  FindMatchLength(s, p1, p2) \in Nat /\ FindMatchLength(s, p1, p2) <= Len(s) - p2
<1> DEFINE S == {n \in 0..Len(s) - p2 : \A k \in 1..n : s[p1 + k] = s[p2 + k]}
           room == Len(s) - p2
<1>1. room \in Nat
  OBVIOUS
<1>2. 0 \in S /\ S \in SUBSET (0..room)
  BY <1>1
<1>3. FindMatchLength(s, p1, p2) = Max(S)
  BY DEF FindMatchLength
<1> HIDE DEF S, room
<1>4. PICK k \in S : \A m \in S : m <= k
  BY <1>1, <1>2, Greatest
<1>5. Max(S) \in S
  <2>1. \A m \in S : k >= m
    BY <1>1, <1>2, <1>4
  <2> QED
    BY <2>1 DEF Max
<1>6. Max(S) \in Nat /\ Max(S) <= room
  <2>1. Max(S) \in 0..room
    BY <1>2, <1>5, Zenon
  <2> HIDE DEF S
  <2> QED
    BY <1>1, <2>1
<1> QED
  BY <1>3, <1>6 DEF room

-------------------------------------------------------------------------------
(* Sources. *)

ByteSource == [bytes : Seq(Byte), pos : Nat, fragment : Nat \ {0}]

LEMMA SkipIs ==
  ASSUME NEW src \in ByteSource, NEW n \in Nat
  PROVE  /\ Skip(src, n) \in ByteSource /\ Skip(src, n).bytes = src.bytes
         /\ Skip(src, n).pos = src.pos + n
<1>1. Skip(src, n) = [src EXCEPT !.pos = src.pos + n]
  BY DEF Skip
<1>2. src \in [bytes : Seq(Byte), pos : Nat, fragment : Nat \ {0}] /\ src.pos + n \in Nat
  BY DEF ByteSource
<1> DEFINE p == src.pos + n
<1> HIDE DEF p
<1>3. [src EXCEPT !.pos = p] \in [bytes : Seq(Byte), pos : Nat, fragment : Nat \ {0}]
  BY <1>2 DEF p
<1>4. [src EXCEPT !.pos = p].bytes = src.bytes /\ [src EXCEPT !.pos = p].pos = p
  BY <1>2
<1> QED
  BY <1>1, <1>3, <1>4 DEF p, ByteSource

\* s is a part of bytes, from there on.
PartOf(s, bytes, from) ==
  from + Len(s) <= Len(bytes) /\ \A k \in 1..Len(s) : s[k] = bytes[from + k]

\* Parts one behind another are a part.
LEMMA PartsJoined ==
  ASSUME NEW s \in Seq(Byte), NEW u \in Seq(Byte), NEW bytes \in Seq(Byte), NEW from \in Nat,
         PartOf(s, bytes, from), PartOf(u, bytes, from + Len(s))
  PROVE  PartOf(s \o u, bytes, from)
<1> DEFINE w == s \o u
<1>1. /\ Len(w) = Len(s) + Len(u) /\ Len(s) \in Nat /\ Len(u) \in Nat
      /\ \A k \in 1..Len(s) : w[k] = s[k]
      /\ \A k \in 1..Len(u) : w[Len(s) + k] = u[k]
  BY Joined
<1> HIDE DEF w
<1>2. from + Len(w) <= Len(bytes)
  BY <1>1 DEF PartOf
<1>3. ASSUME NEW k \in 1..Len(w) PROVE w[k] = bytes[from + k]
  <2>1. CASE k <= Len(s)
    <3>1. k \in 1..Len(s)
      BY <1>1, <2>1
    <3> QED
      BY <1>1, <3>1 DEF PartOf
  <2>2. CASE k > Len(s)
    <3> DEFINE i == k - Len(s)
    <3>1. i \in 1..Len(u) /\ Len(s) + i = k /\ (from + Len(s)) + i = from + k
      BY <1>1, <2>2
    <3>2. u[i] = bytes[(from + Len(s)) + i]
      BY <3>1 DEF PartOf
    <3> QED
      BY <1>1, <3>1, <3>2
  <2> QED
    BY <1>1, <2>1, <2>2
<1> QED
  BY <1>2, <1>3 DEF PartOf, w

\* What is at hand is a part of the source, and empty only at the end.
LEMMA PeekIs ==
  ASSUME NEW src \in ByteSource
  PROVE  /\ Peek(src) \in Seq(Byte)
         /\ src.pos < Len(src.bytes) => Len(Peek(src)) >= 1
         /\ src.pos <= Len(src.bytes) => PartOf(Peek(src), src.bytes, src.pos)
<1> DEFINE text == src.bytes
           pos == src.pos
           stop == ((pos \div src.fragment) + 1) * src.fragment
           end == Least(Len(text), stop)
<1>1. text \in Seq(Byte) /\ pos \in Nat /\ src.fragment \in Nat \ {0} /\ Len(text) \in Nat
  BY DEF ByteSource
<1>2. stop \in Nat /\ pos < stop
  BY <1>1, Quotient
<1>3. Peek(src) = SubSeq(text, pos + 1, end)
  BY DEF Peek
<1> HIDE DEF text, pos, stop
<1>4. end \in Nat /\ end <= Len(text) /\ (pos < Len(text) => pos < end)
  BY <1>1, <1>2 DEF Least
<1> HIDE DEF end
<1>5. SubSeq(text, pos + 1, end) \in Seq(Byte)
  BY <1>1, <1>4
<1>6. pos < end => Len(SubSeq(text, pos + 1, end)) >= 1
  BY <1>1, <1>4
<1>7. pos <= Len(text) => PartOf(SubSeq(text, pos + 1, end), text, pos)
  <2> DEFINE s == SubSeq(text, pos + 1, end)
  <2>1. Len(s) = IF pos < end THEN end - pos ELSE 0
    BY <1>1, <1>4
  <2>2. \A k \in 1..Len(s) : s[k] = text[pos + k]
    BY <1>1, <1>4
  <2> HIDE DEF s
  <2>3. pos <= Len(text) => pos + Len(s) <= Len(text)
    BY <1>1, <1>4, <2>1
  <2> QED
    BY <2>2, <2>3 DEF PartOf, s
<1> QED
  BY <1>3, <1>4, <1>5, <1>6, <1>7 DEF text, pos

\* What is gathered is what was asked for, if there is as much.
LEMMA GatheredIs ==
  ASSUME NEW src \in ByteSource, NEW n \in Nat
  PROVE  /\ Gathered(src, n).bytes \in Seq(Byte)
         /\ Len(Gathered(src, n).bytes) <= n
         /\ src.pos + n <= Len(src.bytes) => Len(Gathered(src, n).bytes) = n
         /\ Gathered(src, n).src \in ByteSource
         /\ Gathered(src, n).src = Skip(src, Len(Gathered(src, n).bytes))
         /\ src.pos <= Len(src.bytes) => PartOf(Gathered(src, n).bytes, src.bytes, src.pos)
<1> DEFINE More(some) == some \o Take(Peek(Skip(src, Len(some))), n - Len(some))
           g == [ks \in (1..n) \X Seq(Byte) |-> More(ks[2])]
           Is(f) == f = [turn \in 0..n |-> IF turn = 0 THEN <<>> ELSE More(f[turn - 1])]
           bytes == CHOOSE f : Is(f)
           whole == src.pos + n <= Len(src.bytes)
           inside == src.pos <= Len(src.bytes)
           Good(s, k) == /\ Len(s) <= n /\ (whole => Len(s) >= k)
                         /\ inside => PartOf(s, src.bytes, src.pos)
           T == [k \in 0..n |-> {s \in Seq(Byte) : Good(s, k)}]
<1>1. Gathered(src, n) = [bytes |-> bytes[n], src |-> Skip(src, Len(bytes[n]))]
  BY DEF Gathered
<1>2. ASSUME NEW k \in 1..n, NEW s \in T[k - 1]
      PROVE  s \in Seq(Byte) /\ More(s) \in T[k]
  <2>1. k - 1 \in 0..n /\ k \in 0..n
    OBVIOUS
  <2>15. s \in Seq(Byte) /\ Good(s, k - 1)
    <3> HIDE DEF Good
    <3> QED
      BY <2>1
  <2>2. s \in Seq(Byte) /\ Len(s) \in Nat /\ Len(s) <= n /\ (whole => Len(s) >= k - 1)
    BY <2>15
  <2>13. inside => PartOf(s, src.bytes, src.pos)
    BY <2>15
  <2> DEFINE at == Skip(src, Len(s))
             p == Peek(at)
             t == Take(p, n - Len(s))
  <2>3. at \in ByteSource /\ at.bytes = src.bytes /\ at.pos = src.pos + Len(s)
    BY <2>2, SkipIs
  <2>4. p \in Seq(Byte) /\ (at.pos < Len(at.bytes) => Len(p) >= 1) /\ Len(p) \in Nat
    BY <2>3, PeekIs
  <2>5. n - Len(s) \in Nat
    BY <2>2
  <2>6. t \in Seq(Byte) /\ Len(t) = Least(n - Len(s), Len(p))
    BY <2>4, <2>5, Taken
  <2>7. More(s) = s \o t
    OBVIOUS
  <2>8. s \o t \in Seq(Byte) /\ Len(s \o t) = Len(s) + Len(t) /\ Len(t) \in Nat
    BY <2>2, <2>6, Joined
  <2>9. Len(t) <= n - Len(s)
    BY <2>4, <2>5, <2>6 DEF Least
  <2>10. Len(s) + Len(t) <= n
    BY <2>2, <2>8, <2>9
  <2>11. ASSUME whole PROVE Len(s) + Len(t) >= k
    <3>1. CASE Len(s) = n
      BY <2>2, <2>8, <3>1
    <3>2. CASE Len(s) # n
      <4>1. src.pos \in Nat /\ Len(src.bytes) \in Nat
        BY DEF ByteSource
      <4>2. at.pos < Len(at.bytes)
        BY <2>2, <2>3, <2>11, <3>2, <4>1
      <4>3. Len(t) >= 1
        BY <2>2, <2>4, <2>5, <2>6, <3>2, <4>2 DEF Least
      <4> QED
        BY <2>2, <2>8, <2>11, <4>3
    <3> QED
      BY <3>1, <3>2
  <2>14. ASSUME inside PROVE PartOf(s \o t, src.bytes, src.pos)
    <3>1. src.bytes \in Seq(Byte) /\ src.pos \in Nat
      BY DEF ByteSource
    <3>2. PartOf(s, src.bytes, src.pos)
      BY <2>13, <2>14
    <3>3. src.pos + Len(s) <= Len(src.bytes)
      BY <3>2 DEF PartOf
    <3>4. PartOf(p, src.bytes, src.pos + Len(s))
      <4>1. at.pos <= Len(at.bytes) => PartOf(p, at.bytes, at.pos)
        BY <2>3, PeekIs
      <4> HIDE DEF at, p
      <4> QED
        BY <2>3, <3>3, <4>1
    <3> HIDE DEF p, at
    <3>5. Len(t) <= Len(p) /\ Len(t) \in Nat /\ \A i \in 1..Len(t) : t[i] = p[i]
      <4>1. /\ Len(t) = Least(n - Len(s), Len(p)) /\ Least(n - Len(s), Len(p)) <= Len(p)
            /\ \A i \in 1..Least(n - Len(s), Len(p)) : t[i] = p[i]
        BY <2>4, <2>5, Taken
      <4> HIDE DEF t
      <4> QED
        BY <2>6, <4>1
    <3> HIDE DEF t
    <3>6. PartOf(t, src.bytes, src.pos + Len(s))
      <4>1. (src.pos + Len(s)) + Len(t) <= Len(src.bytes)
        BY <2>2, <2>4, <3>1, <3>4, <3>5 DEF PartOf
      <4>2. \A k1 \in 1..Len(t) : k1 \in 1..Len(p)
        BY <2>4, <3>5
      <4> QED
        BY <3>4, <3>5, <4>1, <4>2 DEF PartOf
    <3> QED
      BY <2>2, <2>6, <3>1, <3>2, <3>6, PartsJoined
  <2> HIDE DEF t, p, at, More, whole, inside
  <2>16. Good(s \o t, k)
    BY <2>8, <2>10, <2>11, <2>14
  <2> HIDE DEF Good
  <2>12. s \o t \in T[k]
    BY <2>1, <2>8, <2>16
  <2> QED
    BY <2>2, <2>7, <2>12
<1>3. <<>> \in T[0]
  <2>1. 0 \in 0..n /\ <<>> \in Seq(Byte) /\ Len(<<>>) = 0
    OBVIOUS
  <2>2. inside => PartOf(<<>>, src.bytes, src.pos)
    <3>1. src.pos \in Nat
      BY DEF ByteSource
    <3> QED
      BY <2>1, <3>1 DEF PartOf
  <2>3. Good(<<>>, 0)
    <3> HIDE DEF inside, whole
    <3> QED
      BY <2>1, <2>2
  <2> HIDE DEF Good
  <2> QED
    BY <2>1, <2>3
<1> HIDE DEF Good
<1>4. \A k \in 1..n : \A s \in T[k - 1] : g[<<k, s>>] = More(s)
  BY <1>2
<1>5. PICK f : TurnsTo(n, <<>>, g, f) /\ \A k \in 0..n : f[k] \in T[k]
  <2> HIDE DEF g, T, More
  <2>1. \A k \in 1..n : \A s \in T[k - 1] : g[<<k, s>>] \in T[k]
    BY <1>2, <1>4
  <2> QED
    BY <1>3, <2>1, TurnsTyped
<1>6. Is(f)
  <2> HIDE DEF g, T, More
  <2>1. \A k \in 0..n : f[k] = IF k = 0 THEN <<>> ELSE g[<<k, f[k - 1]>>]
    BY <1>5 DEF TurnsTo
  <2>2. \A k \in 0..n : k # 0 => k \in 1..n /\ k - 1 \in 0..n
    OBVIOUS
  <2>3. \A k \in 0..n : f[k] = IF k = 0 THEN <<>> ELSE More(f[k - 1])
    BY <1>4, <1>5, <2>1, <2>2
  <2>4. f = [k \in 0..n |-> f[k]]
    BY <1>5 DEF TurnsTo
  <2> QED
    BY <2>3, <2>4
<1>7. Is(bytes)
  BY <1>6
<1> HIDE DEF bytes, More
<1>8. \A k \in 0..n : bytes[k] = IF k = 0 THEN <<>> ELSE More(bytes[k - 1])
  BY <1>7
<1>9. \A k \in 0..n : bytes[k] \in T[k]
  <2>1. 0 \in 0..n /\ \A k \in 1..n : k \in 0..n /\ k # 0
    OBVIOUS
  <2> HIDE DEF T
  <2>2. bytes[0] = <<>>
    BY <1>8, <2>1, Zenon
  <2>3. \A k \in 1..n : bytes[k] = More(bytes[k - 1])
    BY <1>8, <2>1, Zenon
  <2>4. bytes[0] \in T[0]
    BY <1>3, <2>2
  <2>5. \A k \in 1..n : bytes[k - 1] \in T[k - 1] => bytes[k] \in T[k]
    BY <1>2, <2>3
  <2> QED
    BY <2>4, <2>5, TurnByTurn
<1>10. /\ bytes[n] \in Seq(Byte) /\ Len(bytes[n]) <= n /\ (whole => Len(bytes[n]) >= n)
       /\ inside => PartOf(bytes[n], src.bytes, src.pos)
  <2>1. bytes[n] \in Seq(Byte) /\ Good(bytes[n], n)
    BY <1>9
  <2> HIDE DEF inside, whole
  <2> QED
    BY <2>1 DEF Good
<1>11. Len(bytes[n]) \in Nat /\ Skip(src, Len(bytes[n])) \in ByteSource
  <2>1. Len(bytes[n]) \in Nat
    BY <1>10
  <2> QED
    BY <2>1, SkipIs
<1>12. whole => Len(bytes[n]) = n
  BY <1>10, <1>11
<1> QED
  BY <1>1, <1>10, <1>11, <1>12

-------------------------------------------------------------------------------
(* Writers. *)

LEMMA CopiedIs ==
  ASSUME NEW mem \in Seq(Byte), NEW bytes \in Seq(Byte), NEW to \in Nat
  PROVE  Copied(mem, bytes, to) \in Seq(Byte)
<1> DEFINE n == Len(mem)
           m == Len(bytes)
<1>1. n \in Nat /\ m \in Nat /\ DOMAIN mem = 1..n
  OBVIOUS
<1>2. \A i \in 1..n : i > to /\ i <= to + m => bytes[i - to] \in Byte
  OBVIOUS
<1>3. \A i \in 1..n : mem[i] \in Byte
  OBVIOUS
<1>4. Copied(mem, bytes, to) = [i \in 1..n |-> IF i > to /\ i <= to + m THEN bytes[i - to] ELSE mem[i]]
  BY <1>1 DEF Copied
<1> HIDE DEF n, m
<1>5. Copied(mem, bytes, to) \in [1..n -> Byte]
  BY <1>2, <1>3, <1>4
<1> QED
  BY <1>1, <1>5

LEMMA BytesIs ==
  ASSUME NEW mem \in Seq(Byte), NEW from \in Int, NEW n \in Nat
  PROVE  Bytes(mem, from, n) \in Seq(Byte)
<1>1. \A i \in DOMAIN mem : mem[i] \in Byte
  OBVIOUS
<1>2. 0 \in Byte
  BY DEF Byte
<1>3. Bytes(mem, from, n) \in [1..n -> Byte]
  BY <1>1, <1>2 DEF Bytes
<1> QED
  BY <1>3

LEMMA UnalignedCopyIs ==
  ASSUME NEW mem \in Seq(Byte), NEW from \in Int, NEW to \in Nat
  PROVE  UnalignedCopy64(mem, from, to) \in Seq(Byte)
<1>1. 8 \in Nat
  OBVIOUS
<1>2. Bytes(mem, from, 8) \in Seq(Byte)
  BY <1>1, BytesIs
<1> QED
  BY <1>2, CopiedIs DEF UnalignedCopy64

\* Memory after memory, each with a byte more copied.
CopiesByBytes(f, mem, from, to, n) ==
  /\ f[0] = mem
  /\ \A k \in 1..n :
       /\ f[k - 1] \in Seq(Byte)
       /\ f[k] = Copied(f[k - 1], Bytes(f[k - 1], from + k - 1, 1), to + k - 1)

LEMMA IncrementalCopyIs ==
  ASSUME NEW mem \in Seq(Byte), NEW from \in Int, NEW to \in Nat, NEW n \in Nat
  PROVE  /\ IncrementalCopy(mem, from, to, n) \in Seq(Byte)
         /\ \E f : /\ CopiesByBytes(f, mem, from, to, n)
                  /\ f[n] = IncrementalCopy(mem, from, to, n)
<1> DEFINE ByteCopied(m, k) == Copied(m, Bytes(m, from + k - 1, 1), to + k - 1)
           g == [km \in (1..n) \X Seq(Byte) |-> ByteCopied(km[2], km[1])]
           Is(f) == f = [k \in 0..n |-> IF k = 0 THEN mem ELSE ByteCopied(f[k - 1], k)]
           after == CHOOSE f : Is(f)
           T == [k \in 0..n |-> Seq(Byte)]
<1>1. IncrementalCopy(mem, from, to, n) = after[n]
  BY DEF IncrementalCopy
<1>2. ASSUME NEW k \in 1..n, NEW m \in T[k - 1]
      PROVE  m \in Seq(Byte) /\ ByteCopied(m, k) \in T[k]
  <2>1. k - 1 \in 0..n /\ k \in 0..n /\ 1 \in Nat /\ from + k - 1 \in Int /\ to + k - 1 \in Nat
    OBVIOUS
  <2>2. m \in Seq(Byte)
    BY <2>1
  <2>3. Bytes(m, from + k - 1, 1) \in Seq(Byte)
    BY <2>1, <2>2, BytesIs
  <2>4. ByteCopied(m, k) \in Seq(Byte)
    BY <2>1, <2>2, <2>3, CopiedIs
  <2> QED
    BY <2>1, <2>2, <2>4
<1>3. mem \in T[0]
  BY 0 \in 0..n
<1>4. \A k \in 1..n : \A m \in T[k - 1] : g[<<k, m>>] = ByteCopied(m, k)
  BY <1>2
<1>5. PICK f : TurnsTo(n, mem, g, f) /\ \A k \in 0..n : f[k] \in T[k]
  <2> HIDE DEF g, T, ByteCopied
  <2>1. \A k \in 1..n : \A m \in T[k - 1] : g[<<k, m>>] \in T[k]
    BY <1>2, <1>4
  <2> QED
    BY <1>3, <2>1, TurnsTyped
<1>6. Is(f)
  <2> HIDE DEF g, T, ByteCopied
  <2>1. \A k \in 0..n : f[k] = IF k = 0 THEN mem ELSE g[<<k, f[k - 1]>>]
    BY <1>5 DEF TurnsTo
  <2>2. \A k \in 0..n : k # 0 => k \in 1..n /\ k - 1 \in 0..n
    OBVIOUS
  <2>3. \A k \in 0..n : f[k] = IF k = 0 THEN mem ELSE ByteCopied(f[k - 1], k)
    BY <1>4, <1>5, <2>1, <2>2
  <2>4. f = [k \in 0..n |-> f[k]]
    BY <1>5 DEF TurnsTo
  <2> QED
    BY <2>3, <2>4
<1>7. Is(after)
  BY <1>6
<1> HIDE DEF after, ByteCopied
<1>8. \A k \in 0..n : after[k] = IF k = 0 THEN mem ELSE ByteCopied(after[k - 1], k)
  BY <1>7
<1>9. \A k \in 0..n : after[k] \in T[k]
  <2>1. 0 \in 0..n /\ \A k \in 1..n : k \in 0..n /\ k # 0
    OBVIOUS
  <2> HIDE DEF T
  <2>2. after[0] = mem
    BY <1>8, <2>1, Zenon
  <2>3. \A k \in 1..n : after[k] = ByteCopied(after[k - 1], k)
    BY <1>8, <2>1, Zenon
  <2>4. after[0] \in T[0]
    BY <1>3, <2>2
  <2>5. \A k \in 1..n : after[k - 1] \in T[k - 1] => after[k] \in T[k]
    BY <1>2, <2>3
  <2> QED
    BY <2>4, <2>5, TurnByTurn
<1>10. CopiesByBytes(after, mem, from, to, n)
  <2>1. 0 \in 0..n /\ \A k \in 1..n : k \in 0..n /\ k # 0 /\ k - 1 \in 0..n
    OBVIOUS
  <2>2. \A k \in 0..n : after[k] \in Seq(Byte)
    BY <1>9
  <2> HIDE DEF T
  <2>3. after[0] = mem
    BY <1>8, <2>1, Zenon
  <2>4. \A k \in 1..n : after[k] = ByteCopied(after[k - 1], k)
    BY <1>8, <2>1, Zenon
  <2> QED
    BY <2>1, <2>2, <2>3, <2>4 DEF CopiesByBytes, ByteCopied
<1> QED
  BY <1>1, <1>9, <1>10, n \in 0..n

\* A copy on the fast path: the two ends are at most eight apart while the pattern
\* is doubled, and what is still to be copied is in front of the end.
CopyState(op, n, d) ==
  {c \in [mem : Seq(Byte), from : Nat, to : Nat, len : Int, end : Nat] :
     /\ c.from < c.to
     /\ c.to + c.len = op + n
     /\ c.end <= op + n + kMaxIncrementCopyOverflow
     /\ c.to - c.from < 8 => /\ c.to = op + (c.to - c.from) - d
                             /\ c.to - c.from \in {d, 2 * d, 4 * d}}

LEMMA GapDoubled ==
  ASSUME NEW op \in Nat, NEW n \in Nat, n >= 1, NEW d \in Nat, d >= 1,
         NEW from \in Nat, NEW to \in Nat, NEW len \in Int, NEW gap \in Nat,
         gap = to - from, gap < 8, to + len = op + n, to = op + gap - d,
         gap = d \/ gap = 2 * d \/ gap = 4 * d
  PROVE  /\ to + gap \in Nat /\ len - gap \in Int /\ to + 8 \in Nat /\ from < to + gap
         /\ (to + gap) + (len - gap) = op + n
         /\ to + 8 <= op + n + 10
         /\ (to + gap) - from = 2 * gap /\ to + gap = op + 2 * gap - d
         /\ 2 * gap < 8 => 2 * gap = 2 * d \/ 2 * gap = 4 * d
<1>1. to + gap \in Nat /\ len - gap \in Int /\ to + 8 \in Nat
  OBVIOUS
<1>2. from < to + gap
  OBVIOUS
<1>3. (to + gap) + (len - gap) = op + n
  OBVIOUS
<1>4. gap - d <= 3
  OBVIOUS
<1>5. to + 8 <= op + n + 10
  BY <1>4
<1>6. (to + gap) - from = 2 * gap /\ to + gap = op + 2 * gap - d
  OBVIOUS
<1>7. 2 * gap < 8 => 2 * gap = 2 * d \/ 2 * gap = 4 * d
  OBVIOUS
<1> QED
  BY <1>1, <1>2, <1>3, <1>5, <1>6, <1>7

LEMMA GapKept ==
  ASSUME NEW op \in Nat, NEW n \in Nat,
         NEW from \in Nat, NEW to \in Nat, NEW len \in Int, from < to, len > 0, to + len = op + n
  PROVE  /\ to + 8 \in Nat /\ from + 8 \in Nat /\ len - 8 \in Int
         /\ from + 8 < to + 8 /\ (to + 8) + (len - 8) = op + n
         /\ to + 8 <= op + n + 10
         /\ (to + 8) - (from + 8) = to - from
OBVIOUS

LEMMA EightCopiedIs ==
  ASSUME NEW op \in Nat, NEW n \in Nat, n >= 1, NEW d \in Nat, d >= 1,
         NEW c \in CopyState(op, n, d)
  PROVE  EightCopied(c) \in CopyState(op, n, d)
<1> DEFINE gap == c.to - c.from
           step == IF gap < 8 THEN gap ELSE 8
           mem == UnalignedCopy64(c.mem, c.from, c.to)
           e == [mem |-> mem, from |-> IF gap < 8 THEN c.from ELSE c.from + 8,
                 to |-> c.to + step, len |-> c.len - step, end |-> c.to + 8]
<1>1. /\ c.mem \in Seq(Byte) /\ c.from \in Nat /\ c.to \in Nat /\ c.len \in Int
      /\ c.from < c.to /\ c.to + c.len = op + n
      /\ gap < 8 => c.to = op + gap - d /\ gap \in {d, 2 * d, 4 * d}
  BY DEF CopyState
<1>2. EightCopied(c) = IF gap >= 8 /\ c.len <= 0 THEN c ELSE e
  BY DEF EightCopied
<1>3. mem \in Seq(Byte)
  BY <1>1, UnalignedCopyIs
<1> HIDE DEF mem
<1>4. CASE gap >= 8 /\ c.len <= 0
  BY <1>2, <1>4
<1>5. CASE gap < 8
  <2>1. e = [mem |-> mem, from |-> c.from, to |-> c.to + gap, len |-> c.len - gap, end |-> c.to + 8]
    BY <1>5
  <2>2. gap \in Nat /\ gap >= 1
    BY <1>1
  <2>3. gap = d \/ gap = 2 * d \/ gap = 4 * d
    BY <1>1, <1>5
  <2>4. /\ c.to + gap \in Nat /\ c.len - gap \in Int /\ c.to + 8 \in Nat /\ c.from < c.to + gap
        /\ (c.to + gap) + (c.len - gap) = op + n
        /\ c.to + 8 <= op + n + 10
        /\ (c.to + gap) - c.from = 2 * gap /\ c.to + gap = op + 2 * gap - d
        /\ 2 * gap < 8 => 2 * gap = 2 * d \/ 2 * gap = 4 * d
    <3>1. gap = c.to - c.from
      OBVIOUS
    <3>2. c.from \in Nat /\ c.to \in Nat /\ c.len \in Int /\ c.to + c.len = op + n /\ c.to = op + gap - d
      BY <1>1, <1>5
    <3> DEFINE from == c.from
               to == c.to
               len == c.len
    <3> HIDE DEF gap, from, to, len
    <3>3. from \in Nat /\ to \in Nat /\ len \in Int /\ to + len = op + n /\ to = op + gap - d /\ gap = to - from
      BY <3>1, <3>2 DEF from, to, len
    <3>4. /\ to + gap \in Nat /\ len - gap \in Int /\ to + 8 \in Nat /\ from < to + gap
          /\ (to + gap) + (len - gap) = op + n
          /\ to + 8 <= op + n + 10
          /\ (to + gap) - from = 2 * gap /\ to + gap = op + 2 * gap - d
          /\ 2 * gap < 8 => 2 * gap = 2 * d \/ 2 * gap = 4 * d
      BY <1>5, <2>2, <2>3, <3>3, GapDoubled
    <3> QED
      BY <3>4 DEF from, to, len
  <2>6. 2 * gap < 8 => 2 * gap \in {d, 2 * d, 4 * d}
    BY <2>4
  <2> HIDE DEF gap
  <2>7. e \in [mem : Seq(Byte), from : Nat, to : Nat, len : Int, end : Nat]
    BY <1>1, <1>3, <2>1, <2>4
  <2>8. e.from = c.from /\ e.to = c.to + gap /\ e.len = c.len - gap /\ e.end = c.to + 8
    BY <2>1
  <2>9. e \in CopyState(op, n, d)
    BY <2>4, <2>6, <2>7, <2>8 DEF CopyState, kMaxIncrementCopyOverflow
  <2> QED
    BY <1>2, <1>5, <2>9
<1>6. CASE ~(gap < 8) /\ ~(c.len <= 0)
  <2>1. e = [mem |-> mem, from |-> c.from + 8, to |-> c.to + 8, len |-> c.len - 8, end |-> c.to + 8]
    BY <1>6
  <2>2. /\ c.to + 8 \in Nat /\ c.from + 8 \in Nat /\ c.len - 8 \in Int
        /\ c.from + 8 < c.to + 8 /\ (c.to + 8) + (c.len - 8) = op + n
        /\ c.to + 8 <= op + n + 10
        /\ (c.to + 8) - (c.from + 8) = c.to - c.from
    <3> DEFINE from == c.from
               to == c.to
               len == c.len
    <3>1. /\ len > 0 /\ from \in Nat /\ to \in Nat /\ len \in Int
          /\ from < to /\ to + len = op + n
      BY <1>1, <1>6
    <3> HIDE DEF from, to, len
    <3>2. /\ to + 8 \in Nat /\ from + 8 \in Nat /\ len - 8 \in Int
          /\ from + 8 < to + 8 /\ (to + 8) + (len - 8) = op + n
          /\ to + 8 <= op + n + 10
          /\ (to + 8) - (from + 8) = to - from
      BY <3>1, GapKept
    <3> QED
      BY <3>2 DEF from, to, len
  <2>6. gap \in Int /\ (c.to + 8) - (c.from + 8) = gap
    <3> DEFINE from == c.from
               to == c.to
    <3>1. from \in Nat /\ to \in Nat
      BY <1>1
    <3> HIDE DEF from, to
    <3>2. to - from \in Int /\ (to + 8) - (from + 8) = to - from
      BY <3>1
    <3> QED
      BY <3>2 DEF from, to
  <2> HIDE DEF gap
  <2>3. e \in [mem : Seq(Byte), from : Nat, to : Nat, len : Int, end : Nat]
    BY <1>3, <2>1, <2>2
  <2>4. e.from = c.from + 8 /\ e.to = c.to + 8 /\ e.len = c.len - 8 /\ e.end = c.to + 8
    BY <2>1
  <2>5. e \in CopyState(op, n, d)
    BY <1>6, <2>2, <2>3, <2>4, <2>6 DEF CopyState, kMaxIncrementCopyOverflow
  <2> QED
    BY <1>2, <1>6, <2>5
<1>7. gap \in Int /\ c.len \in Int
  BY <1>1
<1> QED
  BY <1>4, <1>5, <1>6, <1>7

\* Turn by turn eight bytes more.
CopiesByEights(f, mem, from, to, n) ==
  /\ f[0] = [mem |-> mem, from |-> from, to |-> to, len |-> n, end |-> to]
  /\ \A k \in 1..n + 3 : f[k] = EightCopied(f[k - 1])
  /\ \A k \in 0..n + 3 : f[k] \in CopyState(to, n, to - from)

LEMMA FastPathIs ==
  ASSUME NEW mem \in Seq(Byte), NEW from \in Nat, NEW to \in Nat, from < to,
         NEW n \in Nat, n >= 1
  PROVE  /\ IncrementalCopyFastPath(mem, from, to, n) \in CopyState(to, n, to - from)
         /\ \E f : /\ CopiesByEights(f, mem, from, to, n)
                  /\ f[n + 3] = IncrementalCopyFastPath(mem, from, to, n)
<1> DEFINE start == [mem |-> mem, from |-> from, to |-> to, len |-> n, end |-> to]
           d == to - from
           m == n + 3
           S == CopyState(to, n, d)
           g == [kc \in (1..m) \X S |-> EightCopied(kc[2])]
           Is(f) == f = [k \in 0..m |-> IF k = 0 THEN start ELSE EightCopied(f[k - 1])]
           after == CHOOSE f : Is(f)
           T == [k \in 0..m |-> S]
<1>1. IncrementalCopyFastPath(mem, from, to, n) = after[m]
  BY DEF IncrementalCopyFastPath
<1>2. d \in Nat /\ d >= 1 /\ m \in Nat
  OBVIOUS
<1>3. start \in S
  <2>1. start \in [mem : Seq(Byte), from : Nat, to : Nat, len : Int, end : Nat]
    OBVIOUS
  <2>2. to + n = to + n /\ to <= to + n + 10 /\ to = to + d - d
    BY <1>2
  <2>3. start.from = from /\ start.to = to /\ start.len = n /\ start.end = to
    OBVIOUS
  <2>4. start.to - start.from = d /\ d \in {d, 2 * d, 4 * d}
    BY <2>3
  <2> HIDE DEF start, d
  <2> QED
    BY <2>1, <2>2, <2>3, <2>4 DEF CopyState, kMaxIncrementCopyOverflow
<1>4. \A c \in S : EightCopied(c) \in S
  <2> HIDE DEF d
  <2> QED
    BY <1>2, EightCopiedIs
<1> HIDE DEF start, S, d, m
<1>5. \A k \in 1..m : \A c \in T[k - 1] : c \in S /\ EightCopied(c) \in T[k]
  <2>1. \A k \in 1..m : k - 1 \in 0..m /\ k \in 0..m
    BY <1>2
  <2>2. \A k \in 1..m : T[k - 1] = S /\ T[k] = S
    BY <2>1
  <2> HIDE DEF T
  <2> QED
    BY <1>4, <2>2
<1>6. start \in T[0]
  BY <1>2, <1>3, 0 \in 0..m
<1>7. \A k \in 1..m : \A c \in T[k - 1] : g[<<k, c>>] = EightCopied(c)
  BY <1>5
<1>8. PICK f : TurnsTo(m, start, g, f) /\ \A k \in 0..m : f[k] \in T[k]
  <2> HIDE DEF g, T
  <2>1. \A k \in 1..m : \A c \in T[k - 1] : g[<<k, c>>] \in T[k]
    BY <1>5, <1>7
  <2> QED
    BY <1>2, <1>6, <2>1, TurnsTyped
<1>9. Is(f)
  <2> HIDE DEF g, T
  <2>1. \A k \in 0..m : f[k] = IF k = 0 THEN start ELSE g[<<k, f[k - 1]>>]
    BY <1>8 DEF TurnsTo
  <2>2. \A k \in 0..m : k # 0 => k \in 1..m /\ k - 1 \in 0..m
    BY <1>2
  <2>3. \A k \in 0..m : f[k] = IF k = 0 THEN start ELSE EightCopied(f[k - 1])
    BY <1>7, <1>8, <2>1, <2>2
  <2>4. f = [k \in 0..m |-> f[k]]
    BY <1>8 DEF TurnsTo
  <2> QED
    BY <2>3, <2>4
<1>10. Is(after)
  BY <1>9
<1> HIDE DEF after
<1>11. \A k \in 0..m : after[k] = IF k = 0 THEN start ELSE EightCopied(after[k - 1])
  BY <1>10
<1>12. \A k \in 0..m : after[k] \in T[k]
  <2>1. 0 \in 0..m /\ \A k \in 1..m : k \in 0..m /\ k # 0
    BY <1>2
  <2> HIDE DEF T
  <2>2. after[0] = start
    BY <1>11, <2>1, Zenon
  <2>3. \A k \in 1..m : after[k] = EightCopied(after[k - 1])
    BY <1>11, <2>1, Zenon
  <2>4. after[0] \in T[0]
    BY <1>6, <2>2
  <2>5. \A k \in 1..m : after[k - 1] \in T[k - 1] => after[k] \in T[k]
    BY <1>5, <2>3
  <2> QED
    BY <1>2, <2>4, <2>5, TurnByTurn
<1>13. after[m] \in S
  BY <1>2, <1>12, m \in 0..m
<1>14. CopiesByEights(after, mem, from, to, n)
  <2>1. 0 \in 0..m /\ \A k \in 1..m : k \in 0..m /\ k # 0
    BY <1>2
  <2>2. \A k \in 0..m : after[k] \in S
    BY <1>12
  <2> HIDE DEF T
  <2>3. after[0] = start
    BY <1>11, <2>1, Zenon
  <2>4. \A k \in 1..m : after[k] = EightCopied(after[k - 1])
    BY <1>11, <2>1, Zenon
  <2> QED
    BY <2>2, <2>3, <2>4 DEF CopiesByEights, S, d, m, start
<1> QED
  BY <1>1, <1>13, <1>14 DEF S, d, m

\* A writer, and a write that stays inside.
WriterState ==
  {w \in [mem : Seq(Byte), op : Nat, expected : Nat] : w.op <= w.expected}

StaysInside(r, w) ==
  /\ r.w \in WriterState /\ r.w.expected = w.expected
  /\ r.end \in Nat /\ r.end <= w.expected

LEMMA RefusedStays ==
  ASSUME NEW w \in WriterState
  PROVE  StaysInside(Refused(w), w)
<1>1. w.expected \in Nat
  BY DEF WriterState
<1>2. Refused(w).w = w /\ Refused(w).end = 0
  BY DEF Refused
<1> QED
  BY <1>1, <1>2 DEF StaysInside

LEMMA WrittenStays ==
  ASSUME NEW w \in WriterState, NEW mem \in Seq(Byte), NEW n \in Nat, NEW end \in Nat,
         w.op + n <= w.expected, end <= w.expected
  PROVE  StaysInside(Written(w, mem, n, end), w)
<1>1. w \in [mem : Seq(Byte), op : Nat, expected : Nat]
  BY DEF WriterState
<1> DEFINE op == w.op + n
           x == [w EXCEPT !.mem = mem, !.op = op]
<1>2. op \in Nat /\ op <= w.expected
  BY <1>1
<1>3. Written(w, mem, n, end).w = x /\ Written(w, mem, n, end).end = end
  BY DEF Written
<1> HIDE DEF op
<1>4. x \in [mem : Seq(Byte), op : Nat, expected : Nat] /\ x.op = op /\ x.expected = w.expected
  BY <1>1, <1>2
<1> HIDE DEF x
<1>5. x \in WriterState
  BY <1>2, <1>4 DEF WriterState
<1> QED
  BY <1>3, <1>4, <1>5 DEF StaysInside

LEMMA AppendStays ==
  ASSUME NEW w \in WriterState, NEW bytes \in Seq(Byte)
  PROVE  StaysInside(Append_(w, bytes), w)
<1>1. w.mem \in Seq(Byte) /\ w.op \in Nat /\ w.expected \in Nat /\ w.op <= w.expected
  BY DEF WriterState
<1>2. CASE Space(w) < Len(bytes)
  BY <1>2, RefusedStays DEF Append_
<1>3. CASE ~(Space(w) < Len(bytes))
  <2> DEFINE n == Len(bytes)
             mem == Copied(w.mem, bytes, w.op)
  <2>1. n \in Nat
    OBVIOUS
  <2>2. mem \in Seq(Byte)
    BY <1>1, CopiedIs
  <2>3. Append_(w, bytes) = Written(w, mem, n, w.op + n)
    BY <1>3 DEF Append_
  <2>4. ~(w.expected - w.op < n)
    BY <1>3 DEF Space
  <2> HIDE DEF n, mem
  <2>5. w.op + n <= w.expected /\ w.op + n \in Nat
    BY <1>1, <2>1, <2>4
  <2> QED
    BY <2>1, <2>2, <2>3, <2>5, WrittenStays
<1> QED
  BY <1>2, <1>3

LEMMA FastAppendStays ==
  ASSUME NEW w \in WriterState, NEW bytes \in Seq(Byte), NEW n \in Nat, NEW validating
  PROVE  StaysInside(TryFastAppend(w, validating, bytes, n), w)
<1>1. w.mem \in Seq(Byte) /\ w.op \in Nat /\ w.expected \in Nat /\ w.op <= w.expected
  BY DEF WriterState
<1> DEFINE fast == ~validating /\ n <= 16 /\ Len(bytes) >= 16 /\ Space(w) >= 16
<1>2. CASE ~fast
  BY <1>2, RefusedStays DEF TryFastAppend
<1>3. CASE fast
  <2> DEFINE front == SubSeq(bytes, 1, 16)
             mem == Copied(w.mem, front, w.op)
  <2>1. front \in Seq(Byte)
    BY <1>3
  <2> HIDE DEF front
  <2>2. mem \in Seq(Byte)
    BY <1>1, <2>1, CopiedIs
  <2>3. TryFastAppend(w, validating, bytes, n) = Written(w, mem, n, w.op + 16)
    BY <1>3 DEF TryFastAppend, front
  <2>4. w.expected - w.op >= 16 /\ n <= 16
    BY <1>3 DEF Space
  <2> HIDE DEF mem, fast
  <2>5. w.op + n <= w.expected /\ w.op + 16 \in Nat /\ w.op + 16 <= w.expected
    BY <1>1, <2>4
  <2> QED
    BY <2>2, <2>3, <2>5, WrittenStays
<1> QED
  BY <1>2, <1>3

LEMMA AppendFromSelfStays ==
  ASSUME NEW w \in WriterState, NEW offset \in Nat, NEW n \in Nat, n >= 1
  PROVE  StaysInside(AppendFromSelf(w, offset, n), w)
<1>1. w.mem \in Seq(Byte) /\ w.op \in Nat /\ w.expected \in Nat /\ w.op <= w.expected
  BY DEF WriterState
<1> DEFINE from == w.op - offset
           short == n <= 16 /\ offset >= 8 /\ Space(w) >= 16
           refused == ~Behind(w, offset) \/ (Space(w) < n /\ ~short)
           inTwo == UnalignedCopy64(UnalignedCopy64(w.mem, from, w.op), from + 8, w.op + 8)
           fast == IncrementalCopyFastPath(w.mem, from, w.op, n)
           slow == IncrementalCopy(w.mem, from, w.op, n)
<1>2. AppendFromSelf(w, offset, n) =
        IF refused THEN Refused(w)
        ELSE IF short THEN Written(w, inTwo, n, w.op + 16)
        ELSE IF FastRoom(w, n) THEN Written(w, fast.mem, n, fast.end)
        ELSE Written(w, slow, n, w.op + n)
  BY DEF AppendFromSelf
<1>3. Space(w) = w.expected - w.op /\ Space(w) \in Int
  BY <1>1 DEF Space
<1>4. ~refused => from \in Nat /\ from < w.op
  BY <1>1 DEF Behind
<1>5. CASE refused
  <2> HIDE DEF refused, short, inTwo, fast, slow
  <2> QED
    BY <1>2, <1>5, RefusedStays
<1>6. CASE ~refused /\ short
  <2>1. n <= 16 /\ w.expected - w.op >= 16
    BY <1>3, <1>6
  <2>2. w.op + n <= w.expected /\ w.op + 16 \in Nat /\ w.op + 16 <= w.expected /\ w.op + 8 \in Nat
    BY <1>1, <2>1
  <2>3. from \in Int /\ from + 8 \in Int
    BY <1>4, <1>6
  <2> HIDE DEF from, refused, short
  <2>4. UnalignedCopy64(w.mem, from, w.op) \in Seq(Byte)
    BY <1>1, <2>3, UnalignedCopyIs
  <2>5. inTwo \in Seq(Byte)
    BY <2>2, <2>3, <2>4, UnalignedCopyIs
  <2> HIDE DEF inTwo, fast, slow
  <2>6. AppendFromSelf(w, offset, n) = Written(w, inTwo, n, w.op + 16)
    BY <1>2, <1>6
  <2> QED
    BY <2>2, <2>5, <2>6, WrittenStays
<1>7. CASE ~refused /\ ~short /\ FastRoom(w, n)
  <2>1. w.expected - w.op >= n + 10
    BY <1>3, <1>7 DEF FastRoom, kMaxIncrementCopyOverflow
  <2>2. w.op + n <= w.expected /\ w.op + n + 10 <= w.expected
    BY <1>1, <2>1
  <2>3. from \in Nat /\ from < w.op
    BY <1>4, <1>7
  <2> HIDE DEF from, refused, short
  <2>4. fast \in CopyState(w.op, n, w.op - from)
    BY <1>1, <2>3, FastPathIs
  <2> HIDE DEF inTwo, fast, slow
  <2>5. fast.mem \in Seq(Byte) /\ fast.end \in Nat /\ fast.end <= w.op + n + 10
    BY <2>4 DEF CopyState, kMaxIncrementCopyOverflow
  <2>6. fast.end <= w.expected
    <3> DEFINE end == fast.end
    <3>1. end \in Nat /\ end <= w.op + n + 10
      BY <2>5
    <3> HIDE DEF end
    <3>2. end <= w.expected
      BY <1>1, <2>2, <3>1
    <3> QED
      BY <3>2 DEF end
  <2>7. AppendFromSelf(w, offset, n) = Written(w, fast.mem, n, fast.end)
    BY <1>2, <1>7
  <2> QED
    BY <2>2, <2>5, <2>6, <2>7, WrittenStays
<1>8. CASE ~refused /\ ~short /\ ~FastRoom(w, n)
  <2>1. ~(w.expected - w.op < n)
    BY <1>3, <1>8
  <2>2. w.op + n <= w.expected /\ w.op + n \in Nat
    BY <1>1, <2>1
  <2>3. from \in Int
    BY <1>4, <1>8
  <2> HIDE DEF from, refused, short
  <2>4. slow \in Seq(Byte)
    BY <1>1, <2>3, IncrementalCopyIs
  <2> HIDE DEF inTwo, fast, slow
  <2>5. AppendFromSelf(w, offset, n) = Written(w, slow, n, w.op + n)
    BY <1>2, <1>8
  <2> QED
    BY <2>2, <2>4, <2>5, WrittenStays
<1> QED
  BY <1>5, <1>6, <1>7, <1>8

-------------------------------------------------------------------------------
(* The decompressor's buffer. *)

DecState ==
  [src : ByteSource, buf : Seq(Byte), peeked : Nat, literal : Nat, eof : BOOLEAN,
   caller : Caller \cup {"none"}, short : BOOLEAN]

\* A whole tag is at hand.
TagAtHand(d) == d.buf # <<>> /\ Len(d.buf) >= Needed(d)

LEMMA NeededIs ==
  ASSUME NEW d \in DecState, d.buf # <<>>
  PROVE  /\ Head(d.buf) \in Byte /\ Needed(d) \in Nat /\ Needed(d) <= 5
         /\ Needed(d) = char_table(Head(d.buf)).extra + 1
<1>1. d.buf \in Seq(Byte)
  BY DEF DecState
<1>2. Head(d.buf) \in Byte
  BY <1>1
<1>3. char_table(Head(d.buf)) \in TagEntry
  BY <1>2, EntryIs
<1>4. char_table(Head(d.buf)).extra \in 0..4
  BY <1>3 DEF TagEntry
<1> QED
  BY <1>2, <1>4 DEF Needed

LEMMA FetchedIs ==
  ASSUME NEW d \in DecState
  PROVE  Fetched(d) \in DecState
<1>1. CASE d.buf # <<>>
  BY <1>1 DEF Fetched
<1>2. CASE d.buf = <<>>
  <2> DEFINE src == Skip(d.src, d.peeked)
             p == Peek(src)
             m == Len(p)
  <2>1. d.src \in ByteSource /\ d.peeked \in Nat
    BY DEF DecState
  <2>2. src \in ByteSource
    BY <2>1, SkipIs
  <2>3. p \in Seq(Byte)
    BY <2>2, PeekIs
  <2>4. m \in Nat
    BY <2>3
  <2>5. Fetched(d) = [d EXCEPT !.src = src, !.buf = p, !.peeked = m]
    BY <1>2 DEF Fetched
  <2> HIDE DEF src, p, m
  <2> QED
    BY <2>2, <2>3, <2>4, <2>5 DEF DecState
<1> QED
  BY <1>1, <1>2

LEMMA RefillTagIs ==
  ASSUME NEW d \in DecState
  PROVE  RefillTag(d).d \in DecState /\ (RefillTag(d).go => TagAtHand(RefillTag(d).d))
<1> DEFINE f == Fetched(d)
           more == Needed(f) - Len(f.buf)
           rest == IF f.buf = <<>> \/ Len(f.buf) >= Needed(f)
                   THEN [bytes |-> <<>>, src |-> Skip(f.src, f.peeked)]
                   ELSE Gathered(Skip(f.src, f.peeked), more)
           scratch == [f EXCEPT !.buf = @ \o rest.bytes, !.src = rest.src, !.peeked = 0]
<1>1. RefillTag(d) =
        IF f.buf = <<>> THEN [go |-> FALSE, d |-> [f EXCEPT !.eof = TRUE]]
        ELSE IF Len(f.buf) < 5 THEN [go |-> Len(scratch.buf) >= Needed(f), d |-> scratch]
        ELSE [go |-> TRUE, d |-> f]
  BY DEF RefillTag
<1>2. f \in DecState
  BY FetchedIs
<1> HIDE DEF f
<1>3. f.src \in ByteSource /\ f.peeked \in Nat /\ f.buf \in Seq(Byte)
  BY <1>2 DEF DecState
<1>4. CASE f.buf = <<>>
  <2>1. RefillTag(d) = [go |-> FALSE, d |-> [f EXCEPT !.eof = TRUE]]
    BY <1>1, <1>4
  <2>2. [f EXCEPT !.eof = TRUE] \in DecState
    BY <1>2 DEF DecState
  <2> QED
    BY <2>1, <2>2
<1>5. CASE f.buf # <<>> /\ Len(f.buf) < 5
  <2>1. Head(f.buf) \in Byte /\ Needed(f) \in Nat /\ Needed(f) = char_table(Head(f.buf)).extra + 1
    BY <1>2, <1>5, NeededIs
  <2>2. Skip(f.src, f.peeked) \in ByteSource
    BY <1>3, SkipIs
  <2>3. rest.bytes \in Seq(Byte) /\ rest.src \in ByteSource
    <3>1. CASE Len(f.buf) >= Needed(f)
      <4>1. rest = [bytes |-> <<>>, src |-> Skip(f.src, f.peeked)]
        BY <3>1
      <4>2. <<>> \in Seq(Byte)
        OBVIOUS
      <4> HIDE DEF rest
      <4> QED
        BY <2>2, <4>1, <4>2
    <3>2. CASE ~(Len(f.buf) >= Needed(f))
      <4>1. rest = Gathered(Skip(f.src, f.peeked), more)
        BY <1>5, <3>2
      <4>2. more \in Nat
        <5> DEFINE l == Len(f.buf)
                   m == Needed(f)
        <5>1. l \in Nat /\ m \in Nat /\ ~(l >= m)
          BY <1>3, <2>1, <3>2
        <5> HIDE DEF l, m
        <5>2. m - l \in Nat
          BY <5>1
        <5> QED
          BY <5>2 DEF l, m
      <4> HIDE DEF rest, more
      <4> QED
        BY <2>2, <4>1, <4>2, GatheredIs
    <3> QED
      BY <3>1, <3>2
  <2> HIDE DEF rest
  <2> DEFINE b == f.buf \o rest.bytes
  <2>4. b \in Seq(Byte) /\ b # <<>> /\ Head(b) = Head(f.buf)
    BY <1>3, <1>5, <2>3, HeadJoined
  <2>5. scratch = [f EXCEPT !.buf = b, !.src = rest.src, !.peeked = 0]
    BY <1>2 DEF DecState
  <2> HIDE DEF b, scratch
  <2>6. scratch \in DecState /\ scratch.buf = b
    <3> DEFINE x == rest.src
    <3>1. x \in ByteSource
      BY <2>3
    <3> HIDE DEF x
    <3>2. [f EXCEPT !.buf = b, !.src = x, !.peeked = 0] \in DecState
      BY <1>2, <2>4, <3>1 DEF DecState
    <3>3. [f EXCEPT !.buf = b, !.src = x, !.peeked = 0].buf = b
      BY <1>2 DEF DecState
    <3> QED
      BY <2>5, <3>2, <3>3 DEF x
  <2>7. Needed(scratch) = Needed(f)
    BY <2>4, <2>6 DEF Needed
  <2>8. RefillTag(d) = [go |-> Len(scratch.buf) >= Needed(f), d |-> scratch]
    BY <1>1, <1>5
  <2>9. Len(scratch.buf) >= Needed(f) => TagAtHand(scratch)
    BY <2>4, <2>6, <2>7 DEF TagAtHand
  <2> DEFINE go == Len(scratch.buf) >= Needed(f)
  <2>10. RefillTag(d).go = go /\ RefillTag(d).d = scratch
    BY <2>8
  <2> QED
    BY <2>6, <2>9, <2>10, Zenon
<1>6. CASE f.buf # <<>> /\ ~(Len(f.buf) < 5)
  <2>1. RefillTag(d) = [go |-> TRUE, d |-> f]
    BY <1>1, <1>6
  <2>2. Needed(f) \in Nat /\ Needed(f) <= 5 /\ Len(f.buf) \in Nat
    <3>1. Needed(f) \in Nat /\ Needed(f) <= 5
      BY <1>2, <1>6, NeededIs
    <3>2. Len(f.buf) \in Nat
      BY <1>3
    <3> QED
      BY <3>1, <3>2
  <2>3. TagAtHand(f)
    BY <1>6, <2>2 DEF TagAtHand
  <2> QED
    BY <1>2, <2>1, <2>3
<1> QED
  BY <1>4, <1>5, <1>6

LEMMA RefillIs ==
  ASSUME NEW d \in DecState
  PROVE  MAYBE_REFILL(d).d \in DecState /\ (MAYBE_REFILL(d).go => TagAtHand(MAYBE_REFILL(d).d))
<1>1. CASE Len(d.buf) >= 5
  <2>1. MAYBE_REFILL(d) = [go |-> TRUE, d |-> d]
    BY <1>1 DEF MAYBE_REFILL
  <2>2. d.buf \in Seq(Byte)
    BY DEF DecState
  <2>3. d.buf # <<>> /\ Len(d.buf) \in Nat
    BY <1>1, <2>2
  <2>4. Needed(d) \in Nat /\ Needed(d) <= 5
    BY <2>3, NeededIs
  <2>5. TagAtHand(d)
    BY <1>1, <2>3, <2>4 DEF TagAtHand
  <2> QED
    BY <2>1, <2>5
<1>2. CASE ~(Len(d.buf) >= 5)
  BY <1>2, RefillTagIs DEF MAYBE_REFILL
<1> QED
  BY <1>1, <1>2

-------------------------------------------------------------------------------
(* The invariant. *)

\* The compressor's record has its fields, and no other.
CompFields(c) ==
  c = [block |-> c.block, left |-> c.left, ip |-> c.ip, next_ip |-> c.next_ip,
       next_emit |-> c.next_emit, candidate |-> c.candidate, skip |-> c.skip, op |-> c.op,
       table |-> c.table]

CompTypes(c) ==
  /\ CompFields(c)
  /\ c.block \in Seq(Byte) /\ c.op \in Seq(Byte)
  /\ c.left \in Nat /\ c.ip \in Nat /\ c.next_ip \in Nat /\ c.next_emit \in Nat
  /\ c.candidate \in Nat
  /\ c.skip \in Nat /\ c.skip >= SkipStart
  /\ \A h \in DOMAIN c.table : c.table[h] \in Nat

\* How much is compressed, and what the blocks before took of the worst case.
Worst(done) == 4 + done + done \div 6
Done == Len(input) - comp.left - Len(comp.block)

\* What a literal of n bytes takes with its tag.
WithTags(n) == n + n \div 61

InBlock ==
  /\ comp.left + Len(comp.block) <= Len(input)
  /\ Len(comp.block) <= BlockSize
  /\ comp.left > 0 => Len(comp.block) = BlockSize
  /\ Len(stream) <= Worst(Done)

BetweenBlocks ==
  /\ comp.block = <<>> /\ comp.left <= Len(input)
  /\ comp.left > 0 => Len(stream) <= Worst(Len(input) - comp.left)

Scanning ==
  /\ comp.next_emit < comp.next_ip /\ comp.next_emit <= Len(comp.block)
  /\ Len(comp.op) <= WithTags(comp.next_emit)
  /\ \A h \in DOMAIN comp.table : comp.table[h] < comp.next_ip

Matching ==
  /\ comp.ip + Margin < Len(comp.block)
  /\ comp.candidate < comp.ip
  /\ Word(comp, comp.candidate) = Word(comp, comp.ip)
  /\ Len(comp.op) <= WithTags(comp.ip) + 1
  /\ \A h \in DOMAIN comp.table : comp.table[h] <= comp.ip

Remaining ==
  /\ comp.next_emit <= Len(comp.block)
  /\ Len(comp.op) <= WithTags(comp.next_emit)

CompressorInv ==
  /\ CompTypes(comp) /\ stream \in Seq(Byte)
  /\ input \in Seq(Byte) /\ Len(input) < Huge
  /\ phase \in {"scan", "match", "remainder"} => InBlock
  /\ phase = "block" => BetweenBlocks
  /\ phase = "scan" => Scanning
  /\ phase = "match" => Matching
  /\ phase = "remainder" => Remaining

DecompressorInv ==
  /\ dec \in DecState /\ out \in WriterState
  /\ phase = "tag" => TagAtHand(dec)

SnappyInv ==
  /\ phase \in Phase
  /\ CompressorInv
  /\ DecompressorInv
  /\ NothingBeyond

-------------------------------------------------------------------------------
(* The numbers of the worst case. *)

LEMMA WithTagsIs ==
  ASSUME NEW m \in Nat, NEW n \in Nat
  PROVE  /\ WithTags(n) \in Nat /\ WithTags(n) >= n
         /\ WithTags(m) + WithTags(n) <= WithTags(m + n)
         /\ n <= m => WithTags(n) <= WithTags(m)
<1>1. m \div 61 + n \div 61 <= (m + n) \div 61 /\ m \div 61 \in Nat /\ n \div 61 \in Nat
      /\ (m + n) \div 61 \in Nat
  OBVIOUS
<1>2. n <= m => n \div 61 <= m \div 61
  OBVIOUS
<1> QED
  BY <1>1, <1>2 DEF WithTags

LEMMA WorstIs ==
  ASSUME NEW m \in Nat, NEW n \in Nat
  PROVE  /\ Worst(m) \in Nat /\ Worst(m) >= 4
         /\ n >= 6 => Worst(m) + WithTags(n) + 1 <= Worst(m + n)
<1>1. m \div 6 + n \div 6 <= (m + n) \div 6 /\ m \div 6 \in Nat /\ n \div 6 \in Nat
      /\ n \div 61 \in Nat /\ (m + n) \div 6 \in Nat
  OBVIOUS
<1>2. n >= 6 => 1 + n \div 61 <= n \div 6
  BY Sixtieths
<1> DEFINE a == m \div 6
           b == n \div 6
           c == n \div 61
           d == (m + n) \div 6
<1>3. a \in Nat /\ b \in Nat /\ c \in Nat /\ d \in Nat /\ a + b <= d /\ (n >= 6 => 1 + c <= b)
  BY <1>1, <1>2
<1>4. Worst(m) = 4 + m + a /\ WithTags(n) = n + c /\ Worst(m + n) = 4 + (m + n) + d
  BY DEF Worst, WithTags
<1> HIDE DEF a, b, c, d
<1> QED
  BY <1>3, <1>4

\* The room for a block, after what the blocks before it took.
LEMMA RoomIs ==
  ASSUME NEW all \in Nat, NEW left \in Nat, NEW n \in Nat, NEW taken \in Nat,
         left + n <= all, taken <= Worst(all - left - n)
  PROVE  /\ Least(MaxCompressedLength(n), MaxCompressedLength(all) - taken) \in Nat
         /\ WithTags(n) + 28 <= Least(MaxCompressedLength(n), MaxCompressedLength(all) - taken)
<1> DEFINE done == all - left - n
           rest == left + n
<1>1. done \in Nat /\ rest \in Nat /\ all = done + rest /\ n <= rest
  OBVIOUS
<1>2. taken <= Worst(done)
  OBVIOUS
<1> HIDE DEF done, rest
<1> DEFINE a == all \div 6
           d == done \div 6
           r == rest \div 6
           q == n \div 6
           t == n \div 61
<1>3. a \in Nat /\ d \in Nat /\ r \in Nat /\ q \in Nat /\ t \in Nat
  BY <1>1
<1>4. d + r <= a
  BY <1>1, Sixtieths
<1>5. q <= r
  BY <1>1
<1>6. t <= q
  BY Sixtieths
<1>7. Worst(done) = 4 + done + d /\ WithTags(n) = n + t
      /\ MaxCompressedLength(n) = 32 + n + q /\ MaxCompressedLength(all) = 32 + all + a
  BY DEF Worst, WithTags, MaxCompressedLength
<1> HIDE DEF a, d, r, q, t
<1>8. MaxCompressedLength(n) \in Nat /\ WithTags(n) + 28 <= MaxCompressedLength(n)
  BY <1>3, <1>6, <1>7
<1>9. taken <= 4 + done + d
  BY <1>2, <1>7
<1>10. MaxCompressedLength(all) - taken >= 28 + rest + r
  BY <1>1, <1>3, <1>4, <1>7, <1>9
<1>11. WithTags(n) + 28 <= 28 + rest + r /\ WithTags(n) \in Nat
  BY <1>1, <1>3, <1>5, <1>6, <1>7
<1>12. MaxCompressedLength(all) - taken \in Int
  BY <1>1, <1>3, <1>7
<1> DEFINE x == MaxCompressedLength(n)
           y == MaxCompressedLength(all) - taken
           z == WithTags(n)
           s == 28 + rest + r
<1>13. x \in Nat /\ z + 28 <= x /\ y \in Int /\ y >= s /\ z + 28 <= s /\ z \in Nat /\ s \in Nat
  BY <1>1, <1>3, <1>8, <1>10, <1>11, <1>12
<1> HIDE DEF x, y, z, s
<1>14. Least(x, y) \in Nat /\ z + 28 <= Least(x, y)
  BY <1>13 DEF Least
<1> QED
  BY <1>14 DEF x, y, z

LEMMA NotBeyond ==
  ASSUME NEW a \in Int, NEW b \in Int, a <= b
  PROVE  Beyond(a, b) = 0
BY DEF Beyond

-------------------------------------------------------------------------------
(* The compressor's table. *)

LEMMA TablePutIs ==
  ASSUME NEW c, NEW h, NEW p \in Nat, NEW bound \in Nat, p < bound,
         \A g \in DOMAIN c.table : c.table[g] \in Nat /\ c.table[g] < bound
  PROVE  \A g \in DOMAIN TablePut(c, h, p) :
           TablePut(c, h, p)[g] \in Nat /\ TablePut(c, h, p)[g] < bound
BY DEF TablePut

LEMMA TableAtIs ==
  ASSUME NEW c, NEW h, NEW bound \in Nat, bound > 0,
         \A g \in DOMAIN c.table : c.table[g] \in Nat /\ c.table[g] < bound
  PROVE  TableAt(c, h) \in Nat /\ TableAt(c, h) < bound
BY DEF TableAt

LEMMA CompressingIs ==
  ASSUME NEW n \in Nat
  PROVE  /\ CompTypes(Compressing(n))
         /\ Compressing(n).block = <<>> /\ Compressing(n).left = n
<1>1. SkipStart \in Nat \ {0}
  BY SnappyAssumption
<1>2. <<>> \in Seq(Byte) /\ 0 \in Nat
  OBVIOUS
<1>3. \A h \in DOMAIN NoTable : NoTable[h] \in Nat
  BY DEF NoTable
<1> DEFINE c == Compressing(n)
<1>4. /\ c.block = <<>> /\ c.left = n /\ c.ip = 0 /\ c.next_ip = 0 /\ c.next_emit = 0
      /\ c.candidate = 0 /\ c.skip = SkipStart /\ c.op = <<>> /\ c.table = NoTable
      /\ CompFields(c)
  BY DEF Compressing, CompFields
<1> HIDE DEF c
<1>5. CompTypes(c)
  BY <1>1, <1>2, <1>3, <1>4 DEF CompTypes
<1> QED
  BY <1>4, <1>5 DEF c

-------------------------------------------------------------------------------
(* The compressor's record. *)

\* What an assignment to a field leaves of the compressor's record.
LEMMA SetBlock ==
  ASSUME NEW c, CompFields(c), NEW v
  PROVE  /\ CompFields([c EXCEPT !.block = v]) /\ [c EXCEPT !.block = v].block = v
         /\ [c EXCEPT !.block = v].left = c.left /\ [c EXCEPT !.block = v].ip = c.ip
         /\ [c EXCEPT !.block = v].next_ip = c.next_ip
         /\ [c EXCEPT !.block = v].next_emit = c.next_emit
         /\ [c EXCEPT !.block = v].candidate = c.candidate
         /\ [c EXCEPT !.block = v].skip = c.skip /\ [c EXCEPT !.block = v].op = c.op
         /\ [c EXCEPT !.block = v].table = c.table
BY DEF CompFields

LEMMA SetIp ==
  ASSUME NEW c, CompFields(c), NEW v
  PROVE  /\ CompFields([c EXCEPT !.ip = v]) /\ [c EXCEPT !.ip = v].block = c.block
         /\ [c EXCEPT !.ip = v].left = c.left /\ [c EXCEPT !.ip = v].ip = v
         /\ [c EXCEPT !.ip = v].next_ip = c.next_ip
         /\ [c EXCEPT !.ip = v].next_emit = c.next_emit
         /\ [c EXCEPT !.ip = v].candidate = c.candidate
         /\ [c EXCEPT !.ip = v].skip = c.skip /\ [c EXCEPT !.ip = v].op = c.op
         /\ [c EXCEPT !.ip = v].table = c.table
BY DEF CompFields

LEMMA SetNextIp ==
  ASSUME NEW c, CompFields(c), NEW v
  PROVE  /\ CompFields([c EXCEPT !.next_ip = v])
         /\ [c EXCEPT !.next_ip = v].block = c.block
         /\ [c EXCEPT !.next_ip = v].left = c.left
         /\ [c EXCEPT !.next_ip = v].ip = c.ip /\ [c EXCEPT !.next_ip = v].next_ip = v
         /\ [c EXCEPT !.next_ip = v].next_emit = c.next_emit
         /\ [c EXCEPT !.next_ip = v].candidate = c.candidate
         /\ [c EXCEPT !.next_ip = v].skip = c.skip
         /\ [c EXCEPT !.next_ip = v].op = c.op
         /\ [c EXCEPT !.next_ip = v].table = c.table
BY DEF CompFields

LEMMA SetNextEmit ==
  ASSUME NEW c, CompFields(c), NEW v
  PROVE  /\ CompFields([c EXCEPT !.next_emit = v])
         /\ [c EXCEPT !.next_emit = v].block = c.block
         /\ [c EXCEPT !.next_emit = v].left = c.left
         /\ [c EXCEPT !.next_emit = v].ip = c.ip
         /\ [c EXCEPT !.next_emit = v].next_ip = c.next_ip
         /\ [c EXCEPT !.next_emit = v].next_emit = v
         /\ [c EXCEPT !.next_emit = v].candidate = c.candidate
         /\ [c EXCEPT !.next_emit = v].skip = c.skip
         /\ [c EXCEPT !.next_emit = v].op = c.op
         /\ [c EXCEPT !.next_emit = v].table = c.table
BY DEF CompFields

LEMMA SetCandidate ==
  ASSUME NEW c, CompFields(c), NEW v
  PROVE  /\ CompFields([c EXCEPT !.candidate = v])
         /\ [c EXCEPT !.candidate = v].block = c.block
         /\ [c EXCEPT !.candidate = v].left = c.left
         /\ [c EXCEPT !.candidate = v].ip = c.ip
         /\ [c EXCEPT !.candidate = v].next_ip = c.next_ip
         /\ [c EXCEPT !.candidate = v].next_emit = c.next_emit
         /\ [c EXCEPT !.candidate = v].candidate = v
         /\ [c EXCEPT !.candidate = v].skip = c.skip
         /\ [c EXCEPT !.candidate = v].op = c.op
         /\ [c EXCEPT !.candidate = v].table = c.table
BY DEF CompFields

LEMMA SetSkip ==
  ASSUME NEW c, CompFields(c), NEW v
  PROVE  /\ CompFields([c EXCEPT !.skip = v]) /\ [c EXCEPT !.skip = v].block = c.block
         /\ [c EXCEPT !.skip = v].left = c.left /\ [c EXCEPT !.skip = v].ip = c.ip
         /\ [c EXCEPT !.skip = v].next_ip = c.next_ip
         /\ [c EXCEPT !.skip = v].next_emit = c.next_emit
         /\ [c EXCEPT !.skip = v].candidate = c.candidate
         /\ [c EXCEPT !.skip = v].skip = v /\ [c EXCEPT !.skip = v].op = c.op
         /\ [c EXCEPT !.skip = v].table = c.table
BY DEF CompFields

LEMMA SetOp ==
  ASSUME NEW c, CompFields(c), NEW v
  PROVE  /\ CompFields([c EXCEPT !.op = v]) /\ [c EXCEPT !.op = v].block = c.block
         /\ [c EXCEPT !.op = v].left = c.left /\ [c EXCEPT !.op = v].ip = c.ip
         /\ [c EXCEPT !.op = v].next_ip = c.next_ip
         /\ [c EXCEPT !.op = v].next_emit = c.next_emit
         /\ [c EXCEPT !.op = v].candidate = c.candidate
         /\ [c EXCEPT !.op = v].skip = c.skip /\ [c EXCEPT !.op = v].op = v
         /\ [c EXCEPT !.op = v].table = c.table
BY DEF CompFields

LEMMA SetTable ==
  ASSUME NEW c, CompFields(c), NEW v
  PROVE  /\ CompFields([c EXCEPT !.table = v])
         /\ [c EXCEPT !.table = v].block = c.block
         /\ [c EXCEPT !.table = v].left = c.left /\ [c EXCEPT !.table = v].ip = c.ip
         /\ [c EXCEPT !.table = v].next_ip = c.next_ip
         /\ [c EXCEPT !.table = v].next_emit = c.next_emit
         /\ [c EXCEPT !.table = v].candidate = c.candidate
         /\ [c EXCEPT !.table = v].skip = c.skip /\ [c EXCEPT !.table = v].op = c.op
         /\ [c EXCEPT !.table = v].table = v
BY DEF CompFields

WithBlock(c, v, w) == [c EXCEPT !.block = v, !.next_ip = w]

LEMMA SetBlockFields ==
  ASSUME NEW c, CompFields(c), NEW v, NEW w
  PROVE  LET d == WithBlock(c, v, w) IN
         /\ CompFields(d) /\ d.block = v /\ d.left = c.left /\ d.ip = c.ip
         /\ d.next_ip = w /\ d.next_emit = c.next_emit /\ d.candidate = c.candidate
         /\ d.skip = c.skip /\ d.op = c.op /\ d.table = c.table
<1> DEFINE d == WithBlock(c, v, w)
<1> DEFINE d1 == [c EXCEPT !.block = v]
<1> DEFINE d2 == [d1 EXCEPT !.next_ip = w]
<1>3. d = d2
  BY DEF WithBlock
<1> HIDE DEF d
<1> HIDE DEF d1, d2
<1>1. /\ CompFields(d1) /\ d1.block = v /\ d1.left = c.left /\ d1.ip = c.ip
      /\ d1.next_ip = c.next_ip /\ d1.next_emit = c.next_emit
      /\ d1.candidate = c.candidate /\ d1.skip = c.skip /\ d1.op = c.op
      /\ d1.table = c.table
  BY SetBlock DEF d1
<1>2. /\ CompFields(d2) /\ d2.block = d1.block /\ d2.left = d1.left /\ d2.ip = d1.ip
      /\ d2.next_ip = w /\ d2.next_emit = d1.next_emit /\ d2.candidate = d1.candidate
      /\ d2.skip = d1.skip /\ d2.op = d1.op /\ d2.table = d1.table
  BY <1>1, SetNextIp DEF d2
<1>4. CompFields(d)
  BY <1>2, <1>3
<1> QED
  BY <1>1, <1>2, <1>3 DEF d

WithTable(c, v, w) == [c EXCEPT !.candidate = v, !.table = w]

LEMMA SetTableFields ==
  ASSUME NEW c, CompFields(c), NEW v, NEW w
  PROVE  LET d == WithTable(c, v, w) IN
         /\ CompFields(d) /\ d.block = c.block /\ d.left = c.left /\ d.ip = c.ip
         /\ d.next_ip = c.next_ip /\ d.next_emit = c.next_emit /\ d.candidate = v
         /\ d.skip = c.skip /\ d.op = c.op /\ d.table = w
<1> DEFINE d == WithTable(c, v, w)
<1> DEFINE d1 == [c EXCEPT !.candidate = v]
<1> DEFINE d2 == [d1 EXCEPT !.table = w]
<1>3. d = d2
  BY DEF WithTable
<1> HIDE DEF d
<1> HIDE DEF d1, d2
<1>1. /\ CompFields(d1) /\ d1.block = c.block /\ d1.left = c.left /\ d1.ip = c.ip
      /\ d1.next_ip = c.next_ip /\ d1.next_emit = c.next_emit /\ d1.candidate = v
      /\ d1.skip = c.skip /\ d1.op = c.op /\ d1.table = c.table
  BY SetCandidate DEF d1
<1>2. /\ CompFields(d2) /\ d2.block = d1.block /\ d2.left = d1.left /\ d2.ip = d1.ip
      /\ d2.next_ip = d1.next_ip /\ d2.next_emit = d1.next_emit
      /\ d2.candidate = d1.candidate /\ d2.skip = d1.skip /\ d2.op = d1.op
      /\ d2.table = w
  BY <1>1, SetTable DEF d2
<1>4. CompFields(d)
  BY <1>2, <1>3
<1> QED
  BY <1>1, <1>2, <1>3 DEF d

WithProbe(c, v, w) == [c EXCEPT !.next_ip = v, !.skip = w]

LEMMA SetProbeFields ==
  ASSUME NEW c, CompFields(c), NEW v, NEW w
  PROVE  LET d == WithProbe(c, v, w) IN
         /\ CompFields(d) /\ d.block = c.block /\ d.left = c.left /\ d.ip = c.ip
         /\ d.next_ip = v /\ d.next_emit = c.next_emit /\ d.candidate = c.candidate
         /\ d.skip = w /\ d.op = c.op /\ d.table = c.table
<1> DEFINE d == WithProbe(c, v, w)
<1> DEFINE d1 == [c EXCEPT !.next_ip = v]
<1> DEFINE d2 == [d1 EXCEPT !.skip = w]
<1>3. d = d2
  BY DEF WithProbe
<1> HIDE DEF d
<1> HIDE DEF d1, d2
<1>1. /\ CompFields(d1) /\ d1.block = c.block /\ d1.left = c.left /\ d1.ip = c.ip
      /\ d1.next_ip = v /\ d1.next_emit = c.next_emit /\ d1.candidate = c.candidate
      /\ d1.skip = c.skip /\ d1.op = c.op /\ d1.table = c.table
  BY SetNextIp DEF d1
<1>2. /\ CompFields(d2) /\ d2.block = d1.block /\ d2.left = d1.left /\ d2.ip = d1.ip
      /\ d2.next_ip = d1.next_ip /\ d2.next_emit = d1.next_emit
      /\ d2.candidate = d1.candidate /\ d2.skip = w /\ d2.op = d1.op
      /\ d2.table = d1.table
  BY <1>1, SetSkip DEF d2
<1>4. CompFields(d)
  BY <1>2, <1>3
<1> QED
  BY <1>1, <1>2, <1>3 DEF d

WithCopy(c, v, w, x) == [c EXCEPT !.ip = v, !.next_emit = w, !.op = x]

LEMMA SetCopyFields ==
  ASSUME NEW c, CompFields(c), NEW v, NEW w, NEW x
  PROVE  LET d == WithCopy(c, v, w, x) IN
         /\ CompFields(d) /\ d.block = c.block /\ d.left = c.left /\ d.ip = v
         /\ d.next_ip = c.next_ip /\ d.next_emit = w /\ d.candidate = c.candidate
         /\ d.skip = c.skip /\ d.op = x /\ d.table = c.table
<1> DEFINE d == WithCopy(c, v, w, x)
<1> DEFINE d1 == [c EXCEPT !.ip = v]
<1> DEFINE d2 == [d1 EXCEPT !.next_emit = w]
<1> DEFINE d3 == [d2 EXCEPT !.op = x]
<1>4. d = d3
  BY DEF WithCopy
<1> HIDE DEF d
<1> HIDE DEF d1, d2, d3
<1>1. /\ CompFields(d1) /\ d1.block = c.block /\ d1.left = c.left /\ d1.ip = v
      /\ d1.next_ip = c.next_ip /\ d1.next_emit = c.next_emit
      /\ d1.candidate = c.candidate /\ d1.skip = c.skip /\ d1.op = c.op
      /\ d1.table = c.table
  BY SetIp DEF d1
<1>2. /\ CompFields(d2) /\ d2.block = d1.block /\ d2.left = d1.left /\ d2.ip = d1.ip
      /\ d2.next_ip = d1.next_ip /\ d2.next_emit = w /\ d2.candidate = d1.candidate
      /\ d2.skip = d1.skip /\ d2.op = d1.op /\ d2.table = d1.table
  BY <1>1, SetNextEmit DEF d2
<1>3. /\ CompFields(d3) /\ d3.block = d2.block /\ d3.left = d2.left /\ d3.ip = d2.ip
      /\ d3.next_ip = d2.next_ip /\ d3.next_emit = d2.next_emit
      /\ d3.candidate = d2.candidate /\ d3.skip = d2.skip /\ d3.op = x
      /\ d3.table = d2.table
  BY <1>2, SetOp DEF d3
<1>5. CompFields(d)
  BY <1>3, <1>4
<1> QED
  BY <1>1, <1>2, <1>3, <1>4 DEF d

WithScan(c, v, w, x, y, z) == [c EXCEPT !.ip = v, !.next_ip = w, !.skip = x, !.candidate = y, !.table = z]

LEMMA SetScanFields ==
  ASSUME NEW c, CompFields(c), NEW v, NEW w, NEW x, NEW y, NEW z
  PROVE  LET d == WithScan(c, v, w, x, y, z) IN
         /\ CompFields(d) /\ d.block = c.block /\ d.left = c.left /\ d.ip = v
         /\ d.next_ip = w /\ d.next_emit = c.next_emit /\ d.candidate = y /\ d.skip = x
         /\ d.op = c.op /\ d.table = z
<1> DEFINE d == WithScan(c, v, w, x, y, z)
<1> DEFINE d1 == [c EXCEPT !.ip = v]
<1> DEFINE d2 == [d1 EXCEPT !.next_ip = w]
<1> DEFINE d3 == [d2 EXCEPT !.skip = x]
<1> DEFINE d4 == [d3 EXCEPT !.candidate = y]
<1> DEFINE d5 == [d4 EXCEPT !.table = z]
<1>6. d = d5
  BY DEF WithScan
<1> HIDE DEF d
<1> HIDE DEF d1, d2, d3, d4, d5
<1>1. /\ CompFields(d1) /\ d1.block = c.block /\ d1.left = c.left /\ d1.ip = v
      /\ d1.next_ip = c.next_ip /\ d1.next_emit = c.next_emit
      /\ d1.candidate = c.candidate /\ d1.skip = c.skip /\ d1.op = c.op
      /\ d1.table = c.table
  BY SetIp DEF d1
<1>2. /\ CompFields(d2) /\ d2.block = d1.block /\ d2.left = d1.left /\ d2.ip = d1.ip
      /\ d2.next_ip = w /\ d2.next_emit = d1.next_emit /\ d2.candidate = d1.candidate
      /\ d2.skip = d1.skip /\ d2.op = d1.op /\ d2.table = d1.table
  BY <1>1, SetNextIp DEF d2
<1>3. /\ CompFields(d3) /\ d3.block = d2.block /\ d3.left = d2.left /\ d3.ip = d2.ip
      /\ d3.next_ip = d2.next_ip /\ d3.next_emit = d2.next_emit
      /\ d3.candidate = d2.candidate /\ d3.skip = x /\ d3.op = d2.op
      /\ d3.table = d2.table
  BY <1>2, SetSkip DEF d3
<1>4. /\ CompFields(d4) /\ d4.block = d3.block /\ d4.left = d3.left /\ d4.ip = d3.ip
      /\ d4.next_ip = d3.next_ip /\ d4.next_emit = d3.next_emit /\ d4.candidate = y
      /\ d4.skip = d3.skip /\ d4.op = d3.op /\ d4.table = d3.table
  BY <1>3, SetCandidate DEF d4
<1>5. /\ CompFields(d5) /\ d5.block = d4.block /\ d5.left = d4.left /\ d5.ip = d4.ip
      /\ d5.next_ip = d4.next_ip /\ d5.next_emit = d4.next_emit
      /\ d5.candidate = d4.candidate /\ d5.skip = d4.skip /\ d5.op = d4.op
      /\ d5.table = z
  BY <1>4, SetTable DEF d5
<1>7. CompFields(d)
  BY <1>5, <1>6
<1> QED
  BY <1>1, <1>2, <1>3, <1>4, <1>5, <1>6 DEF d

-------------------------------------------------------------------------------
(* The invariant holds to begin with. *)

LEMMA SnappyStarts ==
  ASSUME SnappyInit
  PROVE  SnappyInv
<1>1. dec \in DecState /\ out \in WriterState
  <2>1. /\ dec = [src |-> [bytes |-> <<>>, pos |-> 0, fragment |-> 1], buf |-> <<>>, peeked |-> 0,
                  literal |-> 0, eof |-> FALSE, caller |-> "none", short |-> FALSE]
        /\ out = [mem |-> <<>>, op |-> 0, expected |-> 0]
    BY DEF SnappyInit, NoDecompressor, NoWriter, Source
  <2>2. <<>> \in Seq(Byte) /\ 0 \in Nat /\ 1 \in Nat \ {0} /\ 0 <= 0
    OBVIOUS
  <2>3. [bytes |-> <<>>, pos |-> 0, fragment |-> 1] \in ByteSource
    BY <2>2 DEF ByteSource
  <2>4. dec \in DecState
    BY <2>1, <2>2, <2>3 DEF DecState
  <2>5. out \in WriterState
    BY <2>1, <2>2 DEF WriterState
  <2> QED
    BY <2>4, <2>5
<1>2. reach = 0 /\ phase \in {"block", "open"}
  BY DEF SnappyInit
<1>3. input \in Seq(Byte) /\ Len(input) < Huge
  <2>1. <<>> \in Seq(Byte) /\ Len(<<>>) = 0
    OBVIOUS
  <2>2. 0 < Huge
    BY DEF Huge
  <2> QED
    BY <2>1, <2>2, SnappyAssumption DEF SnappyInit
<1>4. stream \in Seq(Byte) /\ (phase = "block" => Len(stream) <= 4)
  <2>1. Len(input) \in Nat
    BY <1>3
  <2>2. Encode32(Len(input)) \in Seq(Byte) /\ Len(Encode32(Len(input))) <= 4
    BY <1>3, <2>1, EncodedIs
  <2>3. CASE phase = "block"
    BY <1>3, <2>2, <2>3 DEF SnappyInit
  <2>4. CASE phase # "block"
    BY <2>4, SnappyAssumption DEF SnappyInit
  <2> QED
    BY <2>3, <2>4
<1>5. PICK n \in Nat : comp = Compressing(n) /\ (phase = "block" => n = Len(input)) /\ n <= Len(input)
  <2>1. Len(input) \in Nat /\ 0 \in Nat /\ 0 <= Len(input) /\ Len(input) <= Len(input)
    BY <1>3
  <2> DEFINE all == Len(input)
  <2>2. comp = Compressing(all) \/ (comp = Compressing(0) /\ phase # "block")
    BY DEF SnappyInit
  <2>3. all \in Nat /\ 0 \in Nat /\ 0 <= all /\ all <= all /\ all = Len(input)
    BY <2>1
  <2> HIDE DEF all
  <2> QED
    BY <2>2, <2>3
<1>6. CompTypes(comp) /\ comp.block = <<>> /\ comp.left = n
  BY <1>5, CompressingIs
<1>7. CompressorInv
  <2>1. phase = "block" => BetweenBlocks
    <3> SUFFICES ASSUME phase = "block" PROVE BetweenBlocks
      OBVIOUS
    <3>1. n - n = 0 /\ 0 \in Nat
      OBVIOUS
    <3>2. Worst(0) \in Nat /\ Worst(0) >= 4
      BY <3>1, WorstIs
    <3>3. Len(stream) \in Nat /\ Len(stream) <= 4
      BY <1>4
    <3> DEFINE taken == Len(stream)
               worst == Worst(0)
    <3>4. taken \in Nat /\ worst \in Nat /\ worst >= 4 /\ taken <= 4
      BY <3>2, <3>3
    <3> HIDE DEF taken, worst
    <3>5. taken <= worst
      BY <3>4
    <3>6. n = Len(input) /\ comp.left = Len(input) /\ comp.block = <<>>
      BY <1>5, <1>6
    <3>7. Len(input) - comp.left = 0 /\ comp.left <= Len(input)
      BY <1>3, <3>6
    <3> QED
      BY <3>5, <3>6, <3>7 DEF BetweenBlocks, taken, worst
  <2> QED
    BY <1>2, <1>3, <1>4, <1>6, <2>1 DEF CompressorInv
<1> QED
  BY <1>1, <1>2, <1>7 DEF SnappyInv, DecompressorInv, NothingBeyond, Phase

-------------------------------------------------------------------------------
(* Every action keeps it. *)

LEMMA DecompressorKept ==
  ASSUME DecompressorInv, UNCHANGED <<dec, out>>, phase' # "tag"
  PROVE  DecompressorInv'
BY DEF DecompressorInv

LEMMA CompressorKept ==
  ASSUME CompressorInv, UNCHANGED <<input, comp, stream>>,
         phase' \in {"open", "tag", "literal", "ended"}
  PROVE  CompressorInv'
BY DEF CompressorInv

\* A new block, with nothing done of it.
LEMMA NewBlockIs ==
  ASSUME NEW n \in Nat, NEW block \in Seq(Byte)
  PROVE  LET c == WithBlock(Compressing(n), block, 1) IN
         /\ CompTypes(c) /\ c.block = block /\ c.left = n /\ c.next_emit = 0 /\ c.next_ip = 1
         /\ c.op = <<>> /\ c.table = NoTable
<1>1. SkipStart \in Nat \ {0}
  BY SnappyAssumption
<1>2. <<>> \in Seq(Byte) /\ 0 \in Nat /\ 1 \in Nat
  OBVIOUS
<1>3. \A h \in DOMAIN NoTable : NoTable[h] \in Nat
  BY DEF NoTable
<1> DEFINE d == Compressing(n)
<1>4. /\ d.block = <<>> /\ d.left = n /\ d.ip = 0 /\ d.next_ip = 0 /\ d.next_emit = 0
      /\ d.candidate = 0 /\ d.skip = SkipStart /\ d.op = <<>> /\ d.table = NoTable
      /\ CompFields(d)
  BY DEF Compressing, CompFields
<1> DEFINE c == WithBlock(d, block, 1)
<1> HIDE DEF d
<1>6. /\ CompFields(c) /\ c.block = block /\ c.left = d.left /\ c.ip = d.ip
      /\ c.next_ip = 1 /\ c.next_emit = d.next_emit /\ c.candidate = d.candidate
      /\ c.skip = d.skip /\ c.op = d.op /\ c.table = d.table
  BY <1>4, SetBlockFields
<1> HIDE DEF c
<1>7. CompTypes(c)
  BY <1>1, <1>2, <1>3, <1>4, <1>6 DEF CompTypes
<1> QED
  BY <1>4, <1>6, <1>7 DEF c, d

LEMMA NextBlockKeeps ==
  ASSUME SnappyInv, NextBlock
  PROVE  SnappyInv'
<1>1. /\ phase = "block" /\ CompressorInv /\ DecompressorInv /\ reach = 0 /\ BetweenBlocks
      /\ UNCHANGED <<input, kind, stream, dec, out, reach>>
  BY DEF SnappyInv, NextBlock, NothingBeyond, CompressorInv
<1>2. CASE comp.left = 0
  <2>1. phase' = "open" /\ UNCHANGED comp
    BY <1>1, <1>2 DEF NextBlock, CompressorInv, CompTypes
  <2>2. CompressorInv' /\ DecompressorInv'
    BY <1>1, <2>1, CompressorKept, DecompressorKept
  <2> QED
    BY <1>1, <2>1, <2>2 DEF SnappyInv, Phase, NothingBeyond
<1>3. CASE comp.left # 0
  <2> DEFINE all == Len(input)
             left == comp.left
             n == Least(left, BlockSize)
  <2>1. PICK fragment \in Fragment :
          LET src == Skip(Source(input, fragment), all - left)
              block == Gathered(src, n).bytes
          IN  /\ comp' = [Compressing(left - Len(block)) EXCEPT !.block = block, !.next_ip = 1]
              /\ phase' = IF Len(block) >= Margin THEN "scan" ELSE "remainder"
    BY <1>3 DEF NextBlock
  <2> DEFINE src == Skip(Source(input, fragment), all - left)
             block == Gathered(src, n).bytes
             size == Len(block)
  <2>2. /\ input \in Seq(Byte) /\ all \in Nat /\ left \in Nat /\ left > 0 /\ left <= all
        /\ stream \in Seq(Byte) /\ Len(stream) <= Worst(all - left)
    BY <1>1, <1>3 DEF CompressorInv, CompTypes, BetweenBlocks
  <2>3. BlockSize \in Nat /\ BlockSize >= 6 /\ fragment \in Nat \ {0}
    BY <2>1, SnappyAssumption
  <2>4. all - left \in Nat /\ n \in Nat /\ n <= left /\ n <= BlockSize /\ n > 0
        /\ (n # left => n = BlockSize) /\ (all - left) + n <= all
    BY <2>2, <2>3 DEF Least
  <2> HIDE DEF all, left, n
  <2>5. Source(input, fragment) \in ByteSource /\ Source(input, fragment).pos = 0
        /\ Source(input, fragment).bytes = input
    BY <2>2, <2>3 DEF Source, ByteSource
  <2>6. src \in ByteSource /\ src.pos = all - left /\ src.bytes = input
    <3>1. 0 + (all - left) = all - left
      BY <2>4
    <3> DEFINE k == all - left
    <3>2. k \in Nat /\ 0 + k = k
      BY <2>4, <3>1
    <3> HIDE DEF k
    <3>3. /\ Skip(Source(input, fragment), k) \in ByteSource
          /\ Skip(Source(input, fragment), k).bytes = input
          /\ Skip(Source(input, fragment), k).pos = k
      BY <2>5, <3>2, SkipIs
    <3> QED
      BY <3>3 DEF k, src
  <2>7. src.pos + n <= Len(src.bytes)
    BY <2>2, <2>4, <2>6 DEF all
  <2>8. comp' = [Compressing(left - size) EXCEPT !.block = block, !.next_ip = 1]
        /\ phase' = IF size >= Margin THEN "scan" ELSE "remainder"
    BY <2>1
  <2> HIDE DEF src
  <2>9. block \in Seq(Byte) /\ size = n
    BY <2>4, <2>6, <2>7, GatheredIs
  <2> HIDE DEF block, size
  <2>10. left - size \in Nat /\ left - n = left - size
    BY <2>2, <2>4, <2>9
  <2>11. /\ CompTypes(comp') /\ comp'.block = block /\ comp'.left = left - n
         /\ comp'.next_emit = 0 /\ comp'.next_ip = 1 /\ comp'.op = <<>> /\ comp'.table = NoTable
    <3> DEFINE c == WithBlock(Compressing(left - size), block, 1)
    <3>1. /\ CompTypes(c) /\ c.block = block /\ c.left = left - size /\ c.next_emit = 0
          /\ c.next_ip = 1 /\ c.op = <<>> /\ c.table = NoTable
      BY <2>9, <2>10, NewBlockIs
    <3>2. comp' = c
      BY <2>8 DEF WithBlock
    <3> HIDE DEF c
    <3> QED
      BY <2>10, <3>1, <3>2
  <2>12. Len(comp'.block) = n
    BY <2>9, <2>11 DEF size
  <2>13. InBlock'
    <3>1. (left - n) + n <= all /\ (left - n > 0 => n = BlockSize)
          /\ all - (left - n) - n = all - left
      BY <2>2, <2>3, <2>4
    <3>2. all = Len(input') /\ stream' = stream
      BY <1>1 DEF all
    <3> QED
      BY <2>2, <2>4, <2>11, <2>12, <3>1, <3>2 DEF InBlock, Done
  <2>14. Len(comp'.op) <= WithTags(0) /\ 0 < 1 /\ 0 <= n
    <3>1. WithTags(0) \in Nat /\ WithTags(0) >= 0
      BY WithTagsIs, 0 \in Nat
    <3>2. Len(<<>>) = 0
      OBVIOUS
    <3> QED
      BY <2>4, <2>11, <3>1, <3>2
  <2>15. Scanning' /\ Remaining'
    <3>1. \A h \in DOMAIN comp'.table : comp'.table[h] < comp'.next_ip
      BY <2>11 DEF NoTable
    <3> QED
      BY <2>11, <2>12, <2>14, <3>1 DEF Scanning, Remaining
  <2>16. phase' \in {"scan", "remainder"}
    BY <2>8
  <2>17. CompressorInv'
    BY <1>1, <2>11, <2>13, <2>15, <2>16 DEF CompressorInv
  <2>18. DecompressorInv'
    BY <1>1, <2>16, DecompressorKept
  <2> QED
    BY <1>1, <2>16, <2>17, <2>18 DEF SnappyInv, Phase, NothingBeyond
<1> QED
  BY <1>2, <1>3

\* The table, after a position was looked up and entered.
LEMMA ProbedIs ==
  ASSUME NEW c, CompTypes(c), NEW h, NEW p \in Nat, p > 0,
         \A g \in DOMAIN c.table : c.table[g] < p
  PROVE  /\ TableAt(c, h) \in Nat /\ TableAt(c, h) < p
         /\ \A g \in DOMAIN TablePut(c, h, p) :
              TablePut(c, h, p)[g] \in Nat /\ TablePut(c, h, p)[g] < p + 1
<1>1. \A g \in DOMAIN c.table : c.table[g] \in Nat /\ c.table[g] < p
  BY DEF CompTypes
<1>2. p + 1 \in Nat /\ p < p + 1 /\ \A n \in Nat : n < p => n < p + 1
  OBVIOUS
<1>3. \A g \in DOMAIN c.table : c.table[g] \in Nat /\ c.table[g] < p + 1
  BY <1>1, <1>2
<1>4. TableAt(c, h) \in Nat /\ TableAt(c, h) < p
  BY <1>1, TableAtIs
<1> QED
  BY <1>2, <1>3, <1>4, TablePutIs

\* The literal before a match: its tag and what is before fit, and so does the
\* room that the fast path takes.
LEMMA LiteralFits ==
  ASSUME NEW from \in Nat, NEW to \in Nat, from < to, NEW op \in Seq(Byte),
         Len(op) <= WithTags(from), NEW s \in Seq(Byte), Len(s) = to - from, Len(s) <= TwoBytes
  PROVE  /\ op \o EmitLiteral(s) \in Seq(Byte)
         /\ Len(op \o EmitLiteral(s)) <= WithTags(to) + 1
         /\ FastLiteral(Len(s), TRUE) =>
              Len(op \o EmitLiteral(s)) - Len(s) + 16 <= WithTags(to) + 28
<1> DEFINE n == to - from
           e == EmitLiteral(s)
           k == Len(op)
           m == Len(e)
<1>1. n \in Nat /\ n >= 1 /\ from + n = to /\ Len(s) = n /\ from <= to
  OBVIOUS
<1>2. e \in Seq(Byte) /\ m <= 1 + n \div 61 + n /\ (n <= 60 => m = 1 + n)
  BY <1>1, EmitLiteralIs
<1> HIDE DEF e
<1>3. op \o e \in Seq(Byte) /\ Len(op \o e) = k + m /\ k \in Nat /\ m \in Nat
  BY <1>2, JoinedOf
<1> HIDE DEF k, m, n
<1>4. /\ WithTags(from) \in Nat /\ WithTags(n) \in Nat /\ WithTags(to) \in Nat
      /\ WithTags(from) + WithTags(n) <= WithTags(to) /\ WithTags(from) <= WithTags(to)
  BY <1>1, WithTagsIs
<1>5. WithTags(n) = n + n \div 61
  BY DEF WithTags
<1> DEFINE a == WithTags(from)
           b == WithTags(n)
           c == WithTags(to)
           q == n \div 61
<1>6. q \in Nat
  BY <1>1
<1>7. /\ a \in Nat /\ b \in Nat /\ c \in Nat /\ a + b <= c /\ a <= c /\ b = n + q
      /\ m <= 1 + q + n /\ k <= a /\ (n <= 60 => m = 1 + n)
  BY <1>2, <1>4, <1>5 DEF k
<1> HIDE DEF a, b, c, q
<1>8. k + m <= c + 1 /\ (n <= 16 => k + m - n + 16 <= c + 28)
  <2>1. n \in Nat /\ k \in Nat /\ m \in Nat
    BY <1>1, <1>3
  <2>2. k + m <= c + 1
    BY <1>6, <1>7, <2>1
  <2>3. n <= 16 => k + m - n + 16 <= c + 28
    BY <1>7, <2>1
  <2> QED
    BY <2>2, <2>3
<1>9. FastLiteral(Len(s), TRUE) => n <= 16
  BY <1>1 DEF FastLiteral
<1> DEFINE u == op \o e
           x == Len(u)
           y == Len(s)
<1>10. u \in Seq(Byte) /\ x = k + m /\ y = n
  BY <1>1, <1>3
<1> HIDE DEF u, x, y
<1>11. x <= c + 1 /\ (n <= 16 => x - y + 16 <= c + 28)
  <2>1. k \in Nat /\ m \in Nat /\ n \in Nat /\ c \in Nat
    BY <1>1, <1>3, <1>7
  <2> QED
    BY <1>8, <1>10, <2>1
<1> QED
  BY <1>1, <1>10, <1>11 DEF FastLiteral, e, c, u, x, y

\* A step of the compressor inside a block.
LEMMA InBlockKept ==
  ASSUME CompressorInv, InBlock, UNCHANGED <<input, stream>>,
         comp'.block = comp.block, comp'.left = comp.left, CompTypes(comp'),
         phase' \in {"scan", "match", "remainder"},
         phase' = "scan" => Scanning', phase' = "match" => Matching',
         phase' = "remainder" => Remaining'
  PROVE  CompressorInv'
<1>1. InBlock'
  BY DEF InBlock, Done
<1> QED
  BY <1>1 DEF CompressorInv

LEMMA RoomInBlock ==
  ASSUME CompressorInv, InBlock
  PROVE  Room \in Nat /\ WithTags(Len(comp.block)) + 28 <= Room
<1> DEFINE all == Len(input)
           left == comp.left
           n == Len(comp.block)
           taken == Len(stream)
<1>1. /\ all \in Nat /\ left \in Nat /\ n \in Nat /\ taken \in Nat
      /\ left + n <= all /\ taken <= Worst(all - left - n)
  BY DEF CompressorInv, CompTypes, InBlock, Done
<1>2. Room = Least(MaxCompressedLength(n), MaxCompressedLength(all) - taken)
  BY DEF Room, scratch_output, compressed
<1> HIDE DEF all, left, n, taken
<1>3. /\ Least(MaxCompressedLength(n), MaxCompressedLength(all) - taken) \in Nat
      /\ WithTags(n) + 28 <= Least(MaxCompressedLength(n), MaxCompressedLength(all) - taken)
  BY <1>1, RoomIs
<1> QED
  BY <1>2, <1>3 DEF n

LEMMA ScanKeeps ==
  ASSUME SnappyInv, Scan
  PROVE  SnappyInv'
<1> DEFINE ip == comp.next_ip
           step == comp.skip \div SkipStart
           next_ip == ip + step
           h == HashAt(comp, ip)
           candidate == TableAt(comp, h)
           literal == SubSeq(comp.block, comp.next_emit + 1, ip)
           probed == WithScan(comp, ip, next_ip, comp.skip + 1, candidate, TablePut(comp, h, ip))
           op == comp.op \o EmitLiteral(literal)
           size == Len(comp.block)
<1>1. /\ phase = "scan" /\ CompressorInv /\ DecompressorInv /\ reach = 0 /\ InBlock /\ Scanning
      /\ CompTypes(comp)
      /\ UNCHANGED <<input, kind, stream, dec, out>>
  BY DEF SnappyInv, Scan, NothingBeyond, CompressorInv
<1>2. \/ /\ phase' = "remainder" /\ comp' = [comp EXCEPT !.ip = ip] /\ UNCHANGED reach
      \/ /\ next_ip <= Limit(comp) /\ comp' = probed /\ UNCHANGED <<phase, reach>>
      \/ /\ next_ip <= Limit(comp) /\ Word(comp, ip) = Word(comp, candidate)
         /\ comp' = [probed EXCEPT !.op = op] /\ phase' = "match"
         /\ reach' = IF ~FastLiteral(Len(literal), TRUE) THEN reach
                     ELSE reach + Beyond(comp.next_emit + 16, size)
                          + Beyond(Len(op) - Len(literal) + 16, Room)
  BY DEF Scan, WithScan
<1>3. /\ ip \in Nat /\ comp.skip \in Nat /\ size \in Nat /\ comp.block \in Seq(Byte)
      /\ comp.next_emit \in Nat /\ comp.next_emit < ip /\ comp.next_emit <= size
      /\ comp.op \in Seq(Byte) /\ Len(comp.op) <= WithTags(comp.next_emit)
      /\ \A g \in DOMAIN comp.table : comp.table[g] < ip
      /\ CompFields(comp)
  BY <1>1 DEF Scanning, CompTypes
<1>4. ip > 0 /\ step \in Nat /\ step >= 1 /\ comp.skip + 1 \in Nat /\ comp.skip + 1 >= SkipStart
  <2>1. SkipStart \in Nat \ {0} /\ comp.skip >= SkipStart
    BY <1>1, SnappyAssumption DEF CompTypes
  <2> QED
    BY <1>3, <2>1, Quotient
<1>5. next_ip \in Nat /\ ip + 1 <= next_ip
  BY <1>3, <1>4
<1> HIDE DEF step, next_ip, h
<1>6. /\ candidate \in Nat /\ candidate < ip
      /\ \A g \in DOMAIN TablePut(comp, h, ip) :
           TablePut(comp, h, ip)[g] \in Nat /\ TablePut(comp, h, ip)[g] < ip + 1
  BY <1>1, <1>3, <1>4, ProbedIs
<1> DEFINE table == TablePut(comp, h, ip)
           skip == comp.skip + 1
<1>7. /\ CompFields(probed) /\ probed.block = comp.block /\ probed.left = comp.left
      /\ probed.ip = ip /\ probed.next_ip = next_ip /\ probed.next_emit = comp.next_emit
      /\ probed.candidate = candidate /\ probed.skip = skip /\ probed.op = comp.op
      /\ probed.table = table
  <2> HIDE DEF ip, candidate, table, skip
  <2>1. probed = WithScan(comp, ip, next_ip, skip, candidate, table)
    BY DEF table, skip
  <2> HIDE DEF probed
  <2> QED
    BY <1>3, <2>1, SetScanFields
<1> HIDE DEF candidate, table, skip, probed
<1>8. \A g \in DOMAIN table : table[g] \in Nat /\ table[g] <= ip /\ table[g] < next_ip
  <2>1. \A n \in Nat : n < ip + 1 => n <= ip /\ n < next_ip
    BY <1>3, <1>5
  <2> QED
    BY <1>6, <2>1 DEF table
<1>9. CompTypes(probed)
  BY <1>1, <1>3, <1>4, <1>5, <1>6, <1>7, <1>8 DEF CompTypes, skip
<1>10. DecompressorInv' /\ phase' \in Phase
  <2>1. phase' \in {"remainder", "scan", "match"}
    BY <1>1, <1>2
  <2> QED
    BY <1>1, <2>1, DecompressorKept DEF Phase
<1>11. CASE phase' = "remainder" /\ comp' = [comp EXCEPT !.ip = ip] /\ UNCHANGED reach
  <2>1. /\ CompFields(comp') /\ comp'.block = comp.block /\ comp'.left = comp.left
        /\ comp'.ip = ip /\ comp'.next_ip = comp.next_ip /\ comp'.next_emit = comp.next_emit
        /\ comp'.candidate = comp.candidate /\ comp'.skip = comp.skip /\ comp'.op = comp.op
        /\ comp'.table = comp.table
    <3> HIDE DEF ip
    <3> DEFINE c == [comp EXCEPT !.ip = ip]
    <3>1. /\ CompFields(c) /\ c.block = comp.block /\ c.left = comp.left
          /\ c.ip = ip /\ c.next_ip = comp.next_ip /\ c.next_emit = comp.next_emit
          /\ c.candidate = comp.candidate /\ c.skip = comp.skip /\ c.op = comp.op
          /\ c.table = comp.table
      <4>1. CompFields(comp)
        BY <1>3
      <4> QED
        BY <4>1, SetIp
    <3>2. comp' = c
      BY <1>11
    <3> HIDE DEF c
    <3> QED
      BY <3>1, <3>2
  <2>2. CompTypes(comp')
    BY <1>1, <1>3, <2>1 DEF CompTypes
  <2>3. Remaining'
    BY <1>3, <2>1 DEF Remaining
  <2>4. CompressorInv'
    BY <1>1, <1>11, <2>1, <2>2, <2>3, InBlockKept
  <2> QED
    BY <1>1, <1>10, <1>11, <2>4 DEF SnappyInv, NothingBeyond
<1>12. CASE next_ip <= Limit(comp) /\ comp' = probed /\ UNCHANGED <<phase, reach>>
  <2>1. Scanning'
    <3>1. comp.next_emit < next_ip
      BY <1>3, <1>5
    <3> QED
      BY <1>3, <1>7, <1>8, <1>12, <3>1 DEF Scanning
  <2>2. CompressorInv'
    BY <1>1, <1>7, <1>9, <1>12, <2>1, InBlockKept
  <2> QED
    BY <1>1, <1>10, <1>12, <2>2 DEF SnappyInv, NothingBeyond
<1>13. CASE /\ next_ip <= Limit(comp) /\ Word(comp, ip) = Word(comp, candidate)
            /\ comp' = [probed EXCEPT !.op = op] /\ phase' = "match"
            /\ reach' = IF ~FastLiteral(Len(literal), TRUE) THEN reach
                        ELSE reach + Beyond(comp.next_emit + 16, size)
                             + Beyond(Len(op) - Len(literal) + 16, Room)
  <2>1. ip + 16 <= size /\ ip + Margin < size /\ comp.next_emit + 16 <= size /\ ip <= size
    BY <1>3, <1>5, <1>13 DEF Limit, Margin
  <2>2. literal \in Seq(Byte) /\ Len(literal) = ip - comp.next_emit /\ Len(literal) <= TwoBytes
    <3> DEFINE text == comp.block
               from == comp.next_emit
    <3>1. text \in Seq(Byte) /\ from \in Nat /\ ip \in Nat /\ from < ip /\ ip <= Len(text)
      BY <1>3, <2>1
    <3>2. size <= TwoBytes
      <4>1. 2^16 = TwoBytes
        BY DEF TwoBytes
      <4>2. BlockSize \in Nat /\ BlockSize <= TwoBytes /\ size <= BlockSize
        BY <1>1, <4>1, SnappyAssumption DEF InBlock
      <4> QED
        BY <1>3, <4>2 DEF TwoBytes
    <3> HIDE DEF text, from, ip, size
    <3>3. SubSeq(text, from + 1, ip) \in Seq(Byte) /\ Len(SubSeq(text, from + 1, ip)) = ip - from
      BY <3>1
    <3>4. ip - from <= TwoBytes
      BY <1>3, <2>1, <3>1, <3>2 DEF TwoBytes
    <3> QED
      BY <3>3, <3>4 DEF text, from
  <2> HIDE DEF literal, ip, size
  <2>3. /\ op \in Seq(Byte) /\ Len(op) <= WithTags(ip) + 1
        /\ FastLiteral(Len(literal), TRUE) => Len(op) - Len(literal) + 16 <= WithTags(ip) + 28
    BY <1>3, <2>2, LiteralFits
  <2> HIDE DEF op
  <2>4. /\ CompFields(comp') /\ comp'.block = comp.block /\ comp'.left = comp.left
        /\ comp'.ip = ip /\ comp'.next_ip = next_ip /\ comp'.next_emit = comp.next_emit
        /\ comp'.candidate = candidate /\ comp'.skip = skip /\ comp'.op = op
        /\ comp'.table = table
    <3>1. /\ CompFields([probed EXCEPT !.op = op]) /\ [probed EXCEPT !.op = op].op = op
          /\ [probed EXCEPT !.op = op].block = probed.block
          /\ [probed EXCEPT !.op = op].left = probed.left
          /\ [probed EXCEPT !.op = op].ip = probed.ip
          /\ [probed EXCEPT !.op = op].next_ip = probed.next_ip
          /\ [probed EXCEPT !.op = op].next_emit = probed.next_emit
          /\ [probed EXCEPT !.op = op].candidate = probed.candidate
          /\ [probed EXCEPT !.op = op].skip = probed.skip
          /\ [probed EXCEPT !.op = op].table = probed.table
      BY <1>7, SetOp
    <3> QED
      BY <1>7, <1>13, <3>1
  <2>5. CompTypes(comp')
    BY <1>7, <1>9, <2>3, <2>4 DEF CompTypes
  <2>6. Matching'
    <3>1. Word(comp', comp'.candidate) = Word(comp', comp'.ip)
      BY <1>13, <2>4 DEF Word
    <3>2. comp'.ip + Margin < Len(comp'.block)
      BY <2>1, <2>4 DEF size
    <3> QED
      BY <1>6, <1>8, <2>3, <2>4, <3>1, <3>2 DEF Matching
  <2>7. CompressorInv'
    BY <1>1, <1>13, <2>4, <2>5, <2>6, InBlockKept
  <2>8. reach' = 0
    <3>1. Room \in Nat /\ WithTags(size) + 28 <= Room
      BY <1>1, RoomInBlock DEF size
    <3>2. WithTags(ip) <= WithTags(size) /\ WithTags(ip) \in Nat /\ WithTags(size) \in Nat
      BY <1>3, <2>1, WithTagsIs
    <3> DEFINE x == Len(op) - Len(literal) + 16
    <3>3. x \in Int
      BY <2>2, <2>3
    <3>4. FastLiteral(Len(literal), TRUE) => x <= WithTags(ip) + 28
      BY <2>3
    <3> HIDE DEF x
    <3>5. CASE ~FastLiteral(Len(literal), TRUE)
      BY <1>1, <1>13, <3>5
    <3>6. CASE FastLiteral(Len(literal), TRUE)
      <4>1. x <= Room
        BY <3>1, <3>2, <3>3, <3>4, <3>6
      <4>2. Beyond(x, Room) = 0
        BY <3>1, <3>3, <4>1, NotBeyond
      <4>3. Beyond(comp.next_emit + 16, size) = 0
        BY <1>3, <2>1, NotBeyond, comp.next_emit + 16 \in Int
      <4>4. reach' = reach + Beyond(comp.next_emit + 16, size) + Beyond(x, Room)
        BY <1>13, <3>6 DEF x
      <4> QED
        BY <1>1, <4>2, <4>3, <4>4
    <3> QED
      BY <3>5, <3>6
  <2> QED
    BY <1>10, <2>7, <2>8 DEF SnappyInv, NothingBeyond
<1> QED
  BY <1>2, <1>11, <1>12, <1>13

LEMMA MatchKeeps ==
  ASSUME SnappyInv, Match
  PROVE  SnappyInv'
<1> DEFINE base == comp.ip
           size == Len(comp.block)
           matched == 4 + FindMatchLength(comp.block, comp.candidate + 4, base + 4)
           ip == base + matched
           op == comp.op \o EmitCopy(base - comp.candidate, matched)
           copied == WithCopy(comp, ip, ip, op)
           before == TablePut(comp, HashAt(comp, ip - 1), ip - 1)
           h == HashAt(comp, ip)
           candidate == CandidateAt(copied, before, h)
           table == TablePut([comp EXCEPT !.table = before], h, ip)
           entered == WithTable(copied, candidate, table)
           scanned == WithProbe(entered, ip + 1, SkipStart)
<1>1. /\ phase = "match" /\ CompressorInv /\ DecompressorInv /\ reach = 0 /\ InBlock /\ Matching
      /\ CompTypes(comp)
      /\ UNCHANGED <<input, kind, stream, dec, out, reach>>
  BY DEF SnappyInv, Match, NothingBeyond, CompressorInv
<1>2. \/ comp' = copied /\ phase' = "remainder"
      \/ /\ ip < Limit(comp) /\ Word(comp, candidate) = Word(comp, ip)
         /\ comp' = entered /\ UNCHANGED phase
      \/ ip < Limit(comp) /\ comp' = scanned /\ phase' = "scan"
  BY DEF Match, WithCopy, WithTable, WithProbe
<1>3. /\ base \in Nat /\ size \in Nat /\ comp.block \in Seq(Byte) /\ comp.candidate \in Nat
      /\ comp.candidate < base /\ base + 15 < size /\ comp.op \in Seq(Byte)
      /\ Len(comp.op) <= WithTags(base) + 1
  BY <1>1 DEF Matching, CompTypes, Margin
<1>4. CompFields(comp)
  BY <1>1 DEF CompTypes
<1>5. matched \in Nat /\ matched >= 4 /\ base + matched <= size
  <2>1. base + 4 \in Nat /\ base + 4 <= size /\ comp.candidate + 4 \in Nat
    BY <1>3
  <2> DEFINE found == FindMatchLength(comp.block, comp.candidate + 4, base + 4)
  <2>2. found \in Nat /\ found <= size - (base + 4)
    BY <1>3, <2>1, FindMatchLengthIs
  <2> HIDE DEF found, base, size
  <2>3. 4 + found \in Nat /\ 4 + found >= 4 /\ base + (4 + found) <= size
    BY <1>3, <2>2
  <2> QED
    BY <2>3 DEF found
<1>6. op \in Seq(Byte) /\ Len(op) <= WithTags(ip)
  <2> DEFINE offset == base - comp.candidate
             copy == EmitCopy(offset, matched)
             k == Len(comp.op)
             m == Len(copy)
  <2>1. size <= TwoBytes
    <3>1. 2^16 = TwoBytes
      BY DEF TwoBytes
    <3>2. BlockSize \in Nat /\ BlockSize <= TwoBytes /\ size <= BlockSize
      BY <1>1, <3>1, SnappyAssumption DEF InBlock
    <3> QED
      BY <1>3, <3>2 DEF TwoBytes
  <2> HIDE DEF base, size, matched
  <2>2. offset \in Nat /\ offset < TwoBytes
    BY <1>3, <2>1 DEF TwoBytes
  <2> HIDE DEF offset
  <2>3. copy \in Seq(Byte) /\ m <= matched - 1
    BY <1>5, <2>2, EmitCopyIs
  <2> HIDE DEF copy
  <2>4. op \in Seq(Byte) /\ Len(op) = k + m /\ k \in Nat /\ m \in Nat
    BY <1>3, <2>3, JoinedOf DEF copy, offset
  <2>5. /\ WithTags(base) \in Nat /\ WithTags(matched) \in Nat /\ WithTags(ip) \in Nat
        /\ WithTags(matched) >= matched
        /\ WithTags(base) + WithTags(matched) <= WithTags(ip)
    <3>1. base \in Nat /\ matched \in Nat /\ ip \in Nat
      BY <1>3, <1>5
    <3>2. WithTags(base) + WithTags(matched) <= WithTags(ip)
      BY <3>1, WithTagsIs
    <3> HIDE DEF ip
    <3>3. WithTags(base) \in Nat /\ WithTags(matched) \in Nat /\ WithTags(ip) \in Nat
      BY <3>1, WithTagsIs
    <3>4. WithTags(matched) >= matched
      BY <3>1, WithTagsIs
    <3> QED
      BY <3>2, <3>3, <3>4
  <2> DEFINE a == WithTags(base)
             b == WithTags(matched)
             c == WithTags(ip)
  <2>6. a \in Nat /\ b \in Nat /\ c \in Nat /\ b >= matched /\ a + b <= c /\ k <= a + 1
    BY <1>3, <2>5
  <2> HIDE DEF a, b, c, k, m, op
  <2>7. k + m <= c
    BY <1>5, <2>3, <2>4, <2>6
  <2> QED
    BY <2>4, <2>7 DEF c
<1> HIDE DEF op, matched
<1>7. /\ ip \in Nat /\ ip > 0 /\ ip - 1 \in Nat /\ ip - 1 < ip /\ base < ip /\ ip <= size
      /\ ip + 1 \in Nat /\ ip < ip + 1
  BY <1>3, <1>5
<1>8. \A g \in DOMAIN comp.table : comp.table[g] \in Nat /\ comp.table[g] < ip
  <2>1. \A n \in Nat : n <= base => n < ip
    BY <1>3, <1>7
  <2> QED
    BY <1>1, <2>1 DEF CompTypes, Matching
<1> HIDE DEF base, size, ip, h
<1>9. \A g \in DOMAIN before : before[g] \in Nat /\ before[g] < ip
  BY <1>7, <1>8, TablePutIs
<1> HIDE DEF before
<1>10. candidate \in Nat /\ candidate < ip
  BY <1>7, <1>9 DEF CandidateAt
<1>11. \A g \in DOMAIN table : table[g] \in Nat /\ table[g] <= ip /\ table[g] < ip + 1
  <2> DEFINE c == [comp EXCEPT !.table = before]
  <2>1. c.table = before
    BY <1>4, SetTable
  <2>2. \A n \in Nat : n < ip => n < ip + 1
    BY <1>7
  <2> HIDE DEF c
  <2>3. \A g \in DOMAIN c.table : c.table[g] \in Nat /\ c.table[g] < ip + 1
    BY <1>9, <2>1, <2>2
  <2>4. \A g \in DOMAIN TablePut(c, h, ip) :
          TablePut(c, h, ip)[g] \in Nat /\ TablePut(c, h, ip)[g] < ip + 1
    BY <1>7, <2>3, TablePutIs
  <2>5. \A n \in Nat : n < ip + 1 => n <= ip
    BY <1>7
  <2> QED
    BY <2>4, <2>5 DEF c
<1> HIDE DEF candidate, table
<1>12. /\ CompFields(copied) /\ copied.block = comp.block /\ copied.left = comp.left
       /\ copied.ip = ip /\ copied.next_ip = comp.next_ip /\ copied.next_emit = ip
       /\ copied.candidate = comp.candidate /\ copied.skip = comp.skip /\ copied.op = op
       /\ copied.table = comp.table
  BY <1>4, SetCopyFields
<1> HIDE DEF copied
<1>13. /\ CompFields(entered) /\ entered.block = comp.block /\ entered.left = comp.left
       /\ entered.ip = ip /\ entered.next_ip = comp.next_ip /\ entered.next_emit = ip
       /\ entered.candidate = candidate /\ entered.skip = comp.skip /\ entered.op = op
       /\ entered.table = table
  BY <1>12, SetTableFields
<1> HIDE DEF entered
<1>14. /\ CompFields(scanned) /\ scanned.block = comp.block /\ scanned.left = comp.left
       /\ scanned.ip = ip /\ scanned.next_ip = ip + 1 /\ scanned.next_emit = ip
       /\ scanned.candidate = candidate /\ scanned.skip = SkipStart /\ scanned.op = op
       /\ scanned.table = table
  BY <1>13, SetProbeFields
<1> HIDE DEF scanned
<1>15. DecompressorInv' /\ phase' \in Phase
  <2>1. phase' \in {"remainder", "scan", "match"}
    BY <1>1, <1>2
  <2> QED
    BY <1>1, <2>1, DecompressorKept DEF Phase
<1>16. CASE comp' = copied /\ phase' = "remainder"
  <2>1. CompTypes(comp')
    BY <1>1, <1>6, <1>7, <1>12, <1>16 DEF CompTypes
  <2>2. Remaining'
    BY <1>6, <1>7, <1>12, <1>16 DEF Remaining, size
  <2>3. CompressorInv'
    BY <1>1, <1>12, <1>16, <2>1, <2>2, InBlockKept
  <2> QED
    BY <1>1, <1>15, <2>3 DEF SnappyInv, NothingBeyond
<1>17. CASE /\ ip < Limit(comp) /\ Word(comp, candidate) = Word(comp, ip)
            /\ comp' = entered /\ UNCHANGED phase
  <2>1. CompTypes(comp')
    BY <1>1, <1>6, <1>7, <1>10, <1>11, <1>13, <1>17 DEF CompTypes
  <2>2. Matching'
    <3>1. Word(comp', comp'.candidate) = Word(comp', comp'.ip)
      BY <1>13, <1>17 DEF Word
    <3>2. comp'.ip + Margin < Len(comp'.block)
      <4>1. ip + 15 < size
        BY <1>3, <1>7, <1>17 DEF Limit, Margin, size
      <4> QED
        BY <1>13, <1>17, <4>1 DEF Margin, size
    <3>3. Len(op) <= WithTags(ip) + 1
      <4> DEFINE n == Len(op)
                 c == WithTags(ip)
      <4>1. n \in Nat /\ c \in Nat /\ n <= c
        BY <1>6, <1>7, WithTagsIs
      <4> HIDE DEF n, c
      <4>2. n <= c + 1
        BY <4>1
      <4> QED
        BY <4>2 DEF n, c
    <3> QED
      BY <1>10, <1>11, <1>13, <1>17, <3>1, <3>2, <3>3 DEF Matching
  <2>3. CompressorInv'
    BY <1>1, <1>13, <1>17, <2>1, <2>2, InBlockKept
  <2> QED
    BY <1>1, <1>15, <2>3 DEF SnappyInv, NothingBeyond
<1>18. CASE ip < Limit(comp) /\ comp' = scanned /\ phase' = "scan"
  <2>1. CompTypes(comp')
    <3>1. SkipStart \in Nat /\ SkipStart >= SkipStart
      BY SnappyAssumption
    <3> QED
      BY <1>1, <1>6, <1>7, <1>10, <1>11, <1>14, <1>18, <3>1 DEF CompTypes
  <2>2. Scanning'
    BY <1>6, <1>7, <1>11, <1>14, <1>18 DEF Scanning, size
  <2>3. CompressorInv'
    BY <1>1, <1>14, <1>18, <2>1, <2>2, InBlockKept
  <2> QED
    BY <1>1, <1>15, <2>3 DEF SnappyInv, NothingBeyond
<1> QED
  BY <1>2, <1>16, <1>17, <1>18

LEMMA RemainderKeeps ==
  ASSUME SnappyInv, Remainder
  PROVE  SnappyInv'
<1> DEFINE size == Len(comp.block)
           from == comp.next_emit
           literal == SubSeq(comp.block, from + 1, size)
           op == comp.op \o IF literal = <<>> THEN <<>> ELSE EmitLiteral(literal)
           all == Len(input)
           left == comp.left
<1>1. /\ phase = "remainder" /\ CompressorInv /\ DecompressorInv /\ reach = 0 /\ InBlock
      /\ Remaining /\ CompTypes(comp)
      /\ UNCHANGED <<input, kind, dec, out>>
      /\ stream' = stream \o op /\ reach' = reach + Beyond(Len(op), Room)
      /\ comp' = Compressing(left) /\ phase' = "block"
  BY DEF SnappyInv, Remainder, NothingBeyond, CompressorInv
<1>2. /\ size \in Nat /\ comp.block \in Seq(Byte) /\ from \in Nat /\ from <= size
      /\ comp.op \in Seq(Byte) /\ Len(comp.op) <= WithTags(from)
      /\ stream \in Seq(Byte) /\ all \in Nat /\ left \in Nat /\ left + size <= all
      /\ left > 0 => size = BlockSize
      /\ Len(stream) <= Worst(all - left - size)
      /\ BlockSize \in Nat /\ BlockSize >= 6
  BY <1>1, SnappyAssumption DEF CompressorInv, CompTypes, InBlock, Done, Remaining
<1>3. size <= TwoBytes
  <2>1. 2^16 = TwoBytes
    BY DEF TwoBytes
  <2>2. BlockSize <= TwoBytes /\ size <= BlockSize
    BY <1>1, <2>1, SnappyAssumption DEF InBlock
  <2> QED
    BY <1>2, <2>2 DEF TwoBytes
<1>4. literal \in Seq(Byte) /\ Len(literal) = size - from
  <2> DEFINE text == comp.block
  <2>1. text \in Seq(Byte) /\ size = Len(text)
    BY <1>2
  <2> HIDE DEF text, from, size
  <2>2. SubSeq(text, from + 1, size) \in Seq(Byte) /\ Len(SubSeq(text, from + 1, size)) = size - from
    BY <1>2, <2>1
  <2> QED
    BY <2>2 DEF text
<1> HIDE DEF literal, size, from, all, left
<1> DEFINE k == Len(op)
           c == WithTags(size)
           taken == Len(stream)
           before == Worst(all - left - size)
           after == Worst(all - left)
<1>5. c \in Nat /\ WithTags(from) \in Nat /\ WithTags(from) <= c
  BY <1>2, WithTagsIs
<1>6. op \in Seq(Byte) /\ k \in Nat /\ k <= c + 1
  <2>1. CASE literal = <<>>
    <3>1. op = comp.op
      BY <1>2, <2>1, Joined
    <3> HIDE DEF op
    <3>2. k \in Nat /\ k <= WithTags(from) /\ op \in Seq(Byte)
      BY <1>2, <3>1
    <3> HIDE DEF k, c
    <3> QED
      BY <1>5, <3>2
  <2>2. CASE literal # <<>>
    <3>1. Len(literal) # 0
      BY <1>4, <2>2
    <3>2. from < size /\ Len(literal) <= TwoBytes
      BY <1>2, <1>3, <1>4, <3>1 DEF TwoBytes
    <3>3. /\ comp.op \o EmitLiteral(literal) \in Seq(Byte)
          /\ Len(comp.op \o EmitLiteral(literal)) <= c + 1
      BY <1>2, <1>4, <3>2, LiteralFits
    <3>4. op = comp.op \o EmitLiteral(literal)
      BY <2>2
    <3> HIDE DEF op, c
    <3> QED
      BY <3>3, <3>4
  <2> QED
    BY <2>1, <2>2
<1> HIDE DEF op
<1>7. reach' = 0
  <2>1. Room \in Nat /\ c + 28 <= Room
    BY <1>1, RoomInBlock DEF size
  <2> HIDE DEF c, k
  <2>2. k <= Room
    BY <1>5, <1>6, <2>1
  <2>3. Beyond(k, Room) = 0
    BY <1>6, <2>1, <2>2, NotBeyond
  <2> QED
    BY <1>1, <2>3 DEF k
<1>8. stream' \in Seq(Byte) /\ Len(stream') = taken + k /\ taken \in Nat
  <2>1. stream \o op \in Seq(Byte) /\ Len(stream \o op) = Len(stream) + Len(op)
    BY <1>2, <1>6, JoinedOf
  <2> QED
    BY <1>1, <1>2, <2>1
<1>9. left > 0 => taken + k <= after
  <2> SUFFICES ASSUME left > 0 PROVE taken + k <= after
    OBVIOUS
  <2> DEFINE done == all - left - size
             room == Worst(done + size)
  <2>1. done \in Nat /\ size >= 6 /\ done + size = all - left
    BY <1>2
  <2>2. before \in Nat /\ room \in Nat /\ before + c + 1 <= room
    <3> HIDE DEF done
    <3>1. done + size \in Nat
      BY <1>2, <2>1
    <3>2. Worst(done) \in Nat /\ Worst(done + size) \in Nat
      BY <2>1, <3>1, WorstIs
    <3>3. Worst(done) + WithTags(size) + 1 <= Worst(done + size)
      BY <1>2, <2>1, WorstIs
    <3> QED
      BY <3>2, <3>3 DEF done
  <2>3. room = after
    <3> HIDE DEF done
    <3> QED
      BY <2>1
  <2>4. taken <= before
    BY <1>2
  <2> HIDE DEF c, k, taken, before, room, after
  <2> QED
    BY <1>5, <1>6, <1>8, <2>2, <2>3, <2>4
<1>10. CompTypes(comp') /\ comp'.block = <<>> /\ comp'.left = left
  BY <1>1, <1>2, CompressingIs
<1>11. BetweenBlocks'
  <2>1. left <= all
    BY <1>2
  <2>2. Len(input') = all
    BY <1>1 DEF all
  <2> QED
    BY <1>8, <1>9, <1>10, <2>1, <2>2 DEF BetweenBlocks
<1>12. CompressorInv'
  <2>1. input' \in Seq(Byte) /\ Len(input') < Huge
    BY <1>1 DEF CompressorInv
  <2> QED
    BY <1>1, <1>8, <1>10, <1>11, <2>1 DEF CompressorInv
<1>13. DecompressorInv'
  BY <1>1, DecompressorKept
<1> QED
  BY <1>1, <1>7, <1>12, <1>13 DEF SnappyInv, NothingBeyond, Phase

\* An item is followed by the next, or by the end.
LEMMA NextItemIs ==
  ASSUME NEW d \in DecState, NextItem(d)
  PROVE  /\ dec' \in DecState /\ phase' \in {"tag", "ended"}
         /\ phase' = "tag" => TagAtHand(dec')
<1>1. MAYBE_REFILL(d).d \in DecState /\ (MAYBE_REFILL(d).go => TagAtHand(MAYBE_REFILL(d).d))
  BY RefillIs
<1> DEFINE r == MAYBE_REFILL(d)
<1>2. dec' = r.d /\ phase' = (IF r.go THEN "tag" ELSE "ended")
  BY DEF NextItem
<1> HIDE DEF r
<1> QED
  BY <1>1, <1>2 DEF r

LEMMA PutIs ==
  ASSUME NEW r, NEW d \in DecState, StaysInside(r, out), out \in WriterState, reach = 0, Put(r, d)
  PROVE  /\ dec' \in DecState /\ out' \in WriterState /\ phase' \in {"tag", "ended"}
         /\ phase' = "tag" => TagAtHand(dec')
         /\ reach' = 0
<1>1. out' = r.w /\ (NextItem(d) \/ (dec' = d /\ phase' = "ended"))
  BY DEF Put
<1>2. out' \in WriterState /\ r.end \in Nat /\ r.end <= out.expected /\ out.expected \in Nat
  BY <1>1 DEF StaysInside, WriterState
<1>3. reach' = 0
  <2>1. Beyond(r.end, out.expected) = 0
    BY <1>2, NotBeyond
  <2> QED
    BY <2>1 DEF Put
<1>4. CASE NextItem(d)
  BY <1>2, <1>3, <1>4, NextItemIs
<1>5. CASE dec' = d /\ phase' = "ended"
  BY <1>2, <1>3, <1>5
<1> QED
  BY <1>1, <1>4, <1>5

LEMMA OpensKeeps ==
  ASSUME SnappyInv, Opens
  PROVE  SnappyInv'
<1> DEFINE length == ReadUncompressedLength(stream)
<1>1. /\ phase = "open" /\ CompressorInv /\ DecompressorInv /\ reach = 0
      /\ stream \in Seq(Byte) /\ out \in WriterState
      /\ UNCHANGED <<input, kind, comp, stream, reach>>
  BY DEF SnappyInv, Opens, NothingBeyond, CompressorInv, DecompressorInv
<1>2. length.value \in Nat /\ length.size \in Nat
  BY <1>1, LengthIs
<1> DEFINE Opened(caller, fragment, room) ==
        LET d == [src |-> Skip(Source(stream, fragment), length.size), buf |-> <<>>, peeked |-> 0,
                  literal |-> 0, eof |-> FALSE, caller |-> caller,
                  short |-> caller = "snappy_uncompress" /\ room < length.value]
        IN  IF length.ok /\ Admits(caller, room)
            THEN /\ out' = [mem |-> [i \in 1..Least(length.value, MaxMem) |-> 0], op |-> 0,
                            expected |-> length.value]
                 /\ NextItem(d)
            ELSE dec' = d /\ phase' = "ended" /\ UNCHANGED out
<1>3. PICK caller \in Caller : \E fragment \in Fragments(caller) :
        \E room \in {length.value, Larger(length.value, 1) - 1} : Opened(caller, fragment, room)
  BY DEF Opens
<1>10. PICK fragment \in Fragments(caller) :
         \E room \in {length.value, Larger(length.value, 1) - 1} : Opened(caller, fragment, room)
  BY <1>3
<1>11. PICK room \in {length.value, Larger(length.value, 1) - 1} : Opened(caller, fragment, room)
  BY <1>10
<1> DEFINE short == caller = "snappy_uncompress" /\ room < length.value
           src == Skip(Source(stream, fragment), length.size)
           d == [src |-> src, buf |-> <<>>, peeked |-> 0, literal |-> 0, eof |-> FALSE,
                 caller |-> caller, short |-> short]
           mem == [i \in 1..Least(length.value, MaxMem) |-> 0]
           w == [mem |-> mem, op |-> 0, expected |-> length.value]
<1>4. \/ out' = w /\ NextItem(d)
      \/ dec' = d /\ phase' = "ended" /\ UNCHANGED out
  BY <1>11
<1> HIDE DEF length
<1>5. src \in ByteSource
  <2>1. Len(stream) \in Nat
    BY <1>1
  <2>2. fragment \in Nat \ {0}
    <3>1. Larger(Len(stream), 1) \in Nat \ {0}
      BY <2>1 DEF Larger
    <3>2. fragment \in Fragment \/ fragment = Larger(Len(stream), 1)
      BY <1>10 DEF Fragments
    <3> QED
      BY <3>1, <3>2, SnappyAssumption
  <2>3. Source(stream, fragment) \in ByteSource
    BY <1>1, <2>2, 0 \in Nat DEF Source, ByteSource
  <2> QED
    BY <1>2, <2>3, SkipIs
<1>6. d \in DecState
  <2>1. short \in BOOLEAN
    BY Zenon
  <2>2. <<>> \in Seq(Byte) /\ 0 \in Nat /\ FALSE \in BOOLEAN /\ caller \in Caller \cup {"none"}
    BY <1>3
  <2> HIDE DEF short, src
  <2> QED
    BY <1>5, <2>1, <2>2 DEF DecState
<1>7. w \in WriterState
  <2> DEFINE n == Least(length.value, MaxMem)
  <2>1. n \in Nat
    BY <1>2, SnappyAssumption DEF Least
  <2>2. 0 \in Byte
    BY DEF Byte
  <2> HIDE DEF n
  <2>3. [i \in 1..n |-> 0] \in Seq(Byte)
    BY <2>1, <2>2
  <2>4. mem \in Seq(Byte)
    BY <2>3 DEF n
  <2> HIDE DEF mem
  <2>5. 0 \in Nat /\ 0 <= length.value
    BY <1>2
  <2> QED
    BY <1>2, <2>4, <2>5 DEF WriterState
<1> HIDE DEF d, w
<1>8. /\ dec' \in DecState /\ out' \in WriterState /\ phase' \in {"tag", "ended"}
      /\ phase' = "tag" => TagAtHand(dec')
  <2>1. CASE out' = w /\ NextItem(d)
    BY <1>6, <1>7, <2>1, NextItemIs
  <2>2. CASE dec' = d /\ phase' = "ended" /\ UNCHANGED out
    BY <1>1, <1>6, <2>2
  <2> QED
    BY <1>4, <2>1, <2>2
<1>9. CompressorInv'
  BY <1>1, <1>8, CompressorKept
<1> QED
  BY <1>1, <1>8, <1>9 DEF SnappyInv, NothingBeyond, Phase, DecompressorInv

\* What the decompressor works with at a tag.
LEMMA AtTag ==
  ASSUME SnappyInv, phase = "tag"
  PROVE  /\ CompressorInv /\ reach = 0 /\ out \in WriterState /\ dec \in DecState
         /\ dec.buf \in Seq(Byte) /\ dec.buf # <<>> /\ Head(dec.buf) \in Byte
         /\ Len(dec.buf) >= char_table(Head(dec.buf)).extra + 1
         /\ char_table(Head(dec.buf)) \in TagEntry
<1>1. dec \in DecState /\ TagAtHand(dec) /\ CompressorInv /\ reach = 0 /\ out \in WriterState
  BY DEF SnappyInv, DecompressorInv, NothingBeyond
<1>2. dec.buf \in Seq(Byte) /\ dec.buf # <<>> /\ Len(dec.buf) >= Needed(dec)
  BY <1>1 DEF DecState, TagAtHand
<1>3. Head(dec.buf) \in Byte /\ Needed(dec) = char_table(Head(dec.buf)).extra + 1
  BY <1>1, <1>2, NeededIs
<1> QED
  BY <1>1, <1>2, <1>3, EntryIs

LEMMA CopyTagKeeps ==
  ASSUME SnappyInv, CopyTag
  PROVE  SnappyInv'
<1> DEFINE entry == char_table(Head(dec.buf))
           trailer == LittleEndian(SubSeq(dec.buf, 2, entry.extra + 1))
           offset == entry.copy_offset * 256 + trailer
           r == AppendFromSelf(out, offset, entry.len)
           rest == Drop(dec.buf, entry.extra + 1)
           d == [dec EXCEPT !.buf = rest]
<1>1. phase = "tag" /\ Put(r, d) /\ UNCHANGED <<input, kind, comp, stream>>
  BY DEF CopyTag
<1>2. /\ CompressorInv /\ reach = 0 /\ out \in WriterState /\ dec \in DecState
      /\ dec.buf \in Seq(Byte) /\ Len(dec.buf) >= entry.extra + 1 /\ entry \in TagEntry
  BY <1>1, AtTag
<1> HIDE DEF entry
<1>3. entry.extra \in Nat /\ entry.len \in Nat /\ entry.len >= 1 /\ entry.copy_offset \in Nat
      /\ entry.extra + 1 \in Nat
  <2>1. entry \in TagEntry
    BY <1>2
  <2>2. entry.extra \in 0..4 /\ entry.len \in 1..64 /\ entry.copy_offset \in 0..7
    BY <2>1 DEF TagEntry
  <2> QED
    BY <2>2
<1>4. trailer \in Nat
  <2>1. SubSeq(dec.buf, 2, entry.extra + 1) \in Seq(Byte)
    <3> DEFINE text == dec.buf
               n == entry.extra + 1
    <3>1. text \in Seq(Byte) /\ n \in Nat /\ n <= Len(text)
      BY <1>2, <1>3
    <3> HIDE DEF text, n
    <3>2. SubSeq(text, 2, n) \in Seq(Byte)
      BY <3>1
    <3> QED
      BY <3>2 DEF text, n
  <2> QED
    BY <2>1, LittleEndianIs
<1> HIDE DEF trailer
<1>5. offset \in Nat
  BY <1>3, <1>4
<1> HIDE DEF offset
<1>6. StaysInside(r, out)
  BY <1>2, <1>3, <1>5, AppendFromSelfStays
<1>7. d \in DecState
  <2>1. rest \in Seq(Byte)
    BY <1>2, <1>3, Dropped
  <2> HIDE DEF rest
  <2> QED
    BY <1>2, <2>1 DEF DecState
<1> HIDE DEF r, d
<1>8. /\ dec' \in DecState /\ out' \in WriterState /\ phase' \in {"tag", "ended"}
      /\ phase' = "tag" => TagAtHand(dec')
      /\ reach' = 0
  BY <1>1, <1>2, <1>6, <1>7, PutIs
<1>9. CompressorInv'
  BY <1>1, <1>2, <1>8, CompressorKept
<1> QED
  BY <1>8, <1>9 DEF SnappyInv, NothingBeyond, Phase, DecompressorInv

\* A long literal's tag says how many bytes of its length follow.
LEMMA LongEntryIs ==
  ASSUME NEW c \in Byte, c % 4 = LITERAL, c \div 4 >= 60
  PROVE  char_table(c).extra = c \div 4 - 59
<1> DEFINE low == c % 4
           high == c \div 4
<1>1. low = 0 /\ high \in Nat /\ high >= 60
  BY DEF Byte, LITERAL
<1>2. char_table(c) =
        CASE low = LITERAL /\ high < 60 -> MakeEntry(0, high + 1, 0)
          [] low = LITERAL /\ high >= 60 -> MakeEntry(high - 59, 1, 0)
          [] low = COPY_1_BYTE_OFFSET -> MakeEntry(1, (high % 8) + 4, high \div 8)
          [] low = COPY_2_BYTE_OFFSET -> MakeEntry(2, high + 1, 0)
          [] low = COPY_4_BYTE_OFFSET -> MakeEntry(4, high + 1, 0)
  BY DEF char_table
<1> HIDE DEF low, high
<1>3. char_table(c) = MakeEntry(high - 59, 1, 0)
  BY <1>1, <1>2 DEF LITERAL, COPY_1_BYTE_OFFSET, COPY_2_BYTE_OFFSET, COPY_4_BYTE_OFFSET
<1> QED
  BY <1>3 DEF MakeEntry, high

LEMMA LiteralLengthIs ==
  ASSUME NEW c \in Byte
  PROVE  /\ c \div 4 + 1 \in Nat /\ c \div 4 + 1 <= 64
         /\ c \div 4 + 1 >= 61 => /\ c \div 4 >= 60 /\ (c \div 4 + 1) - 60 \in Nat
                                 /\ (c \div 4 + 1) - 60 = c \div 4 - 59
BY DEF Byte

LEMMA LiteralItemKeeps ==
  ASSUME SnappyInv, LiteralItem
  PROVE  SnappyInv'
<1> DEFINE tag == Head(dec.buf)
           len == tag \div 4 + 1
           rest == Tail(dec.buf)
           fast == TryFastAppend(out, Validating, rest, len)
           behind == Drop(rest, len)
           after == Drop(rest, len - 60)
           long == LongLiteral(len, rest)
           d == [dec EXCEPT !.buf = behind]
           short == [dec EXCEPT !.buf = rest, !.literal = len]
           other == [dec EXCEPT !.buf = after, !.literal = long]
<1>1. phase = "tag" /\ tag % 4 = LITERAL /\ UNCHANGED <<input, kind, comp, stream>>
      /\ \/ Put(fast, d)
         \/ /\ dec' = IF len < 61 THEN short ELSE other
            /\ phase' = "literal" /\ UNCHANGED <<out, reach>>
  BY DEF LiteralItem
<1>2. /\ CompressorInv /\ reach = 0 /\ out \in WriterState /\ dec \in DecState
      /\ dec.buf \in Seq(Byte) /\ dec.buf # <<>> /\ tag \in Byte
      /\ Len(dec.buf) >= char_table(tag).extra + 1
  BY <1>1, AtTag
<1>3. rest \in Seq(Byte) /\ Len(rest) = Len(dec.buf) - 1 /\ Len(dec.buf) \in Nat
  <2> DEFINE text == dec.buf
  <2>1. text \in Seq(Byte) /\ text # <<>>
    BY <1>2
  <2> HIDE DEF text
  <2>2. Tail(text) \in Seq(Byte) /\ Len(Tail(text)) = Len(text) - 1 /\ Len(text) \in Nat
    BY <2>1
  <2> QED
    BY <2>2 DEF text
<1>4. len \in Nat /\ len <= 64
  BY <1>2, LiteralLengthIs
<1>5. len >= 61 => after \in Seq(Byte) /\ long \in Nat
  <2> SUFFICES ASSUME len >= 61 PROVE after \in Seq(Byte) /\ long \in Nat
    OBVIOUS
  <2> DEFINE n == len - 60
             bytes == SubSeq(rest, 1, n)
             extra == char_table(tag).extra
  <2>1. tag \div 4 >= 60 /\ n \in Nat /\ n = tag \div 4 - 59
    BY <1>2, LiteralLengthIs
  <2>2. extra = n
    BY <1>1, <1>2, <2>1, LongEntryIs
  <2> HIDE DEF n, extra, tag
  <2>3. n <= Len(rest)
    <3> DEFINE size == Len(dec.buf)
               m == Len(rest)
    <3>1. size \in Nat /\ m = size - 1 /\ size >= n + 1
      BY <1>2, <1>3, <2>2 DEF extra
    <3> HIDE DEF size, m
    <3>2. n <= m
      BY <2>1, <3>1
    <3> QED
      BY <3>2 DEF m
  <2> HIDE DEF rest
  <2>4. bytes \in Seq(Byte)
    BY <1>3, <2>1, <2>3
  <2>5. LittleEndian(bytes) \in Nat
    BY <2>4, LittleEndianIs
  <2>6. long = IF bytes = <<255, 255, 255, 255>> THEN 0 ELSE LittleEndian(bytes) + 1
    BY DEF LongLiteral, n
  <2> HIDE DEF bytes, long
  <2>7. long \in Nat
    BY <2>5, <2>6
  <2>8. after \in Seq(Byte)
    BY <1>3, <2>1, Dropped DEF n
  <2> QED
    BY <2>7, <2>8
<1>6. behind \in Seq(Byte)
  <2> HIDE DEF rest, len
  <2> QED
    BY <1>3, <1>4, Dropped
<1>7. StaysInside(fast, out)
  <2> HIDE DEF rest, len
  <2> DEFINE v == Validating
  <2>1. fast = TryFastAppend(out, v, rest, len)
    OBVIOUS
  <2> HIDE DEF v, fast
  <2> QED
    BY <1>2, <1>3, <1>4, <2>1, FastAppendStays
<1> HIDE DEF rest, len, tag, behind, after, long, fast
<1>8. d \in DecState
  BY <1>2, <1>6 DEF DecState
<1>9. len < 61 => short \in DecState
  BY <1>2, <1>3, <1>4 DEF DecState
<1>10. len >= 61 => other \in DecState
  BY <1>2, <1>5 DEF DecState
<1> HIDE DEF d, short, other
<1>11. /\ dec' \in DecState /\ out' \in WriterState /\ phase' \in {"tag", "literal", "ended"}
       /\ phase' = "tag" => TagAtHand(dec')
       /\ reach' = 0
  <2>1. CASE Put(fast, d)
    BY <1>2, <1>7, <1>8, <2>1, PutIs
  <2>2. CASE /\ dec' = IF len < 61 THEN short ELSE other
             /\ phase' = "literal" /\ UNCHANGED <<out, reach>>
    BY <1>2, <1>4, <1>9, <1>10, <2>2
  <2> QED
    BY <1>1, <2>1, <2>2
<1>12. CompressorInv'
  BY <1>1, <1>2, <1>11, CompressorKept
<1> QED
  BY <1>11, <1>12 DEF SnappyInv, NothingBeyond, Phase, DecompressorInv

LEMMA LiteralChunkKeeps ==
  ASSUME SnappyInv, LiteralChunk
  PROVE  SnappyInv'
<1> DEFINE avail == Len(dec.buf)
           taken == Take(dec.buf, dec.literal)
           behind == Drop(dec.buf, dec.literal)
           chunk == Append_(out, taken)
           src == Skip(dec.src, dec.peeked)
           peek == Peek(src)
           left == dec.literal - avail
           d == [dec EXCEPT !.buf = behind, !.literal = 0]
           next == [dec EXCEPT !.src = src, !.buf = peek, !.peeked = Len(peek), !.literal = left]
<1>1. /\ phase = "literal" /\ CompressorInv /\ reach = 0 /\ out \in WriterState /\ dec \in DecState
      /\ UNCHANGED <<input, kind, comp, stream>>
  BY DEF SnappyInv, LiteralChunk, NothingBeyond, DecompressorInv
<1>2. \/ Put(chunk, d)
      \/ /\ avail < dec.literal /\ out' = chunk.w /\ dec' = next
         /\ phase' \in {"literal", "ended"} /\ UNCHANGED reach
  BY DEF LiteralChunk
<1>3. /\ dec.buf \in Seq(Byte) /\ dec.literal \in Nat /\ dec.src \in ByteSource
      /\ dec.peeked \in Nat /\ avail \in Nat
  BY <1>1 DEF DecState
<1>4. taken \in Seq(Byte) /\ behind \in Seq(Byte)
  BY <1>3, Taken, Dropped
<1>5. src \in ByteSource
  BY <1>3, SkipIs
<1> HIDE DEF src
<1>6. peek \in Seq(Byte)
  BY <1>5, PeekIs
<1>7. Len(peek) \in Nat
  BY <1>6
<1> HIDE DEF taken, behind, peek
<1>8. StaysInside(chunk, out)
  BY <1>1, <1>4, AppendStays
<1>9. d \in DecState
  BY <1>1, <1>4 DEF DecState
<1>10. avail < dec.literal => next \in DecState
  <2> SUFFICES ASSUME avail < dec.literal PROVE next \in DecState
    OBVIOUS
  <2> DEFINE size == Len(peek)
  <2>1. left \in Nat
    BY <1>3
  <2>2. size \in Nat
    BY <1>7
  <2> DEFINE x == [dec EXCEPT !.src = src, !.buf = peek, !.peeked = size, !.literal = left]
  <2>3. next = x
    OBVIOUS
  <2> HIDE DEF left, size, next
  <2>4. x \in DecState
    BY <1>1, <1>5, <1>6, <2>1, <2>2 DEF DecState
  <2> QED
    BY <2>3, <2>4
<1> HIDE DEF d, next, chunk, left, avail
<1>11. /\ dec' \in DecState /\ out' \in WriterState /\ phase' \in {"tag", "literal", "ended"}
       /\ phase' = "tag" => TagAtHand(dec')
       /\ reach' = 0
  <2>1. CASE Put(chunk, d)
    BY <1>1, <1>8, <1>9, <2>1, PutIs
  <2>2. CASE /\ avail < dec.literal /\ out' = chunk.w /\ dec' = next
             /\ phase' \in {"literal", "ended"} /\ UNCHANGED reach
    BY <1>1, <1>8, <1>10, <2>2 DEF StaysInside
  <2> QED
    BY <1>2, <2>1, <2>2
<1>12. CompressorInv'
  BY <1>1, <1>11, CompressorKept
<1> QED
  BY <1>11, <1>12 DEF SnappyInv, NothingBeyond, Phase, DecompressorInv

LEMMA SnappyStutters ==
  ASSUME SnappyInv, UNCHANGED snappyVars
  PROVE  SnappyInv'
<1>1. UNCHANGED <<phase, input, comp, stream, dec, out, reach>>
  BY DEF snappyVars
<1>2. phase' \in Phase /\ NothingBeyond'
  BY <1>1 DEF SnappyInv, NothingBeyond
<1>3. DecompressorInv'
  BY <1>1 DEF SnappyInv, DecompressorInv
<1>4. (InBlock => InBlock') /\ (BetweenBlocks => BetweenBlocks')
  BY <1>1 DEF InBlock, BetweenBlocks, Done
<1>5. (Scanning => Scanning') /\ (Matching => Matching') /\ (Remaining => Remaining')
  BY <1>1 DEF Scanning, Matching, Remaining, Word
<1>6. CompressorInv'
  BY <1>1, <1>4, <1>5 DEF SnappyInv, CompressorInv
<1> QED
  BY <1>2, <1>3, <1>6 DEF SnappyInv

-------------------------------------------------------------------------------
(* What holds of every behaviour. *)

\* The positions of the compressor, what its output may still take, and the
\* states of the decompressor's buffer and writer: the invariant the others follow
\* from (snappy.cc, CompressFragment, RawCompress, SnappyDecompressor).
THEOREM SnappySafe == SnappySpec => []SnappyInv
<1>1. SnappyInit => SnappyInv
  BY SnappyStarts
<1>2. SnappyInv /\ [SnappyNext]_snappyVars => SnappyInv'
  <2> SUFFICES ASSUME SnappyInv, [SnappyNext]_snappyVars PROVE SnappyInv'
    OBVIOUS
  <2>1. CASE NextBlock
    BY <2>1, NextBlockKeeps
  <2>2. CASE Scan
    BY <2>2, ScanKeeps
  <2>3. CASE Match
    BY <2>3, MatchKeeps
  <2>4. CASE Remainder
    BY <2>4, RemainderKeeps
  <2>5. CASE Opens
    BY <2>5, OpensKeeps
  <2>6. CASE LiteralItem
    BY <2>6, LiteralItemKeeps
  <2>7. CASE LiteralChunk
    BY <2>7, LiteralChunkKeeps
  <2>8. CASE CopyTag
    BY <2>8, CopyTagKeeps
  <2>9. CASE UNCHANGED snappyVars
    BY <2>9, SnappyStutters
  <2> QED
    BY <2>1, <2>2, <2>3, <2>4, <2>5, <2>6, <2>7, <2>8, <2>9 DEF SnappyNext
<1> QED
  BY <1>1, <1>2, PTL DEF SnappySpec

\* What is compressed, written and decompressed stays bytes.
THEOREM SnappyTyped == SnappySpec => []SnappyTypeOK
<1>1. SnappyInv => SnappyTypeOK
  BY DEF SnappyInv, CompressorInv, CompTypes, DecompressorInv, WriterState, SnappyTypeOK
<1> QED
  BY <1>1, SnappySafe, PTL

\* However the hash function, the size of a block and the fragments are chosen, and
\* whatever the stream: every match lies behind what it is copied to and says the
\* same four bytes, the table points behind the next probe, and no read or write
\* leaves the block, the worst case of the output or the length expected
\* (CompressFragment, EmitLiteral, AppendFromSelf, IncrementalCopyFastPath).
THEOREM SnappyInside == SnappySpec => [](NothingBeyond /\ MatchesAreBehind)
<1>1. SnappyInv => NothingBeyond /\ MatchesAreBehind
  BY DEF SnappyInv, CompressorInv, Scanning, Matching, MatchesAreBehind
<1> QED
  BY <1>1, SnappySafe, PTL

-------------------------------------------------------------------------------
(* What a stream tells of a text. *)

\* What the bytes of a copy's tag say: how many bytes, and from how far behind.
ShortCopy(c, b, n, offset) ==
  c % 4 = 1 /\ n = ((c \div 4) % 8) + 4 /\ offset = (c \div 32) * 256 + b
LongCopy(c, b1, b2, n, offset) ==
  c % 4 = 2 /\ n = c \div 4 + 1 /\ offset = b1 + 256 * b2

CopyAt(s, i, e, n, offset) ==
  \/ e = i + 2 /\ ShortCopy(s[i + 1], s[i + 2], n, offset)
  \/ e = i + 3 /\ LongCopy(s[i + 1], s[i + 2], s[i + 3], n, offset)

\* And those of a literal's: how many bytes follow them.
OneByteTag(c, n) == c % 4 = 0 /\ n = c \div 4 + 1 /\ n <= 60
TwoByteTag(c, b, n) == c = 240 /\ n = b + 1
ThreeByteTag(c, b1, b2, n) == c = 244 /\ n = b1 + 256 * b2 + 1

LiteralAt(s, i, b, n) ==
  \/ b = i + 1 /\ OneByteTag(s[i + 1], n)
  \/ b = i + 2 /\ TwoByteTag(s[i + 1], s[i + 2], n)
  \/ b = i + 3 /\ ThreeByteTag(s[i + 1], s[i + 2], s[i + 3], n)

\* Between i and e the stream s has an item that stands for what the text t has
\* between j and l.
CopyItem(s, i, e, t, j, l) ==
  \E offset \in 1..j : CopyAt(s, i, e, l - j, offset) /\ \A k \in j + 1..l : t[k] = t[k - offset]
LiteralItemAt(s, i, e, t, j, l) ==
  /\ i + 1 <= e - (l - j)
  /\ LiteralAt(s, i, e - (l - j), l - j)
  /\ \A k \in 1..l - j : s[e - (l - j) + k] = t[j + k]

ItemAt(s, i, e, t, j, l) ==
  /\ i < e /\ e <= Len(s) /\ j < l /\ l <= Len(t)
  /\ CopyItem(s, i, e, t, j, l) \/ LiteralItemAt(s, i, e, t, j, l)

\* Pairs of positions in stream and text, each with one an item further on, or at
\* the end of the stream and at m in the text.
Position == Nat \X Nat
Cuts(C, s, t, m) ==
  \A c \in C : \/ c = <<Len(s), m>>
               \/ \E d \in C : ItemAt(s, c[1], d[1], t, c[2], d[2])

\* From i on the stream tells the text from j to m.
Tells(s, i, t, j, m) == \E C \in SUBSET Position : <<i, j>> \in C /\ Cuts(C, s, t, m)

LEMMA BytesAreNumbers ==
  ASSUME NEW s \in Seq(Byte)
  PROVE  \A k \in 1..Len(s) : s[k] \in Nat
<1>1. \A k \in 1..Len(s) : s[k] \in Byte
  OBVIOUS
<1>2. \A b \in Byte : b \in Nat
  BY DEF Byte
<1> QED
  BY <1>1, <1>2

\* An item says the same wherever its bytes stand.
LEMMA ItemMoved ==
  ASSUME NEW s \in Seq(Byte), NEW u \in Seq(Byte), NEW t, NEW a \in Nat,
         NEW i \in Nat, NEW e \in Nat, NEW j \in Nat, NEW l \in Nat,
         ItemAt(s, i, e, t, j, l),
         a + Len(s) <= Len(u), \A k \in 1..Len(s) : u[a + k] = s[k]
  PROVE  ItemAt(u, a + i, a + e, t, j, l)
<1> DEFINE n == l - j
<1>1. Len(s) \in Nat /\ i < e /\ e <= Len(s) /\ j < l /\ n \in Nat /\ n >= 1 /\ Len(u) \in Nat
  BY DEF ItemAt
<1>2. \A k \in 1..e - i : u[(a + i) + k] = s[i + k]
  <2> SUFFICES ASSUME NEW k \in 1..e - i PROVE u[(a + i) + k] = s[i + k]
    OBVIOUS
  <2>1. i + k \in 1..Len(s) /\ a + (i + k) = (a + i) + k
    BY <1>1
  <2> QED
    BY <2>1
<1>3. a + i < a + e /\ a + e <= Len(u)
  BY <1>1
<1>4. CASE CopyItem(s, i, e, t, j, l)
  <2>1. PICK offset \in 1..j : CopyAt(s, i, e, n, offset) /\ \A k \in j + 1..l : t[k] = t[k - offset]
    BY <1>4 DEF CopyItem
  <2> HIDE DEF n
  <2>4. CopyAt(u, a + i, a + e, n, offset)
    <3>1. CASE e = i + 2 /\ ShortCopy(s[i + 1], s[i + 2], n, offset)
      <4>1. a + e = (a + i) + 2 /\ 1 \in 1..e - i /\ 2 \in 1..e - i
        BY <3>1
      <4>2. u[(a + i) + 1] = s[i + 1] /\ u[(a + i) + 2] = s[i + 2]
        BY <1>2, <4>1
      <4> QED
        BY <3>1, <4>1, <4>2 DEF CopyAt
    <3>2. CASE e = i + 3 /\ LongCopy(s[i + 1], s[i + 2], s[i + 3], n, offset)
      <4>1. a + e = (a + i) + 3 /\ 1 \in 1..e - i /\ 2 \in 1..e - i /\ 3 \in 1..e - i
        BY <3>2
      <4>2. u[(a + i) + 1] = s[i + 1] /\ u[(a + i) + 2] = s[i + 2] /\ u[(a + i) + 3] = s[i + 3]
        BY <1>2, <4>1
      <4> QED
        BY <3>2, <4>1, <4>2 DEF CopyAt
    <3> QED
      BY <2>1, <3>1, <3>2 DEF CopyAt
  <2>5. CopyItem(u, a + i, a + e, t, j, l)
    BY <2>1, <2>4 DEF CopyItem, n
  <2> QED
    BY <1>1, <1>3, <2>5 DEF ItemAt
<1>5. CASE LiteralItemAt(s, i, e, t, j, l)
  <2> DEFINE b == e - n
  <2>1. i + 1 <= b /\ LiteralAt(s, i, b, n) /\ \A k \in 1..n : s[b + k] = t[j + k]
    BY <1>5 DEF LiteralItemAt
  <2>2. b \in Nat /\ b + n = e /\ (a + e) - n = a + b /\ (a + i) + 1 <= a + b
    BY <1>1, <2>1
  <2> HIDE DEF n, b
  <2>3. \A k \in 1..b - i : k \in 1..e - i
    <3>1. b - i <= e - i /\ b - i \in Int /\ e - i \in Int
      BY <1>1, <2>2
    <3> QED
      BY <3>1
  <2>7. LiteralAt(u, a + i, a + b, n)
    <3>1. CASE b = i + 1 /\ OneByteTag(s[i + 1], n)
      <4>1. a + b = (a + i) + 1 /\ 1 \in 1..b - i
        BY <3>1
      <4>2. u[(a + i) + 1] = s[i + 1]
        BY <1>2, <2>3, <4>1
      <4> QED
        BY <3>1, <4>1, <4>2 DEF LiteralAt
    <3>2. CASE b = i + 2 /\ TwoByteTag(s[i + 1], s[i + 2], n)
      <4>1. a + b = (a + i) + 2 /\ 1 \in 1..b - i /\ 2 \in 1..b - i
        BY <3>2
      <4>2. u[(a + i) + 1] = s[i + 1] /\ u[(a + i) + 2] = s[i + 2]
        BY <1>2, <2>3, <4>1
      <4> QED
        BY <3>2, <4>1, <4>2 DEF LiteralAt
    <3>3. CASE b = i + 3 /\ ThreeByteTag(s[i + 1], s[i + 2], s[i + 3], n)
      <4>1. a + b = (a + i) + 3 /\ 1 \in 1..b - i /\ 2 \in 1..b - i /\ 3 \in 1..b - i
        BY <3>3
      <4>2. u[(a + i) + 1] = s[i + 1] /\ u[(a + i) + 2] = s[i + 2] /\ u[(a + i) + 3] = s[i + 3]
        BY <1>2, <2>3, <4>1
      <4> QED
        BY <3>3, <4>1, <4>2 DEF LiteralAt
    <3> QED
      BY <2>1, <3>1, <3>2, <3>3 DEF LiteralAt
  <2>8. \A k \in 1..n : u[(a + b) + k] = t[j + k]
    <3> SUFFICES ASSUME NEW k \in 1..n PROVE u[(a + b) + k] = t[j + k]
      OBVIOUS
    <3>1. b + k \in 1..Len(s) /\ a + (b + k) = (a + b) + k
      BY <1>1, <2>2
    <3> QED
      BY <2>1, <3>1
  <2>9. LiteralItemAt(u, a + i, a + e, t, j, l)
    BY <2>2, <2>7, <2>8 DEF LiteralItemAt, n
  <2> QED
    BY <1>1, <1>3, <2>9 DEF ItemAt
<1> QED
  BY <1>4, <1>5 DEF ItemAt

LEMMA TellsNothing ==
  ASSUME NEW t, NEW j \in Nat
  PROVE  Tells(<<>>, 0, t, j, j)
<1> DEFINE C == {<<0, j>>}
<1>1. C \in SUBSET Position /\ <<0, j>> \in C
  BY DEF Position
<1>2. Cuts(C, <<>>, t, j)
  BY Len(<<>>) = 0 DEF Cuts
<1> QED
  BY <1>1, <1>2 DEF Tells

LEMMA TellsOne ==
  ASSUME NEW s \in Seq(Byte), NEW t, NEW j \in Nat, NEW l \in Nat, ItemAt(s, 0, Len(s), t, j, l)
  PROVE  Tells(s, 0, t, j, l)
<1> DEFINE C == {<<0, j>>, <<Len(s), l>>}
<1>1. C \in SUBSET Position /\ <<0, j>> \in C
  BY DEF Position
<1>2. Cuts(C, s, t, l)
  <2> SUFFICES ASSUME NEW c \in C
               PROVE  c = <<Len(s), l>> \/ \E d \in C : ItemAt(s, c[1], d[1], t, c[2], d[2])
    BY DEF Cuts
  <2>1. CASE c = <<0, j>>
    <3> DEFINE d == <<Len(s), l>>
    <3>1. d \in C /\ d[1] = Len(s) /\ d[2] = l /\ c[1] = 0 /\ c[2] = j
      BY <2>1
    <3> HIDE DEF d, C
    <3> QED
      BY <3>1
  <2> QED
    BY <2>1
<1> QED
  BY <1>1, <1>2 DEF Tells

\* What comes next: the end, or an item.
LEMMA TellsNext ==
  ASSUME NEW s, NEW i \in Nat, NEW t, NEW j \in Nat, NEW m, Tells(s, i, t, j, m)
  PROVE  \/ i = Len(s) /\ j = m
         \/ \E e \in Nat : \E l \in Nat : ItemAt(s, i, e, t, j, l) /\ Tells(s, e, t, l, m)
<1>1. PICK C \in SUBSET Position : <<i, j>> \in C /\ Cuts(C, s, t, m)
  BY DEF Tells
<1> DEFINE c == <<i, j>>
<1>2. c[1] = i /\ c[2] = j /\ c \in C
  BY <1>1
<1>3. CASE c = <<Len(s), m>>
  BY <1>3
<1>4. CASE \E d \in C : ItemAt(s, c[1], d[1], t, c[2], d[2])
  <2>1. PICK d \in C : ItemAt(s, c[1], d[1], t, c[2], d[2])
    BY <1>4
  <2>2. d \in Position
    BY <1>1
  <2>3. d[1] \in Nat /\ d[2] \in Nat /\ d = <<d[1], d[2]>>
    BY <2>2 DEF Position
  <2> HIDE DEF c
  <2>4. ItemAt(s, i, d[1], t, j, d[2])
    BY <1>2, <2>1
  <2>5. Tells(s, d[1], t, d[2], m)
    BY <1>1, <2>3 DEF Tells
  <2> QED
    BY <2>3, <2>4, <2>5
<1> QED
  BY <1>1, <1>2, <1>3, <1>4 DEF Cuts

\* A stream that goes on where another ended.
LEMMA TellsJoined ==
  ASSUME NEW s \in Seq(Byte), NEW u \in Seq(Byte), NEW t, NEW i \in Nat, NEW j \in Nat,
         NEW m \in Nat, NEW n \in Nat, Tells(s, i, t, j, m), Tells(u, 0, t, m, n)
  PROVE  Tells(s \o u, i, t, j, n)
<1> DEFINE w == s \o u
           a == Len(s)
<1>1. /\ w \in Seq(Byte) /\ Len(w) = a + Len(u) /\ a \in Nat /\ Len(u) \in Nat
      /\ \A k \in 1..a : w[k] = s[k]
      /\ \A k \in 1..Len(u) : w[a + k] = u[k]
  BY Joined
<1>2. PICK C \in SUBSET Position : <<i, j>> \in C /\ Cuts(C, s, t, m)
  BY DEF Tells
<1>3. PICK D \in SUBSET Position : <<0, m>> \in D /\ Cuts(D, u, t, n)
  BY DEF Tells
<1> HIDE DEF w, a
<1> DEFINE moved(d) == <<a + d[1], d[2]>>
           E == C \cup {moved(d) : d \in D}
<1>4. \A d \in D : d[1] \in Nat /\ d[2] \in Nat
  BY <1>3 DEF Position
<1>5. \A d \in D : moved(d) \in E /\ moved(d) \in Position /\ moved(d)[1] = a + d[1] /\ moved(d)[2] = d[2]
  BY <1>1, <1>4 DEF Position
<1>6. E \in SUBSET Position /\ <<i, j>> \in E
  BY <1>2, <1>5
<1>7. ASSUME NEW d \in D
      PROVE  \/ moved(d) = <<Len(w), n>>
             \/ \E x \in E : ItemAt(w, moved(d)[1], x[1], t, moved(d)[2], x[2])
  <2>1. CASE d = <<Len(u), n>>
    BY <1>1, <2>1
  <2>2. CASE \E x \in D : ItemAt(u, d[1], x[1], t, d[2], x[2])
    <3>1. PICK x \in D : ItemAt(u, d[1], x[1], t, d[2], x[2])
      BY <2>2
    <3>2. ItemAt(w, a + d[1], a + x[1], t, d[2], x[2])
      <4> DEFINE d1 == d[1]
                 d2 == d[2]
                 x1 == x[1]
                 x2 == x[2]
      <4>1. d1 \in Nat /\ d2 \in Nat /\ x1 \in Nat /\ x2 \in Nat
        BY <1>4
      <4>2. ItemAt(u, d1, x1, t, d2, x2)
        BY <3>1
      <4> HIDE DEF d1, d2, x1, x2
      <4>3. a + Len(u) <= Len(w)
        BY <1>1
      <4>4. ItemAt(w, a + d1, a + x1, t, d2, x2)
        BY <1>1, <4>1, <4>2, <4>3, ItemMoved
      <4> QED
        BY <4>4 DEF d1, d2, x1, x2
    <3> HIDE DEF E
    <3> DEFINE y == moved(x)
    <3>3. y \in E /\ y[1] = a + x[1] /\ y[2] = x[2] /\ moved(d)[1] = a + d[1] /\ moved(d)[2] = d[2]
      BY <1>5
    <3> HIDE DEF y, moved
    <3> QED
      BY <3>2, <3>3
  <2> QED
    BY <1>3, <2>1, <2>2 DEF Cuts
<1>8. ASSUME NEW c \in C
      PROVE  c = <<Len(w), n>> \/ \E x \in E : ItemAt(w, c[1], x[1], t, c[2], x[2])
  <2>1. CASE c = <<Len(s), m>>
    <3> DEFINE z == <<0, m>>
    <3>1. z \in D /\ z[1] = 0 /\ z[2] = m
      BY <1>3
    <3>2. a + 0 = a
      BY <1>1
    <3>3. moved(z) = c
      BY <2>1, <3>1, <3>2 DEF a
    <3> HIDE DEF z, moved, E
    <3> QED
      BY <1>7, <3>1, <3>3
  <2>2. CASE \E x \in C : ItemAt(s, c[1], x[1], t, c[2], x[2])
    <3>1. PICK x \in C : ItemAt(s, c[1], x[1], t, c[2], x[2])
      BY <2>2
    <3> DEFINE c1 == c[1]
               c2 == c[2]
               x1 == x[1]
               x2 == x[2]
    <3>2. c1 \in Nat /\ c2 \in Nat /\ x1 \in Nat /\ x2 \in Nat
      BY <1>2 DEF Position
    <3>3. ItemAt(s, c1, x1, t, c2, x2)
      BY <3>1
    <3>4. x \in E
      OBVIOUS
    <3> HIDE DEF c1, c2, x1, x2, E
    <3>5. 0 \in Nat /\ 0 + Len(s) <= Len(w) /\ \A k \in 1..Len(s) : w[0 + k] = s[k]
      BY <1>1 DEF a
    <3>6. ItemAt(w, 0 + c1, 0 + x1, t, c2, x2)
      BY <1>1, <3>2, <3>3, <3>5, ItemMoved
    <3>7. 0 + c1 = c1 /\ 0 + x1 = x1
      BY <3>2
    <3>8. ItemAt(w, c1, x1, t, c2, x2)
      BY <3>6, <3>7
    <3> QED
      BY <3>4, <3>8 DEF c1, c2, x1, x2
  <2> QED
    BY <1>2, <2>1, <2>2 DEF Cuts
<1>9. Cuts(E, w, t, n)
  <2> HIDE DEF moved
  <2>1. \A x \in E : x \in C \/ \E d \in D : x = moved(d)
    OBVIOUS
  <2> HIDE DEF E
  <2> QED
    BY <1>7, <1>8, <2>1 DEF Cuts
<1> HIDE DEF E
<1>10. Tells(w, i, t, j, n)
  BY <1>6, <1>9 DEF Tells
<1> QED
  BY <1>10 DEF w

-------------------------------------------------------------------------------
(* What the compressor emits tells the text. *)

LEMMA BytesOfSay ==
  ASSUME NEW n \in Nat, n < TwoBytes
  PROVE  /\ n < 256 => Len(BytesOf(n)) = 1 /\ BytesOf(n)[1] = n
         /\ n >= 256 => /\ Len(BytesOf(n)) = 2
                        /\ n = BytesOf(n)[1] + 256 * BytesOf(n)[2]
<1> DEFINE b == BytesOf(n)
           count == IF n < 256 THEN 1 ELSE IF n < 256^2 THEN 2 ELSE 3
<1>1. 256^0 = 1 /\ 256^1 = 256 /\ 256^2 = 65536
  OBVIOUS
<1>2. b = [k \in 1..count |-> (n \div 256^(k - 1)) % 256]
  BY DEF BytesOf
<1> HIDE DEF b
<1>3. CASE n < 256
  <2>1. count = 1
    BY <1>3
  <2> HIDE DEF count
  <2>2. b = [k \in 1..1 |-> (n \div 256^(k - 1)) % 256] /\ 1 \in 1..1 /\ 1 - 1 = 0
    BY <1>2, <2>1
  <2>3. b[1] = (n \div 256^(1 - 1)) % 256
    BY <2>2
  <2>4. b[1] = (n \div 1) % 256
    BY <1>1, <2>2, <2>3
  <2>5. (n \div 1) % 256 = n
    BY <1>3
  <2>6. Len(b) = 1
    BY <2>2
  <2> QED
    BY <1>3, <2>4, <2>5, <2>6 DEF b
<1>4. CASE n >= 256
  <2>1. count = 2
    BY <1>1, <1>4 DEF TwoBytes
  <2> HIDE DEF count
  <2>2. b = [k \in 1..2 |-> (n \div 256^(k - 1)) % 256] /\ 1 \in 1..2 /\ 1 - 1 = 0 /\ 2 \in 1..2 /\ 2 - 1 = 1
    BY <1>2, <2>1
  <2>3. b[1] = (n \div 256^(1 - 1)) % 256 /\ b[2] = (n \div 256^(2 - 1)) % 256
    BY <2>2
  <2>4. b[1] = (n \div 1) % 256 /\ b[2] = (n \div 256) % 256
    BY <1>1, <2>2, <2>3
  <2>5. (n \div 1) % 256 = n % 256 /\ (n \div 256) % 256 = n \div 256 /\ n = (n % 256) + 256 * (n \div 256)
    BY DEF TwoBytes
  <2>6. Len(b) = 2
    BY <2>2
  <2> QED
    BY <1>4, <2>4, <2>5, <2>6 DEF b
<1> QED
  BY <1>3, <1>4

\* The tag of a literal, in front of anything.
LEMMA LiteralTagSays ==
  ASSUME NEW n \in Nat, n >= 1, n <= TwoBytes, NEW u,
         \A k \in 1..Len(LiteralTag(n)) : u[k] = LiteralTag(n)[k]
  PROVE  LiteralAt(u, 0, Len(LiteralTag(n)), n) /\ Len(LiteralTag(n)) >= 1
<1> DEFINE tag == LiteralTag(n)
<1>1. CASE n <= 60
  <2>1. tag = <<4 * (n - 1)>>
    BY <1>1 DEF LiteralTag, LITERAL
  <2>2. Len(tag) = 1 /\ tag[1] = 4 * (n - 1)
    BY <2>1
  <2>3. u[0 + 1] = 4 * (n - 1)
    BY <2>2
  <2>4. OneByteTag(4 * (n - 1), n)
    BY <1>1 DEF OneByteTag
  <2> HIDE DEF tag
  <2> QED
    BY <2>2, <2>3, <2>4 DEF LiteralAt, tag
<1>2. CASE n > 60
  <2> DEFINE m == n - 1
             b == BytesOf(m)
  <2>1. m \in Nat /\ m < TwoBytes /\ n = m + 1
    BY DEF TwoBytes
  <2>2. tag = <<4 * (59 + Len(b))>> \o b
    BY <1>2 DEF LiteralTag, LITERAL
  <2> HIDE DEF m
  <2>3. b \in Seq(Byte)
    BY <2>1, BytesOfIs
  <2>4. /\ m < 256 => Len(b) = 1 /\ b[1] = m
        /\ m >= 256 => Len(b) = 2 /\ m = b[1] + 256 * b[2]
    BY <2>1, BytesOfSay
  <2> DEFINE c == 4 * (59 + Len(b))
             a == <<c>>
  <2>7. /\ Len(b) \in Nat /\ Len(tag) = 1 + Len(b) /\ tag[1] = c
        /\ \A k \in 1..Len(b) : tag[1 + k] = b[k]
    <3>1. c \in Byte
      <4>1. Len(b) = 1 \/ Len(b) = 2
        BY <2>1, <2>4
      <4> DEFINE x == Len(b)
      <4> HIDE DEF b, x
      <4>2. x \in Nat /\ (x = 1 \/ x = 2)
        BY <4>1 DEF x
      <4>3. 4 * (59 + x) \in 0..255
        BY <4>2
      <4> QED
        BY <4>3 DEF x, Byte
    <3> HIDE DEF c, b
    <3>2. a \in Seq(Byte) /\ Len(a) = 1 /\ a[1] = c
      BY <3>1
    <3>3. tag = a \o b
      BY <2>2 DEF c
    <3> HIDE DEF a, tag
    <3>4. /\ Len(tag) = Len(a) + Len(b) /\ Len(b) \in Nat
          /\ \A i \in 1..Len(a) : tag[i] = a[i]
          /\ \A i \in 1..Len(b) : tag[Len(a) + i] = b[i]
      BY <2>3, <3>2, <3>3, Joined
    <3> QED
      BY <3>2, <3>4
  <2> HIDE DEF b, tag
  <2>5. CASE m < 256
    <3>1. Len(tag) = 2 /\ tag[1] = 240 /\ tag[2] = m
      <4>1. 1 \in 1..Len(b) /\ 1 + 1 = 2 /\ Len(b) = 1 /\ b[1] = m
        BY <2>4, <2>5
      <4>2. Len(tag) = 1 + 1 /\ tag[1] = 4 * (59 + 1) /\ tag[1 + 1] = b[1]
        BY <2>7, <4>1
      <4> QED
        BY <4>1, <4>2
    <3>2. u[0 + 1] = 240 /\ u[0 + 2] = m
      BY <3>1 DEF tag
    <3>3. TwoByteTag(240, m, n)
      BY <2>1 DEF TwoByteTag
    <3> QED
      BY <3>1, <3>2, <3>3 DEF LiteralAt, tag
  <2>6. CASE m >= 256
    <3>1. Len(tag) = 3 /\ tag[1] = 244 /\ tag[2] = b[1] /\ tag[3] = b[2]
      <4>3. Len(b) = 2
        BY <2>4, <2>6
      <4>1. 1 \in 1..Len(b) /\ 2 \in 1..Len(b) /\ Len(b) = 2
        BY <4>3
      <4>2. Len(tag) = 1 + 2 /\ tag[1] = 4 * (59 + 2) /\ tag[1 + 1] = b[1] /\ tag[1 + 2] = b[2]
        BY <2>7, <4>1
      <4> QED
        BY <4>2
    <3>2. u[0 + 1] = 244 /\ u[0 + 2] = b[1] /\ u[0 + 3] = b[2]
      BY <3>1 DEF tag
    <3>3. ThreeByteTag(244, b[1], b[2], n)
      BY <2>1, <2>4, <2>6 DEF ThreeByteTag
    <3> QED
      BY <3>1, <3>2, <3>3 DEF LiteralAt, tag
  <2> QED
    BY <2>1, <2>5, <2>6
<1> QED
  BY <1>1, <1>2

LEMMA LiteralTells ==
  ASSUME NEW s \in Seq(Byte), Len(s) >= 1, Len(s) <= TwoBytes, NEW t \in Seq(Byte),
         NEW j \in Nat, j + Len(s) <= Len(t), \A k \in 1..Len(s) : s[k] = t[j + k]
  PROVE  Tells(EmitLiteral(s), 0, t, j, j + Len(s))
<1> DEFINE tag == LiteralTag(Len(s))
           u == tag \o s
           n == Len(s)
<1>1. n \in Nat /\ Len(t) \in Nat
  OBVIOUS
<1>2. tag \in Seq(Byte)
  BY <1>1, LiteralTagIs
<1>3. /\ u \in Seq(Byte) /\ Len(u) = Len(tag) + n /\ Len(tag) \in Nat
      /\ \A k \in 1..Len(tag) : u[k] = tag[k]
      /\ \A k \in 1..n : u[Len(tag) + k] = s[k]
  BY <1>2, Joined
<1>4. EmitLiteral(s) = u
  BY DEF EmitLiteral
<1> HIDE DEF u
<1>5. LiteralAt(u, 0, Len(tag), n) /\ Len(tag) >= 1
  BY <1>1, <1>3, LiteralTagSays
<1> HIDE DEF tag, n
<1> DEFINE l == j + n
<1>6. l \in Nat /\ l - j = n /\ j < l /\ l <= Len(t)
  BY <1>1 DEF n
<1> HIDE DEF l
<1>7. Len(u) - n = Len(tag) /\ Len(u) \in Nat /\ 0 < Len(u)
  BY <1>1, <1>3, <1>5
<1>8. \A k \in 1..n : u[Len(tag) + k] = t[j + k]
  BY <1>3 DEF n
<1>9. LiteralItemAt(u, 0, Len(u), t, j, l)
  <2>1. Len(u) - (l - j) = Len(tag) /\ 0 + 1 <= Len(tag)
    BY <1>3, <1>5, <1>6, <1>7
  <2>2. LiteralAt(u, 0, Len(u) - (l - j), l - j)
    BY <1>5, <1>6, <2>1
  <2> QED
    BY <1>6, <1>8, <2>1, <2>2 DEF LiteralItemAt
<1>10. ItemAt(u, 0, Len(u), t, j, l)
  BY <1>6, <1>7, <1>9 DEF ItemAt
<1>11. Tells(u, 0, t, j, l)
  BY <1>3, <1>6, <1>10, TellsOne
<1> QED
  BY <1>4, <1>11 DEF l, n

LEMMA CopyTells ==
  ASSUME NEW offset \in Nat, offset >= 1, offset < TwoBytes, NEW n \in Nat, n >= 4, n <= 64,
         NEW t \in Seq(Byte), NEW j \in Nat, j + n <= Len(t), offset <= j,
         \A k \in j + 1..j + n : t[k] = t[k - offset]
  PROVE  Tells(EmitCopyLessThan64(offset, n), 0, t, j, j + n)
<1> DEFINE u == EmitCopyLessThan64(offset, n)
           l == j + n
<1>1. u \in Seq(Byte)
  BY EmitCopyLessThan64Is
<1>2. CopyAt(u, 0, Len(u), n, offset) /\ Len(u) > 0
  <2>1. CASE n < 12 /\ offset < 2048
    <3> DEFINE c == 1 + 4 * (n - 4) + 32 * (offset \div 256)
               b == offset % 256
    <3>1. u = <<c, b>>
      BY <2>1 DEF EmitCopyLessThan64, COPY_1_BYTE_OFFSET
    <3>2. offset \div 256 \in 0..7 /\ offset = (offset \div 256) * 256 + b
      BY <2>1
    <3> DEFINE h == offset \div 256
    <3>3. h \in 0..7 /\ c = 1 + 4 * (n - 4) + 32 * h /\ n \in 4..11
      BY <2>1, <3>2
    <3> HIDE DEF h, b, c
    <3>4. c % 4 = 1 /\ ((c \div 4) % 8) + 4 = n /\ c \div 32 = h
      BY <3>3
    <3>5. ShortCopy(c, b, n, offset)
      BY <3>2, <3>4 DEF ShortCopy, h
    <3>6. Len(u) = 2 /\ u[0 + 1] = c /\ u[0 + 2] = b /\ Len(u) = 0 + 2
      BY <3>1
    <3> HIDE DEF u
    <3> QED
      BY <3>5, <3>6 DEF CopyAt
  <2>2. CASE ~(n < 12 /\ offset < 2048)
    <3> DEFINE c == 2 + 4 * (n - 1)
               b1 == offset % 256
               b2 == offset \div 256
    <3>1. u = <<c, b1, b2>>
      BY <2>2 DEF EmitCopyLessThan64, COPY_2_BYTE_OFFSET
    <3>2. offset = b1 + 256 * b2
      OBVIOUS
    <3>3. c % 4 = 2 /\ c \div 4 + 1 = n
      OBVIOUS
    <3> HIDE DEF c, b1, b2
    <3>4. LongCopy(c, b1, b2, n, offset)
      BY <3>2, <3>3 DEF LongCopy
    <3>5. Len(u) = 3 /\ u[0 + 1] = c /\ u[0 + 2] = b1 /\ u[0 + 3] = b2 /\ Len(u) = 0 + 3
      BY <3>1
    <3> HIDE DEF u
    <3> QED
      BY <3>4, <3>5 DEF CopyAt
  <2> QED
    BY <2>1, <2>2
<1> HIDE DEF u
<1>3. l \in Nat /\ l - j = n /\ j < l /\ l <= Len(t) /\ offset \in 1..j
  OBVIOUS
<1>4. \A k \in j + 1..l : t[k] = t[k - offset]
  OBVIOUS
<1> HIDE DEF l
<1>5. CopyItem(u, 0, Len(u), t, j, l)
  BY <1>2, <1>3, <1>4 DEF CopyItem
<1>6. Len(u) \in Nat
  BY <1>1
<1>7. ItemAt(u, 0, Len(u), t, j, l)
  BY <1>2, <1>3, <1>5, <1>6 DEF ItemAt
<1>8. Tells(u, 0, t, j, l)
  BY <1>1, <1>3, <1>7, TellsOne
<1> QED
  BY <1>8 DEF u, l

\* Where the copies of a long one begin: each goes on where the one before ended.
CopiesAt(P, lengths, n) ==
  /\ P[0] = 0 /\ P[Len(lengths)] = n
  /\ \A k \in 0..Len(lengths) : P[k] \in Nat /\ P[k] <= n
  /\ \A k \in 1..Len(lengths) : P[k] = P[k - 1] + lengths[k]

LEMMA CopiesAdd ==
  ASSUME NEW n \in Nat, n >= 4
  PROVE  \E P : CopiesAt(P, CopyLengths(n), n)
<1> DEFINE full == IF n >= 68 THEN (n - 68) \div 64 + 1 ELSE 0
           left == n - 64 * full
           first == [k \in 1..full |-> 64]
           last == IF left > 64 THEN <<60, left - 60>> ELSE <<left>>
           lengths == CopyLengths(n)
<1>1. full \in Nat /\ left \in Nat /\ left >= 4 /\ left < 68 /\ n = left + 64 * full
  OBVIOUS
<1>2. lengths = first \o last
  BY DEF CopyLengths
<1> HIDE DEF full, left, lengths
<1>3. first \in Seq(Byte) /\ Len(first) = full /\ \A k \in 1..full : first[k] = 64
  BY <1>1 DEF Byte
<1>4. last \in Seq(Byte)
  <2>1. left \in Byte /\ 60 \in Byte /\ (left > 64 => left - 60 \in Byte)
    BY <1>1 DEF Byte
  <2> QED
    BY <2>1
<1> HIDE DEF first, last
<1>7. /\ Len(lengths) = full + Len(last)
      /\ \A k \in 1..full : lengths[k] = 64
      /\ \A k \in 1..Len(last) : lengths[full + k] = last[k]
  BY <1>2, <1>3, <1>4, Joined
<1>5. CASE left > 64
  <2>1. last = <<60, left - 60>>
    BY <1>5 DEF last
  <2>2. Len(last) = 2 /\ last[1] = 60 /\ last[2] = left - 60
    BY <2>1
  <2>3. Len(lengths) = full + 2
    BY <1>7, <2>2
  <2>4. \A k \in 1..full : lengths[k] = 64
    BY <1>7
  <2>5. lengths[full + 1] = 60 /\ lengths[full + 2] = left - 60
    <3>1. 1 \in 1..Len(last) /\ 2 \in 1..Len(last)
      BY <2>2
    <3> QED
      BY <1>7, <2>2, <3>1
  <2> DEFINE P == [k \in 0..full + 2 |-> IF k <= full THEN 64 * k ELSE IF k = full + 1 THEN 64 * full + 60 ELSE n]
  <2>6. P[0] = 0 /\ P[full + 2] = n
    BY <1>1
  <2>7. \A k \in 0..full + 2 : P[k] \in Nat /\ P[k] <= n
    BY <1>1, <1>5
  <2>8. ASSUME NEW k \in 1..full + 2 PROVE P[k] = P[k - 1] + lengths[k]
    <3>1. k \in 0..full + 2 /\ k - 1 \in 0..full + 2
      BY <1>1
    <3>2. CASE k <= full
      <4>1. P[k] = 64 * k /\ P[k - 1] = 64 * (k - 1) /\ lengths[k] = 64
        BY <1>1, <2>4, <3>1, <3>2
      <4> QED
        BY <4>1
    <3>3. CASE k = full + 1
      <4>1. P[k] = 64 * full + 60 /\ P[k - 1] = 64 * full /\ lengths[k] = 60
        BY <1>1, <2>5, <3>1, <3>3
      <4> QED
        BY <1>1, <4>1
    <3>4. CASE k = full + 2
      <4>1. P[k] = n /\ P[k - 1] = 64 * full + 60 /\ lengths[k] = left - 60
        BY <1>1, <2>5, <3>1, <3>4
      <4> QED
        BY <1>1, <4>1
    <3> QED
      BY <1>1, <3>2, <3>3, <3>4
  <2> HIDE DEF P
  <2>9. CopiesAt(P, lengths, n)
    BY <2>3, <2>6, <2>7, <2>8 DEF CopiesAt
  <2> QED
    BY <2>9 DEF lengths
<1>6. CASE ~(left > 64)
  <2>1. last = <<left>>
    BY <1>6 DEF last
  <2>2. Len(last) = 1 /\ last[1] = left
    BY <2>1
  <2>3. Len(lengths) = full + 1
    BY <1>7, <2>2
  <2>4. \A k \in 1..full : lengths[k] = 64
    BY <1>7
  <2>5. lengths[full + 1] = left
    <3>1. 1 \in 1..Len(last)
      BY <2>2
    <3> QED
      BY <1>7, <2>2, <3>1
  <2> DEFINE P == [k \in 0..full + 1 |-> IF k <= full THEN 64 * k ELSE n]
  <2>6. P[0] = 0 /\ P[full + 1] = n
    BY <1>1
  <2>7. \A k \in 0..full + 1 : P[k] \in Nat /\ P[k] <= n
    BY <1>1
  <2>8. ASSUME NEW k \in 1..full + 1 PROVE P[k] = P[k - 1] + lengths[k]
    <3>1. k \in 0..full + 1 /\ k - 1 \in 0..full + 1
      BY <1>1
    <3>2. CASE k <= full
      <4>1. P[k] = 64 * k /\ P[k - 1] = 64 * (k - 1) /\ lengths[k] = 64
        BY <1>1, <2>4, <3>1, <3>2
      <4> QED
        BY <4>1
    <3>3. CASE k = full + 1
      <4>1. P[k] = n /\ P[k - 1] = 64 * full /\ lengths[k] = left
        BY <1>1, <2>5, <3>1, <3>3
      <4> QED
        BY <1>1, <4>1
    <3> QED
      BY <1>1, <3>2, <3>3
  <2> HIDE DEF P
  <2>9. CopiesAt(P, lengths, n)
    BY <2>3, <2>6, <2>7, <2>8 DEF CopiesAt
  <2> QED
    BY <2>9 DEF lengths
<1> QED
  BY <1>5, <1>6

LEMMA EmitCopyTells ==
  ASSUME NEW offset \in Nat, offset >= 1, offset < TwoBytes, NEW n \in Nat, n >= 4,
         NEW t \in Seq(Byte), NEW j \in Nat, j + n <= Len(t), offset <= j,
         \A k \in j + 1..j + n : t[k] = t[k - offset]
  PROVE  Tells(EmitCopy(offset, n), 0, t, j, j + n)
<1> DEFINE lengths == CopyLengths(n)
           m == Len(lengths)
<1>1. /\ lengths \in Seq(Nat) /\ \A k \in 1..m : lengths[k] >= 4 /\ lengths[k] <= 64
  BY CopyLengthsAre
<1>2. PICK P : CopiesAt(P, lengths, n)
  BY CopiesAdd
<1>3. PICK f : EmitsAs(f, offset, lengths) /\ f[m] = EmitCopy(offset, n)
  BY EmitCopyIs
<1> HIDE DEF lengths
<1>4. m \in Nat /\ \A k \in 1..m : lengths[k] \in Nat
  BY <1>1
<1> HIDE DEF m
<1>5. /\ P[0] = 0 /\ P[m] = n
      /\ \A k \in 0..m : P[k] \in Nat /\ P[k] <= n
      /\ \A k \in 1..m : P[k] = P[k - 1] + lengths[k]
  BY <1>2 DEF CopiesAt, m
<1>6. /\ f[0] = <<>>
      /\ \A k \in 1..m : f[k - 1] \in Seq(Byte) /\ f[k] = f[k - 1] \o EmitCopyLessThan64(offset, lengths[k])
  BY <1>3 DEF EmitsAs, m
<1> DEFINE T == [k \in 0..m |-> {s \in {f[k]} : Tells(s, 0, t, j, j + P[k])}]
<1>7. f[0] \in T[0]
  <2>1. 0 \in 0..m /\ j + 0 = j
    BY <1>4
  <2>2. Tells(<<>>, 0, t, j, j)
    BY TellsNothing
  <2>3. Tells(f[0], 0, t, j, j + P[0])
    BY <1>5, <1>6, <2>1, <2>2
  <2> QED
    BY <2>1, <2>3
<1>8. ASSUME NEW k \in 1..m, f[k - 1] \in T[k - 1] PROVE f[k] \in T[k]
  <2>1. k \in 0..m /\ k - 1 \in 0..m
    BY <1>4
  <2> DEFINE p == P[k - 1]
             l == lengths[k]
             e == EmitCopyLessThan64(offset, l)
             a == f[k - 1]
  <2>2. Tells(a, 0, t, j, j + p)
    BY <1>8, <2>1
  <2>3. /\ p \in Nat /\ l \in Nat /\ l >= 4 /\ l <= 64 /\ P[k] = p + l /\ p + l <= n
        /\ a \in Seq(Byte) /\ f[k] = a \o e
    BY <1>1, <1>4, <1>5, <1>6, <2>1 DEF m
  <2> HIDE DEF p, l, a
  <2>4. e \in Seq(Byte)
    BY <2>3, EmitCopyLessThan64Is
  <2> DEFINE q == j + p
  <2>5. q \in Nat /\ q + l \in Nat /\ q + l <= Len(t) /\ offset <= q /\ q + l = j + P[k]
    BY <2>3
  <2>6. \A x \in q + 1..q + l : t[x] = t[x - offset]
    <3> SUFFICES ASSUME NEW x \in q + 1..q + l PROVE t[x] = t[x - offset]
      OBVIOUS
    <3>1. x \in j + 1..j + n
      BY <2>3
    <3> QED
      BY <3>1
  <2> HIDE DEF q
  <2>7. Tells(e, 0, t, q, q + l)
    BY <2>3, <2>5, <2>6, CopyTells
  <2>8. Tells(a, 0, t, j, q)
    BY <2>2 DEF q
  <2> HIDE DEF e
  <2>9. 0 \in Nat
    OBVIOUS
  <2>10. Tells(a \o e, 0, t, j, q + l)
    BY <2>3, <2>4, <2>5, <2>7, <2>8, <2>9, TellsJoined
  <2> QED
    BY <2>1, <2>3, <2>5, <2>10
<1>9. \A k \in 0..m : f[k] \in T[k]
  <2> HIDE DEF T
  <2> QED
    BY <1>4, <1>7, <1>8, TurnByTurn
<1>10. m \in 0..m
  BY <1>4
<1> QED
  BY <1>3, <1>5, <1>9, <1>10 DEF m

\* A match is one as far as it goes.
LEMMA MatchIs ==
  ASSUME NEW s \in Seq(Byte), NEW p1 \in Nat, NEW p2 \in Nat, p2 <= Len(s)
  PROVE  \A k \in 1..FindMatchLength(s, p1, p2) : s[p1 + k] = s[p2 + k]
<1> DEFINE S == {n \in 0..Len(s) - p2 : \A k \in 1..n : s[p1 + k] = s[p2 + k]}
           room == Len(s) - p2
<1>1. room \in Nat
  OBVIOUS
<1>2. 0 \in S /\ S \in SUBSET (0..room)
  BY <1>1
<1>3. FindMatchLength(s, p1, p2) = Max(S)
  BY DEF FindMatchLength
<1>4. \A n \in S : \A k \in 1..n : s[p1 + k] = s[p2 + k]
  OBVIOUS
<1> HIDE DEF S, room
<1>5. PICK k \in S : \A m \in S : m <= k
  BY <1>1, <1>2, Greatest
<1>6. Max(S) \in S
  <2>1. \A m \in S : k >= m
    BY <1>1, <1>2, <1>5
  <2> QED
    BY <2>1 DEF Max
<1> QED
  BY <1>3, <1>4, <1>6

-------------------------------------------------------------------------------
(* What the writers write. *)

\* The memory holds the text up to p.
Agrees(mem, t, p) == \A k \in 1..p : mem[k] = t[k]

LEMMA CopiedSays ==
  ASSUME NEW mem \in Seq(Byte), NEW bytes \in Seq(Byte), NEW to \in Nat
  PROVE  /\ Copied(mem, bytes, to) \in Seq(Byte) /\ Len(Copied(mem, bytes, to)) = Len(mem)
         /\ \A i \in 1..Len(mem) :
              Copied(mem, bytes, to)[i] =
                IF i > to /\ i <= to + Len(bytes) THEN bytes[i - to] ELSE mem[i]
<1>1. DOMAIN mem = 1..Len(mem) /\ Len(mem) \in Nat
  OBVIOUS
<1>2. Copied(mem, bytes, to) =
        [i \in 1..Len(mem) |-> IF i > to /\ i <= to + Len(bytes) THEN bytes[i - to] ELSE mem[i]]
  BY <1>1 DEF Copied
<1>3. Copied(mem, bytes, to) \in Seq(Byte)
  BY CopiedIs
<1> DEFINE c == Copied(mem, bytes, to)
<1> HIDE DEF c
<1>4. DOMAIN c = 1..Len(mem) /\ c \in Seq(Byte)
  BY <1>2, <1>3 DEF c
<1>5. Len(c) = Len(mem)
  BY <1>1, <1>4
<1> QED
  BY <1>2, <1>3, <1>5 DEF c

LEMMA BytesSay ==
  ASSUME NEW mem \in Seq(Byte), NEW from \in Int, NEW n \in Nat
  PROVE  /\ Bytes(mem, from, n) \in Seq(Byte) /\ Len(Bytes(mem, from, n)) = n
         /\ \A k \in 1..n : from + k \in 1..Len(mem) => Bytes(mem, from, n)[k] = mem[from + k]
<1>1. DOMAIN mem = 1..Len(mem)
  OBVIOUS
<1>2. Bytes(mem, from, n) = [k \in 1..n |-> IF from + k \in 1..Len(mem) THEN mem[from + k] ELSE 0]
  BY <1>1 DEF Bytes
<1>3. Bytes(mem, from, n) \in Seq(Byte)
  BY BytesIs
<1> DEFINE b == Bytes(mem, from, n)
<1> HIDE DEF b
<1>4. DOMAIN b = 1..n /\ b \in Seq(Byte)
  BY <1>2, <1>3 DEF b
<1>5. Len(b) = n
  BY <1>4
<1> QED
  BY <1>2, <1>3, <1>5 DEF b

\* Bytes copied from what agrees, from where the text repeats itself, agree.
LEMMA CopyAgrees ==
  ASSUME NEW mem \in Seq(Byte), NEW from \in Nat, NEW to \in Nat, from < to, NEW c \in Nat,
         NEW t, NEW top \in Nat, top <= Len(mem),
         Agrees(mem, t, Least(to, top)),
         \A k \in to + 1..top : t[k] = t[k - (to - from)],
         top <= to + c, top <= to + (to - from)
  PROVE  LET new == Copied(mem, Bytes(mem, from, c), to) IN
         new \in Seq(Byte) /\ Len(new) = Len(mem) /\ Agrees(new, t, top)
<1> DEFINE b == Bytes(mem, from, c)
           new == Copied(mem, b, to)
<1>1. /\ b \in Seq(Byte) /\ Len(b) = c
      /\ \A k \in 1..c : from + k \in 1..Len(mem) => b[k] = mem[from + k]
  BY BytesSay
<1> HIDE DEF b
<1>2. /\ new \in Seq(Byte) /\ Len(new) = Len(mem)
      /\ \A i \in 1..Len(mem) : new[i] = IF i > to /\ i <= to + Len(b) THEN b[i - to] ELSE mem[i]
  BY <1>1, CopiedSays
<1> HIDE DEF new
<1>3. ASSUME NEW k \in 1..top PROVE new[k] = t[k]
  <2>1. k \in 1..Len(mem)
    OBVIOUS
  <2>2. CASE k <= to
    <3>1. k \in 1..Least(to, top)
      BY <2>2 DEF Least
    <3>2. mem[k] = t[k]
      BY <3>1 DEF Agrees
    <3> QED
      BY <1>2, <2>1, <2>2, <3>2
  <2>3. CASE k > to
    <3> DEFINE i == k - to
    <3>1. i \in 1..c /\ from + i = k - (to - from) /\ from + i \in 1..Len(mem) /\ from + i <= to
      BY <2>3
    <3>2. new[k] = b[i]
      BY <1>1, <1>2, <2>1, <2>3
    <3>3. b[i] = mem[from + i]
      BY <1>1, <3>1
    <3>4. from + i \in 1..Least(to, top)
      BY <3>1 DEF Least
    <3>5. mem[from + i] = t[from + i]
      BY <3>4 DEF Agrees
    <3>6. t[k] = t[k - (to - from)]
      BY <2>3
    <3> HIDE DEF i
    <3> QED
      BY <3>1, <3>2, <3>3, <3>5, <3>6
  <2> QED
    BY <2>2, <2>3
<1> QED
  BY <1>2, <1>3 DEF Agrees, new, b

\* The same of a text.
LEMMA TextAgrees ==
  ASSUME NEW mem \in Seq(Byte), NEW bytes \in Seq(Byte), NEW to \in Nat, NEW t,
         NEW n \in Nat, n <= Len(bytes), to + n <= Len(mem), Agrees(mem, t, to),
         \A k \in 1..n : bytes[k] = t[to + k]
  PROVE  /\ Copied(mem, bytes, to) \in Seq(Byte) /\ Len(Copied(mem, bytes, to)) = Len(mem)
         /\ Agrees(Copied(mem, bytes, to), t, to + n)
<1> DEFINE new == Copied(mem, bytes, to)
<1>1. /\ new \in Seq(Byte) /\ Len(new) = Len(mem)
      /\ \A i \in 1..Len(mem) :
           new[i] = IF i > to /\ i <= to + Len(bytes) THEN bytes[i - to] ELSE mem[i]
  BY CopiedSays
<1> HIDE DEF new
<1>2. ASSUME NEW k \in 1..to + n PROVE new[k] = t[k]
  <2>1. k \in 1..Len(mem)
    OBVIOUS
  <2>2. CASE k <= to
    <3>1. mem[k] = t[k]
      BY <2>2 DEF Agrees
    <3> QED
      BY <1>1, <2>1, <2>2, <3>1
  <2>3. CASE k > to
    <3>1. k - to \in 1..n /\ to + (k - to) = k /\ k <= to + Len(bytes)
      BY <2>3
    <3>2. bytes[k - to] = t[to + (k - to)]
      BY <3>1
    <3> QED
      BY <1>1, <2>1, <2>3, <3>1, <3>2
  <2> QED
    BY <2>2, <2>3
<1> QED
  BY <1>1, <1>2 DEF Agrees, new

\* Byte by byte.
LEMMA ByBytesAgrees ==
  ASSUME NEW mem \in Seq(Byte), NEW from \in Nat, NEW to \in Nat, from < to, NEW n \in Nat,
         NEW t, to + n <= Len(mem), Agrees(mem, t, to),
         \A k \in to + 1..to + n : t[k] = t[k - (to - from)]
  PROVE  LET new == IncrementalCopy(mem, from, to, n) IN
         Len(new) = Len(mem) /\ Agrees(new, t, to + n)
<1>1. PICK f : CopiesByBytes(f, mem, from, to, n) /\ f[n] = IncrementalCopy(mem, from, to, n)
  BY from \in Int, IncrementalCopyIs
<1>2. /\ f[0] = mem
      /\ \A k \in 1..n :
           /\ f[k - 1] \in Seq(Byte)
           /\ f[k] = Copied(f[k - 1], Bytes(f[k - 1], from + k - 1, 1), to + k - 1)
  BY <1>1 DEF CopiesByBytes
<1> DEFINE Good(m, k) == Len(m) = Len(mem) /\ Agrees(m, t, to + k)
           T == [k \in 0..n |-> {m \in {f[k]} : Good(m, k)}]
<1>3. f[0] \in T[0]
  <2>1. to + 0 = to /\ 0 \in 0..n
    OBVIOUS
  <2>2. Good(f[0], 0)
    BY <1>2, <2>1
  <2> HIDE DEF Good
  <2> QED
    BY <2>1, <2>2
<1>4. ASSUME NEW k \in 1..n, f[k - 1] \in T[k - 1] PROVE f[k] \in T[k]
  <2>1. k \in 0..n /\ k - 1 \in 0..n
    OBVIOUS
  <2> DEFINE m == f[k - 1]
             a == from + k - 1
             b == to + k - 1
  <2>2. Good(m, k - 1)
    <3> HIDE DEF Good
    <3> QED
      BY <1>4, <2>1
  <2>3. m \in Seq(Byte) /\ f[k] = Copied(m, Bytes(m, a, 1), b)
    BY <1>2
  <2> HIDE DEF m
  <2>4. /\ a \in Nat /\ b \in Nat /\ a < b /\ b - a = to - from /\ b + 1 <= Len(m) /\ 1 \in Nat
        /\ b + 1 <= b + (b - a) /\ b + 1 \in Nat /\ b + 1 = to + k /\ to + (k - 1) = b
        /\ Least(b, b + 1) = b
    BY <2>2 DEF Least
  <2>5. Agrees(m, t, Least(b, b + 1))
    BY <2>2, <2>4
  <2>6. \A x \in b + 1..b + 1 : t[x] = t[x - (b - a)]
    <3>1. to + k \in to + 1..to + n
      OBVIOUS
    <3>2. t[to + k] = t[(to + k) - (to - from)]
      BY <3>1
    <3> HIDE DEF a, b
    <3> QED
      BY <2>4, <3>2
  <2> HIDE DEF a, b
  <2>7. Len(f[k]) = Len(m) /\ Agrees(f[k], t, b + 1)
    BY <2>3, <2>4, <2>5, <2>6, CopyAgrees
  <2>8. Good(f[k], k)
    BY <2>2, <2>4, <2>7
  <2> HIDE DEF Good
  <2> QED
    BY <2>1, <2>8
<1>5. \A k \in 0..n : f[k] \in T[k]
  <2> HIDE DEF T
  <2> QED
    BY <1>3, <1>4, TurnByTurn
<1>6. Good(f[n], n)
  <2> HIDE DEF Good
  <2> QED
    BY <1>5, n \in 0..n
<1> QED
  BY <1>1, <1>6

\* The text repeats itself gap by gap, from where the gap was reached.
Repeats(t, op, n, d, gap) == \A k \in op + 1..op + n : k > op + gap - d => t[k] = t[k - gap]

LEMMA RepeatsTwice ==
  ASSUME NEW t, NEW op \in Nat, NEW n \in Nat, NEW d \in Nat, NEW gap \in Nat, d >= 1, gap >= d,
         Repeats(t, op, n, d, gap)
  PROVE  Repeats(t, op, n, d, 2 * gap)
<1> SUFFICES ASSUME NEW k \in op + 1..op + n, k > op + 2 * gap - d
             PROVE  t[k] = t[k - 2 * gap]
  BY DEF Repeats
<1>1. k - gap \in op + 1..op + n /\ k - gap > op + gap - d /\ k > op + gap - d
      /\ (k - gap) - gap = k - 2 * gap
  OBVIOUS
<1>2. t[k] = t[k - gap]
  BY <1>1 DEF Repeats
<1> DEFINE i == k - gap
<1>3. i \in op + 1..op + n /\ i > op + gap - d
  BY <1>1
<1>4. t[i] = t[i - gap]
  BY <1>3 DEF Repeats
<1> QED
  BY <1>1, <1>2, <1>4

\* Where a copy on the fast path stands after k turns.
FastAgrees(c, size, t, op, n, d, k) ==
  /\ Len(c.mem) = size /\ Agrees(c.mem, t, Least(c.to, op + n))
  /\ c.to - c.from >= d /\ c.to >= op + (c.to - c.from) - d
  /\ Repeats(t, op, n, d, c.to - c.from)
  /\ c.to >= op + k \/ c.to >= op + n

\* One turn of it.
LEMMA EightAgree ==
  ASSUME NEW op \in Nat, NEW n \in Nat, n >= 1, NEW d \in Nat, d >= 1, NEW size \in Nat, NEW t,
         op + n <= size, NEW k \in Nat, NEW c \in CopyState(op, n, d),
         FastAgrees(c, size, t, op, n, d, k)
  PROVE  FastAgrees(EightCopied(c), size, t, op, n, d, k + 1)
<1> DEFINE from == c.from
           to == c.to
           len == c.len
           gap == to - from
           step == IF gap < 8 THEN gap ELSE 8
           mem == UnalignedCopy64(c.mem, from, to)
           e == [mem |-> mem, from |-> IF gap < 8 THEN from ELSE from + 8,
                 to |-> to + step, len |-> len - step, end |-> to + 8]
<1>1. /\ c.mem \in Seq(Byte) /\ from \in Nat /\ to \in Nat /\ len \in Int
      /\ from < to /\ to + len = op + n
  BY DEF CopyState
<1>2. /\ Len(c.mem) = size /\ Agrees(c.mem, t, Least(to, op + n))
      /\ gap >= d /\ to >= op + gap - d
      /\ Repeats(t, op, n, d, gap)
      /\ to >= op + k \/ to >= op + n
  BY DEF FastAgrees
<1>3. EightCopied(c) = IF gap >= 8 /\ len <= 0 THEN c ELSE e
  BY DEF EightCopied
<1>4. CASE gap >= 8 /\ len <= 0
  <2>1. EightCopied(c) = c
    BY <1>3, <1>4
  <2>2. to >= op + n
    BY <1>1, <1>4
  <2> QED
    BY <1>2, <2>1, <2>2 DEF FastAgrees
<1>5. CASE ~(gap >= 8 /\ len <= 0)
  <2> DEFINE top == Least(to + step, op + n)
  <2>1. EightCopied(c) = e
    BY <1>3, <1>5
  <2>2. e.mem = mem /\ e.to = to + step /\ e.from = IF gap < 8 THEN from ELSE from + 8
    OBVIOUS
  <2>3. mem = Copied(c.mem, Bytes(c.mem, from, 8), to)
    BY DEF UnalignedCopy64
  <2> DEFINE m == c.mem
  <2> HIDE DEF m, from, to, len, e, mem
  <2>4. m \in Seq(Byte) /\ Len(m) = size /\ Agrees(m, t, Least(to, op + n))
    BY <1>1, <1>2 DEF m
  <2>5. gap \in Nat /\ gap >= 1 /\ step \in Nat /\ step >= 1 /\ step <= 8 /\ step <= gap
    BY <1>1
  <2> HIDE DEF gap, step
  <2>6. top \in Nat /\ top <= op + n /\ top <= to + step /\ top <= size
    BY <1>1, <2>5 DEF Least
  <2>7. Least(to, top) = Least(to, op + n)
    BY <1>1, <2>5 DEF Least
  <2> HIDE DEF top
  <2>8. \A x \in to + 1..top : t[x] = t[x - gap]
    <3> SUFFICES ASSUME NEW x \in to + 1..top PROVE t[x] = t[x - gap]
      OBVIOUS
    <3>1. x \in op + 1..op + n /\ x > op + gap - d
      BY <1>1, <1>2, <2>5, <2>6
    <3> QED
      BY <1>2, <3>1 DEF Repeats
  <2>9. mem \in Seq(Byte) /\ Len(mem) = size /\ Agrees(mem, t, top)
    <3>1. \A x \in to + 1..top : t[x] = t[x - (to - from)]
      BY <2>8 DEF gap
    <3>2. top <= to + 8 /\ top <= to + (to - from)
      <4>1. top <= to + gap
        BY <1>1, <2>5, <2>6
      <4>2. top <= to + 8
        BY <1>1, <2>5, <2>6
      <4> QED
        BY <4>1, <4>2 DEF gap
    <3>3. Agrees(m, t, Least(to, top))
      BY <2>4, <2>7
    <3>4. 8 \in Nat /\ mem = Copied(m, Bytes(m, from, 8), to)
      BY <2>3 DEF m
    <3> QED
      BY <1>1, <2>4, <2>6, <3>1, <3>2, <3>3, <3>4, CopyAgrees
  <2>10. to + step >= op + (k + 1) \/ to + step >= op + n
    BY <1>1, <1>2, <2>5
  <2>11. CASE gap < 8
    <3>1. step = gap /\ e.from = from
      BY <2>2, <2>11 DEF step
    <3>2. (to + gap) - from = 2 * gap
      BY <1>1 DEF gap
    <3>3. e.to - e.from = 2 * gap /\ e.to = to + gap
      BY <2>2, <3>1, <3>2
    <3>4. Repeats(t, op, n, d, 2 * gap)
      BY <1>2, <2>5, RepeatsTwice
    <3>5. 2 * gap >= d /\ to + gap >= op + 2 * gap - d
      BY <1>1, <1>2, <2>5
    <3>6. FastAgrees(e, size, t, op, n, d, k + 1)
      BY <2>2, <2>9, <2>10, <3>1, <3>3, <3>4, <3>5 DEF FastAgrees, top
    <3> QED
      BY <2>1, <3>6
  <2>12. CASE ~(gap < 8)
    <3>1. step = 8 /\ e.from = from + 8
      BY <2>2, <2>12 DEF step
    <3>2. (to + 8) - (from + 8) = gap
      BY <1>1 DEF gap
    <3>3. e.to - e.from = gap /\ e.to = to + 8
      BY <2>2, <3>1, <3>2
    <3>5. gap >= d /\ to + 8 >= op + gap - d
      BY <1>1, <1>2, <2>5
    <3>6. FastAgrees(e, size, t, op, n, d, k + 1)
      BY <1>2, <2>2, <2>9, <2>10, <3>1, <3>3, <3>5 DEF FastAgrees, top
    <3> QED
      BY <2>1, <3>6
  <2> QED
    BY <2>5, <2>11, <2>12
<1>6. gap \in Int /\ len \in Int
  BY <1>1
<1> QED
  BY <1>4, <1>5

LEMMA ByEightsAgrees ==
  ASSUME NEW mem \in Seq(Byte), NEW from \in Nat, NEW to \in Nat, from < to, NEW n \in Nat, n >= 1,
         NEW t, to + n <= Len(mem), Agrees(mem, t, to),
         \A k \in to + 1..to + n : t[k] = t[k - (to - from)]
  PROVE  LET new == IncrementalCopyFastPath(mem, from, to, n).mem IN
         Len(new) = Len(mem) /\ Agrees(new, t, to + n)
<1> DEFINE d == to - from
           size == Len(mem)
<1>1. PICK f : CopiesByEights(f, mem, from, to, n) /\ f[n + 3] = IncrementalCopyFastPath(mem, from, to, n)
  BY FastPathIs
<1>2. /\ f[0] = [mem |-> mem, from |-> from, to |-> to, len |-> n, end |-> to]
      /\ \A k \in 1..n + 3 : f[k] = EightCopied(f[k - 1])
      /\ \A k \in 0..n + 3 : f[k] \in CopyState(to, n, d)
  BY <1>1 DEF CopiesByEights
<1>3. d \in Nat /\ d >= 1 /\ size \in Nat /\ to + n <= size /\ n + 3 \in Nat
  OBVIOUS
<1> DEFINE T == [k \in 0..n + 3 |-> {c \in {f[k]} : FastAgrees(c, size, t, to, n, d, k)}]
<1>4. f[0] \in T[0]
  <2>1. f[0].mem = mem /\ f[0].to = to /\ f[0].from = from
    BY <1>2
  <2>2. Least(to, to + n) = to /\ to >= to + d - d /\ to >= to + 0 /\ d >= d /\ 0 \in 0..n + 3
    BY <1>3 DEF Least
  <2>3. Repeats(t, to, n, d, d)
    BY DEF Repeats
  <2> HIDE DEF size
  <2>4. FastAgrees(f[0], size, t, to, n, d, 0)
    BY <2>1, <2>2, <2>3 DEF FastAgrees, size
  <2> QED
    BY <2>2, <2>4
<1> HIDE DEF size, d
<1>5. ASSUME NEW k \in 1..n + 3, f[k - 1] \in T[k - 1] PROVE f[k] \in T[k]
  <2>1. k \in 0..n + 3 /\ k - 1 \in 0..n + 3 /\ k - 1 \in Nat /\ (k - 1) + 1 = k
    OBVIOUS
  <2> DEFINE c == f[k - 1]
             i == k - 1
  <2>2. FastAgrees(c, size, t, to, n, d, k - 1)
    BY <1>5, <2>1
  <2>3. c \in CopyState(to, n, d) /\ f[k] = EightCopied(c)
    BY <1>2, <2>1
  <2> HIDE DEF c
  <2>4. FastAgrees(EightCopied(c), size, t, to, n, d, (k - 1) + 1)
    BY <1>3, <2>1, <2>2, <2>3, EightAgree
  <2>5. FastAgrees(f[k], size, t, to, n, d, k)
    BY <2>1, <2>3, <2>4
  <2> QED
    BY <2>1, <2>5
<1>6. \A k \in 0..n + 3 : f[k] \in T[k]
  <2> HIDE DEF T
  <2> QED
    BY <1>3, <1>4, <1>5, TurnByTurn
<1>7. n + 3 \in 0..n + 3
  BY <1>3
<1>8. FastAgrees(f[n + 3], size, t, to, n, d, n + 3)
  BY <1>6, <1>7
<1> DEFINE c == f[n + 3]
<1>9. c \in CopyState(to, n, d)
  BY <1>2, <1>7
<1>10. c.to \in Nat
  BY <1>9 DEF CopyState
<1>11. Len(c.mem) = size /\ Agrees(c.mem, t, Least(c.to, to + n))
       /\ (c.to >= to + (n + 3) \/ c.to >= to + n)
  BY <1>8 DEF FastAgrees
<1> HIDE DEF c
<1>12. Least(c.to, to + n) = to + n
  BY <1>10, <1>11 DEF Least
<1> QED
  BY <1>1, <1>11, <1>12 DEF c, size

\* The writer holds the text up to where it is, and then n bytes more of it.
Holds(w, t) ==
  /\ w \in WriterState /\ Len(w.mem) = w.expected /\ Agrees(w.mem, t, w.op)
WritesText(r, w, t, n) ==
  /\ r.ok /\ r.w.op = w.op + n /\ r.w.expected = w.expected /\ Len(r.w.mem) = w.expected
  /\ Agrees(r.w.mem, t, w.op + n)

LEMMA WrittenSays ==
  ASSUME NEW w \in WriterState, NEW mem, NEW n, NEW end, NEW t,
         Len(mem) = w.expected, Agrees(mem, t, w.op + n)
  PROVE  WritesText(Written(w, mem, n, end), w, t, n)
<1>1. w \in [mem : Seq(Byte), op : Nat, expected : Nat]
  BY DEF WriterState
<1> DEFINE op == w.op + n
           x == [w EXCEPT !.mem = mem, !.op = op]
<1>2. Written(w, mem, n, end).ok = TRUE /\ Written(w, mem, n, end).w = x
  BY DEF Written
<1> HIDE DEF op
<1>3. x.mem = mem /\ x.op = op /\ x.expected = w.expected
  BY <1>1
<1> HIDE DEF x
<1> QED
  BY <1>2, <1>3 DEF WritesText, op

LEMMA AppendSays ==
  ASSUME NEW w, NEW t, Holds(w, t), NEW bytes \in Seq(Byte), w.op + Len(bytes) <= w.expected,
         \A k \in 1..Len(bytes) : bytes[k] = t[w.op + k]
  PROVE  WritesText(Append_(w, bytes), w, t, Len(bytes))
<1> DEFINE n == Len(bytes)
           op == w.op
           m == w.mem
           mem == Copied(m, bytes, op)
<1>1. w \in WriterState /\ Len(m) = w.expected /\ Agrees(m, t, op)
  BY DEF Holds
<1>2. m \in Seq(Byte) /\ op \in Nat /\ w.expected \in Nat /\ n \in Nat /\ op <= w.expected
  BY <1>1 DEF WriterState
<1>3. ~(w.expected - w.op < n)
  BY <1>2
<1>4. Append_(w, bytes) = Written(w, mem, n, w.op + n)
  BY <1>3 DEF Append_, Space
<1> HIDE DEF n, m, mem, op
<1>5. n <= Len(bytes) /\ op + n <= Len(m) /\ \A k \in 1..n : bytes[k] = t[op + k]
  BY <1>1, <1>2 DEF n, op
<1>6. Len(mem) = w.expected /\ Agrees(mem, t, op + n)
  BY <1>1, <1>2, <1>5, TextAgrees DEF mem
<1>7. WritesText(Written(w, mem, n, w.op + n), w, t, n)
  BY <1>1, <1>6, WrittenSays DEF op
<1> QED
  BY <1>4, <1>7 DEF n

LEMMA FastAppendSays ==
  ASSUME NEW w, NEW t, Holds(w, t), NEW bytes \in Seq(Byte), NEW validating, NEW n \in Nat,
         w.op + n <= w.expected, n <= Len(bytes), \A k \in 1..n : bytes[k] = t[w.op + k],
         TryFastAppend(w, validating, bytes, n).ok
  PROVE  WritesText(TryFastAppend(w, validating, bytes, n), w, t, n)
<1> DEFINE op == w.op
           m == w.mem
           front == SubSeq(bytes, 1, 16)
           mem == Copied(m, front, op)
           fast == ~validating /\ n <= 16 /\ Len(bytes) >= 16 /\ Space(w) >= 16
<1>1. w \in WriterState /\ Len(m) = w.expected /\ Agrees(m, t, op)
  BY DEF Holds
<1>2. m \in Seq(Byte) /\ op \in Nat /\ w.expected \in Nat
  BY <1>1 DEF WriterState
<1>3. fast
  BY DEF TryFastAppend, Refused
<1>4. TryFastAppend(w, validating, bytes, n) = Written(w, mem, n, w.op + 16)
  BY <1>3 DEF TryFastAppend
<1>5. front \in Seq(Byte) /\ Len(front) = 16 /\ \A k \in 1..16 : front[k] = bytes[k]
  BY <1>3
<1>6. n <= 16
  BY <1>3
<1> HIDE DEF m, mem, op, front, fast
<1>7. n <= Len(front) /\ op + n <= Len(m) /\ \A k \in 1..n : front[k] = t[op + k]
  <2>1. \A k \in 1..n : k \in 1..16
    BY <1>6
  <2>2. \A k \in 1..n : front[k] = t[op + k]
    BY <1>5, <2>1 DEF op
  <2>3. op + n <= Len(m)
    BY <1>1 DEF op
  <2> QED
    BY <1>5, <1>6, <2>2, <2>3
<1>8. Len(mem) = w.expected /\ Agrees(mem, t, op + n)
  BY <1>1, <1>2, <1>5, <1>7, TextAgrees DEF mem
<1>9. WritesText(Written(w, mem, n, w.op + 16), w, t, n)
  BY <1>1, <1>8, WrittenSays DEF op
<1> QED
  BY <1>4, <1>9

\* Two times eight bytes.
LEMMA InTwoAgrees ==
  ASSUME NEW mem \in Seq(Byte), NEW from \in Nat, NEW to \in Nat, from + 8 <= to,
         NEW n \in Nat, n <= 16, NEW t, to + n <= Len(mem), Agrees(mem, t, to),
         \A k \in to + 1..to + n : t[k] = t[k - (to - from)]
  PROVE  LET new == UnalignedCopy64(UnalignedCopy64(mem, from, to), from + 8, to + 8) IN
         Len(new) = Len(mem) /\ Agrees(new, t, to + n)
<1> DEFINE m == UnalignedCopy64(mem, from, to)
           new == UnalignedCopy64(m, from + 8, to + 8)
           top == Least(to + 8, to + n)
<1>1. top \in Nat /\ top <= Len(mem) /\ top <= to + n /\ top <= to + 8 /\ Least(to, top) = to
      /\ top <= to + (to - from) /\ from < to
  BY DEF Least
<1>2. \A k \in to + 1..top : t[k] = t[k - (to - from)]
  BY <1>1
<1> HIDE DEF top
<1>3. m \in Seq(Byte) /\ Len(m) = Len(mem) /\ Agrees(m, t, top)
  <2>1. m = Copied(mem, Bytes(mem, from, 8), to) /\ 8 \in Nat
    BY DEF UnalignedCopy64
  <2> HIDE DEF m
  <2> QED
    BY <1>1, <1>2, <2>1, CopyAgrees
<1> HIDE DEF m
<1> DEFINE a == from + 8
           b == to + 8
           all == to + n
<1>4. /\ a \in Nat /\ b \in Nat /\ a < b /\ all \in Nat /\ all <= Len(m) /\ b - a = to - from
      /\ all <= b + 8 /\ all <= b + (b - a)
  BY <1>3
<1>5. Agrees(m, t, Least(b, all))
  BY <1>3 DEF top
<1>6. \A k \in b + 1..all : t[k] = t[k - (b - a)]
  <2> SUFFICES ASSUME NEW k \in b + 1..all PROVE t[k] = t[k - (b - a)]
    OBVIOUS
  <2>1. k \in to + 1..to + n
    OBVIOUS
  <2> HIDE DEF a, b, all
  <2> QED
    BY <1>4, <2>1
<1>7. new = Copied(m, Bytes(m, a, 8), b) /\ 8 \in Nat
  BY DEF UnalignedCopy64
<1> HIDE DEF new, a, b, all
<1>8. Len(new) = Len(m) /\ Agrees(new, t, all)
  BY <1>3, <1>4, <1>5, <1>6, <1>7, CopyAgrees
<1> QED
  BY <1>3, <1>8 DEF new, m, a, b, all

LEMMA CopySays ==
  ASSUME NEW w, NEW t, Holds(w, t), NEW offset \in Nat, NEW n \in Nat, n >= 1,
         offset >= 1, offset <= w.op, w.op + n <= w.expected,
         \A k \in w.op + 1..w.op + n : t[k] = t[k - offset]
  PROVE  WritesText(AppendFromSelf(w, offset, n), w, t, n)
<1> DEFINE op == w.op
           m == w.mem
           from == op - offset
           short == n <= 16 /\ offset >= 8 /\ Space(w) >= 16
           inTwo == UnalignedCopy64(UnalignedCopy64(m, from, op), from + 8, op + 8)
           fast == IncrementalCopyFastPath(m, from, op, n)
           slow == IncrementalCopy(m, from, op, n)
<1>1. w \in WriterState /\ Len(m) = w.expected /\ Agrees(m, t, op)
  BY DEF Holds
<1>2. m \in Seq(Byte) /\ op \in Nat /\ w.expected \in Nat /\ op + n <= w.expected
  BY <1>1 DEF WriterState
<1>3. ~(w.expected - w.op < n) /\ offset # 0
  BY <1>2
<1>4. AppendFromSelf(w, offset, n) =
        IF short THEN Written(w, inTwo, n, w.op + 16)
        ELSE IF FastRoom(w, n) THEN Written(w, fast.mem, n, fast.end)
        ELSE Written(w, slow, n, w.op + n)
  <2> HIDE DEF short, inTwo, fast, slow
  <2>1. Behind(w, offset) /\ ~(Space(w) < n)
    BY <1>3 DEF Behind, Space
  <2> QED
    BY <2>1 DEF AppendFromSelf, short, inTwo, fast, slow, from, op, m
<1>5. from \in Nat /\ from < op /\ op - from = offset /\ op + n <= Len(m)
  BY <1>1, <1>2
<1>6. \A k \in op + 1..op + n : t[k] = t[k - (op - from)]
  BY <1>5
<1>7. short => n <= 16 /\ offset >= 8
  OBVIOUS
<1> HIDE DEF short, from, m, op
<1>8. CASE short
  <2>1. from + 8 <= op
    BY <1>2, <1>5, <1>7, <1>8
  <2>2. Len(inTwo) = w.expected /\ Agrees(inTwo, t, op + n)
    BY <1>1, <1>2, <1>5, <1>6, <1>7, <1>8, <2>1, InTwoAgrees
  <2> HIDE DEF inTwo, fast, slow
  <2>3. WritesText(Written(w, inTwo, n, w.op + 16), w, t, n)
    BY <1>1, <2>2, WrittenSays DEF op
  <2> QED
    BY <1>4, <1>8, <2>3
<1>9. CASE ~short /\ FastRoom(w, n)
  <2>1. Len(fast.mem) = w.expected /\ Agrees(fast.mem, t, op + n)
    BY <1>1, <1>2, <1>5, <1>6, ByEightsAgrees
  <2> DEFINE mem == fast.mem
             end == fast.end
  <2>2. AppendFromSelf(w, offset, n) = Written(w, mem, n, end)
    <3> HIDE DEF inTwo, fast, slow
    <3> QED
      BY <1>4, <1>9
  <2> HIDE DEF mem, end
  <2>3. WritesText(Written(w, mem, n, end), w, t, n)
    BY <1>1, <2>1, WrittenSays DEF op, mem
  <2> QED
    BY <2>2, <2>3
<1>10. CASE ~short /\ ~FastRoom(w, n)
  <2>1. Len(slow) = w.expected /\ Agrees(slow, t, op + n)
    BY <1>1, <1>2, <1>5, <1>6, ByBytesAgrees
  <2> HIDE DEF inTwo, fast, slow
  <2>2. AppendFromSelf(w, offset, n) = Written(w, slow, n, w.op + n)
    BY <1>4, <1>10
  <2>3. WritesText(Written(w, slow, n, w.op + n), w, t, n)
    BY <1>1, <2>1, WrittenSays DEF op
  <2> QED
    BY <2>2, <2>3
<1> QED
  BY <1>8, <1>9, <1>10

-------------------------------------------------------------------------------
(* The length in front. *)

LEMMA Sevens ==
  ASSUME NEW v \in Nat
  PROVE  /\ v < 128 => v = v % 128
         /\ v < 16384 => v = (v % 128) + 128 * ((v \div 128) % 128)
         /\ v < 2097152 => v = (v % 128) + 128 * ((v \div 128) % 128) + 16384 * ((v \div 16384) % 128)
         /\ v < 268435456 => v = (v % 128) + 128 * ((v \div 128) % 128) + 16384 * ((v \div 16384) % 128)
                                 + 2097152 * ((v \div 2097152) % 128)
<1> DEFINE y == v \div 128
           z == v \div 16384
           u == v \div 2097152
<1>1. v = (v % 128) + 128 * y /\ y \in Nat /\ v % 128 \in Nat
  OBVIOUS
<1>2. y = (y % 128) + 128 * z /\ z \in Nat /\ y % 128 \in Nat
  OBVIOUS
<1>3. z = (z % 128) + 128 * u /\ u \in Nat /\ z % 128 \in Nat
  OBVIOUS
<1>4. /\ v < 128 => v % 128 = v
      /\ v < 16384 => y % 128 = y
      /\ v < 2097152 => z % 128 = z
      /\ v < 268435456 => u % 128 = u
  OBVIOUS
<1> DEFINE a == v % 128
           b == y % 128
           c == z % 128
<1>5. v = a + 128 * y /\ y = b + 128 * z /\ z = c + 128 * u /\ a \in Nat /\ b \in Nat /\ c \in Nat
  BY <1>1, <1>2, <1>3
<1> DEFINE d == u % 128
<1>6. /\ v < 128 => a = v
      /\ v < 16384 => b = y
      /\ v < 2097152 => c = z
      /\ v < 268435456 => d = u
  BY <1>4
<1>7. y \in Nat /\ z \in Nat /\ u \in Nat
  BY <1>1, <1>2, <1>3
<1> HIDE DEF a, b, c, d, y, z, u
<1>8. /\ v < 128 => v = a
      /\ v < 16384 => v = a + 128 * b
      /\ v < 2097152 => v = a + 128 * b + 16384 * c
      /\ v < 268435456 => v = a + 128 * b + 16384 * c + 2097152 * d
  BY <1>5, <1>6, <1>7
<1> QED
  BY <1>8 DEF a, b, c, d, y, z, u

\* All bytes but the last have the high bit, and their sevens make the value.
LEMMA EncodedSays ==
  ASSUME NEW v \in Nat, v < Huge
  PROVE  LET n == Len(Encode32(v))
             e == Encode32(v) IN
         /\ e \in Seq(Byte) /\ n \in 1..4
         /\ \A k \in 1..n : k < n => e[k] >= 128
         /\ e[n] < 128
         /\ \A k \in 1..n : e[k] % 128 = (v \div 128^(k - 1)) % 128
         /\ v < 128^n
<1>1. /\ 128^0 = 1 /\ 128^1 = 128 /\ 128^2 = 16384 /\ 128^3 = 2097152 /\ 128^4 = 268435456
      /\ Huge = 268435456
  BY DEF Huge
<1>2. \E n \in 1..4 : v < 128^n /\ (n = 1 \/ v >= 128^(n - 1))
  <2>1. CASE v < 128
    BY <1>1, <2>1
  <2>2. CASE v >= 128 /\ v < 16384
    <3>1. 2 - 1 = 1 /\ 2 \in 1..4
      OBVIOUS
    <3> QED
      BY <1>1, <2>2, <3>1
  <2>3. CASE v >= 16384 /\ v < 2097152
    <3>1. 3 - 1 = 2 /\ 3 \in 1..4
      OBVIOUS
    <3> QED
      BY <1>1, <2>3, <3>1
  <2>4. CASE v >= 2097152
    <3>1. 4 - 1 = 3 /\ 4 \in 1..4
      OBVIOUS
    <3> QED
      BY <1>1, <2>4, <3>1
  <2> QED
    BY <2>1, <2>2, <2>3, <2>4
<1> DEFINE size == VarintSize(v)
           e == Encode32(v)
           m(k) == v \div 128^(k - 1)
<1>3. size \in 1..4 /\ v < 128^size
  BY <1>2 DEF VarintSize
<1>4. e = [k \in 1..size |-> (m(k) % 128) + IF k < size THEN 128 ELSE 0]
  BY DEF Encode32
<1>5. e \in Seq(Byte)
  BY EncodedIs
<1> HIDE DEF size
<1>6. \A k \in 1..size : m(k) \in Nat
  <2> SUFFICES ASSUME NEW k \in 1..size PROVE m(k) \in Nat
    OBVIOUS
  <2>1. v \div 1 \in Nat /\ v \div 128 \in Nat /\ v \div 16384 \in Nat /\ v \div 2097152 \in Nat
    OBVIOUS
  <2>2. k = 1 \/ k = 2 \/ k = 3 \/ k = 4
    BY <1>3
  <2>3. 1 - 1 = 0 /\ 2 - 1 = 1 /\ 3 - 1 = 2 /\ 4 - 1 = 3
    OBVIOUS
  <2>4. CASE k = 1
    BY <1>1, <2>1, <2>3, <2>4
  <2>5. CASE k = 2
    BY <1>1, <2>1, <2>3, <2>5
  <2>6. CASE k = 3
    BY <1>1, <2>1, <2>3, <2>6
  <2>7. CASE k = 4
    BY <1>1, <2>1, <2>3, <2>7
  <2> QED
    BY <2>2, <2>4, <2>5, <2>6, <2>7
<1> HIDE DEF m, e
<1>7. DOMAIN e = 1..size
  BY <1>4
<1>8. Len(e) = size
  BY <1>3, <1>5, <1>7
<1>9. \A x \in Nat : /\ (x % 128) + 128 >= 128 /\ (x % 128) + 0 < 128
                     /\ ((x % 128) + 128) % 128 = x % 128 /\ ((x % 128) + 0) % 128 = x % 128
  OBVIOUS
<1>10. ASSUME NEW k \in 1..size PROVE /\ k < size => e[k] >= 128
                                      /\ k = size => e[k] < 128
                                      /\ e[k] % 128 = m(k) % 128
  <2> DEFINE x == m(k)
  <2>1. x \in Nat /\ e[k] = (x % 128) + IF k < size THEN 128 ELSE 0
    BY <1>4, <1>6
  <2> HIDE DEF x
  <2>2. CASE k < size
    <3>1. e[k] = (x % 128) + 128
      BY <2>1, <2>2
    <3>2. k # size
      BY <1>3, <2>2
    <3> QED
      BY <1>9, <2>1, <3>1, <3>2 DEF x
  <2>3. CASE ~(k < size)
    <3>1. e[k] = (x % 128) + 0
      BY <2>1, <2>3
    <3> QED
      BY <1>9, <2>1, <2>3, <3>1 DEF x
  <2> QED
    BY <2>2, <2>3
<1>11. size \in 1..size
  BY <1>3
<1> QED
  BY <1>3, <1>5, <1>8, <1>10, <1>11 DEF e, m

\* h is in front of s.
InFront(h, s) == Len(h) <= Len(s) /\ \A k \in 1..Len(h) : s[k] = h[k]

LEMMA LengthInFront ==
  ASSUME NEW v \in Nat, v < Huge, NEW s \in Seq(Byte), InFront(Encode32(v), s)
  PROVE  /\ ReadUncompressedLength(s) = [ok |-> TRUE, value |-> v, size |-> Len(Encode32(v))]
         /\ Parse32(s) = [ok |-> TRUE, value |-> v, size |-> Len(Encode32(v))]
<1> DEFINE h == Encode32(v)
           n == Len(h)
           ends == VarintEnd(s)
<1>1. /\ n \in 1..4 /\ \A k \in 1..n : k < n => h[k] >= 128
      /\ h[n] < 128 /\ \A k \in 1..n : h[k] % 128 = (v \div 128^(k - 1)) % 128
      /\ v < 128^n
  BY EncodedSays
<1>2. n <= Len(s) /\ \A k \in 1..n : s[k] = h[k]
  BY DEF InFront
<1> HIDE DEF h, n
<1>3. /\ n \in 1..n /\ \A k \in 1..n : k < n => s[k] >= 128
      /\ s[n] < 128 /\ \A k \in 1..n : s[k] % 128 = (v \div 128^(k - 1)) % 128
  BY <1>1, <1>2
<1>4. \A k \in 1..Len(s) : s[k] \in Nat
  BY BytesAreNumbers
<1>5. n \in ends
  <2>1. n \in 1..Least(5, Len(s))
    BY <1>1, <1>2 DEF Least
  <2>2. \A k \in 1..n - 1 : s[k] >= 128
    BY <1>1, <1>3
  <2> QED
    BY <1>3, <2>1, <2>2 DEF VarintEnd
<1>6. ASSUME NEW m \in ends PROVE m = n
  <2>1. m \in 1..Least(5, Len(s)) /\ s[m] < 128 /\ \A k \in 1..m - 1 : s[k] >= 128
    BY DEF VarintEnd
  <2>2. m \in 1..Len(s) /\ n \in 1..Len(s)
    BY <1>1, <1>2, <2>1 DEF Least
  <2>3. CASE m < n
    <3>1. m \in 1..n
      BY <1>1, <2>2, <2>3
    <3> QED
      BY <1>3, <1>4, <2>1, <2>2, <2>3, <3>1
  <2>4. CASE m > n
    <3>1. n \in 1..m - 1
      BY <1>1, <2>2, <2>4
    <3> QED
      BY <1>3, <1>4, <2>1, <2>2, <3>1
  <2> QED
    BY <1>1, <2>2, <2>3, <2>4
<1>7. ends = {n}
  BY <1>5, <1>6
<1> HIDE DEF ends
<1>8. Min(ends) = n
  <2>1. \A y \in {n} : n <= y
    BY <1>1
  <2> QED
    BY <1>7, <2>1 DEF Min
<1>9. VarintValue(s, n) = v
  <2> DEFINE group(k) == IF k <= n THEN s[k] % 128 ELSE 0
             d(k) == (v \div 128^(k - 1)) % 128
  <2>1. /\ 128^0 = 1 /\ 128^1 = 128 /\ 128^2 = 16384 /\ 128^3 = 2097152 /\ 128^4 = 268435456
        /\ 1 - 1 = 0 /\ 2 - 1 = 1 /\ 3 - 1 = 2 /\ 4 - 1 = 3
    OBVIOUS
  <2>2. VarintValue(s, n) = group(1) + 128 * group(2) + 128^2 * group(3) + 128^3 * group(4)
    <3>1. n # 5
      BY <1>1
    <3> QED
      BY <3>1 DEF VarintValue
  <2>3. \A k \in 1..n : group(k) = d(k)
    BY <1>1, <1>3
  <2>4. \A k \in 1..4 : k > n => group(k) = 0
    BY <1>1
  <2>5. d(1) = v % 128 /\ d(2) = (v \div 128) % 128 /\ d(3) = (v \div 16384) % 128
        /\ d(4) = (v \div 2097152) % 128
    <3>1. v \div 1 = v
      OBVIOUS
    <3> QED
      BY <2>1, <3>1
  <2> HIDE DEF group, d
  <2>6. VarintValue(s, n) = group(1) + 128 * group(2) + 16384 * group(3) + 2097152 * group(4)
    BY <2>1, <2>2
  <2>7. /\ v < 128 => v = d(1)
        /\ v < 16384 => v = d(1) + 128 * d(2)
        /\ v < 2097152 => v = d(1) + 128 * d(2) + 16384 * d(3)
        /\ v < 268435456 => v = d(1) + 128 * d(2) + 16384 * d(3) + 2097152 * d(4)
    <3> DEFINE a1 == v % 128
               a2 == (v \div 128) % 128
               a3 == (v \div 16384) % 128
               a4 == (v \div 2097152) % 128
    <3>1. /\ v < 128 => v = a1
          /\ v < 16384 => v = a1 + 128 * a2
          /\ v < 2097152 => v = a1 + 128 * a2 + 16384 * a3
          /\ v < 268435456 => v = a1 + 128 * a2 + 16384 * a3 + 2097152 * a4
      BY Sevens
    <3>2. d(1) = a1 /\ d(2) = a2 /\ d(3) = a3 /\ d(4) = a4
      BY <2>5
    <3> HIDE DEF a1, a2, a3, a4
    <3> QED
      BY <3>1, <3>2
  <2>8. d(1) \in Nat /\ d(2) \in Nat /\ d(3) \in Nat /\ d(4) \in Nat
    BY <2>5
  <2>9. CASE n = 1
    <3>1. group(1) = d(1) /\ group(2) = 0 /\ group(3) = 0 /\ group(4) = 0
      BY <2>3, <2>4, <2>9
    <3>2. v < 128
      BY <1>1, <2>1, <2>9
    <3> QED
      BY <2>6, <2>7, <2>8, <3>1, <3>2
  <2>10. CASE n = 2
    <3>1. group(1) = d(1) /\ group(2) = d(2) /\ group(3) = 0 /\ group(4) = 0
      BY <2>3, <2>4, <2>10
    <3>2. v < 16384
      BY <1>1, <2>1, <2>10
    <3> QED
      BY <2>6, <2>7, <2>8, <3>1, <3>2
  <2>11. CASE n = 3
    <3>1. group(1) = d(1) /\ group(2) = d(2) /\ group(3) = d(3) /\ group(4) = 0
      BY <2>3, <2>4, <2>11
    <3>2. v < 2097152
      BY <1>1, <2>1, <2>11
    <3> QED
      BY <2>6, <2>7, <2>8, <3>1, <3>2
  <2>12. CASE n = 4
    <3>1. group(1) = d(1) /\ group(2) = d(2) /\ group(3) = d(3) /\ group(4) = d(4)
      BY <2>3, <2>12
    <3>2. v < 268435456
      BY <1>1, <2>1, <2>12
    <3> QED
      BY <2>6, <2>7, <2>8, <3>1, <3>2
  <2> QED
    BY <1>1, <2>9, <2>10, <2>11, <2>12
<1>10. n < 5
  BY <1>1
<1>11. ReadUncompressedLength(s) = [ok |-> TRUE, value |-> v, size |-> n]
  BY <1>5, <1>8, <1>9 DEF ReadUncompressedLength, ends
<1>12. Parse32(s) = [ok |-> TRUE, value |-> v, size |-> n]
  BY <1>5, <1>8, <1>9, <1>10 DEF Parse32, ends
<1> QED
  BY <1>11, <1>12 DEF n, h

LEMMA SubSeqSays ==
  ASSUME NEW s \in Seq(Byte), NEW from \in Nat, NEW to \in Nat, from < to, to <= Len(s)
  PROVE  /\ SubSeq(s, from + 1, to) \in Seq(Byte) /\ Len(SubSeq(s, from + 1, to)) = to - from
         /\ \A k \in 1..to - from : SubSeq(s, from + 1, to)[k] = s[from + k]
OBVIOUS

-------------------------------------------------------------------------------
(* The compressor tells its input. *)

LEMMA TellsEnd ==
  ASSUME NEW s \in Seq(Byte), NEW t, NEW j \in Nat
  PROVE  Tells(s, Len(s), t, j, j)
<1> DEFINE C == {<<Len(s), j>>}
<1>1. C \in SUBSET Position /\ <<Len(s), j>> \in C
  BY DEF Position
<1>2. Cuts(C, s, t, j)
  BY DEF Cuts
<1> QED
  BY <1>1, <1>2 DEF Tells

\* A literal of what a block has between two positions.
LEMMA LiteralEmitted ==
  ASSUME NEW block \in Seq(Byte), Len(block) <= TwoBytes, NEW op \in Seq(Byte), NEW t \in Seq(Byte),
         NEW begun \in Nat, PartOf(block, t, begun), NEW from \in Nat, NEW to \in Nat,
         from < to, to <= Len(block), Tells(op, 0, t, begun, begun + from)
  PROVE  Tells(op \o EmitLiteral(SubSeq(block, from + 1, to)), 0, t, begun, begun + to)
<1> DEFINE s == SubSeq(block, from + 1, to)
           n == to - from
           j == begun + from
           e == EmitLiteral(s)
<1>1. s \in Seq(Byte) /\ Len(s) = n /\ \A k \in 1..n : s[k] = block[from + k]
  BY SubSeqSays
<1>2. /\ n \in Nat /\ n >= 1 /\ n <= TwoBytes /\ j \in Nat /\ j + n = begun + to
      /\ begun + Len(block) <= Len(t) /\ \A k \in 1..Len(block) : block[k] = t[begun + k]
  BY DEF PartOf, TwoBytes
<1> HIDE DEF s
<1>3. \A k \in 1..Len(s) : s[k] = t[j + k]
  <2> SUFFICES ASSUME NEW k \in 1..n PROVE s[k] = t[j + k]
    BY <1>1
  <2>1. from + k \in 1..Len(block) /\ begun + (from + k) = j + k
    OBVIOUS
  <2>2. block[from + k] = t[begun + (from + k)]
    BY <1>2, <2>1
  <2> HIDE DEF j
  <2> QED
    BY <1>1, <2>1, <2>2
<1>4. j + n <= Len(t)
  BY <1>2
<1> HIDE DEF n
<1>5. Tells(e, 0, t, j, j + n)
  <2> HIDE DEF j
  <2> QED
    BY <1>1, <1>2, <1>3, <1>4, LiteralTells
<1>6. e \in Seq(Byte)
  BY <1>1, <1>2, EmitLiteralIs
<1> HIDE DEF e
<1>7. Tells(op \o e, 0, t, begun, j + n)
  <2>1. 0 \in Nat /\ j + n \in Nat /\ Tells(op, 0, t, begun, j)
    BY <1>2
  <2> HIDE DEF j
  <2> QED
    BY <1>2, <1>5, <1>6, <2>1, TellsJoined
<1> QED
  BY <1>2, <1>7 DEF e, s

\* A copy of as much as matches.
LEMMA MatchEmitted ==
  ASSUME NEW block \in Seq(Byte), Len(block) <= TwoBytes, NEW op \in Seq(Byte), NEW t \in Seq(Byte),
         NEW begun \in Nat, PartOf(block, t, begun), NEW candidate \in Nat, NEW base \in Nat,
         candidate < base, base + 15 < Len(block),
         SubSeq(block, candidate + 1, candidate + 4) = SubSeq(block, base + 1, base + 4),
         Tells(op, 0, t, begun, begun + base)
  PROVE  LET matched == 4 + FindMatchLength(block, candidate + 4, base + 4) IN
         Tells(op \o EmitCopy(base - candidate, matched), 0, t, begun, begun + (base + matched))
<1> DEFINE found == FindMatchLength(block, candidate + 4, base + 4)
           matched == 4 + found
           offset == base - candidate
           j == begun + base
           e == EmitCopy(offset, matched)
<1>1. candidate + 4 \in Nat /\ base + 4 \in Nat /\ base + 4 <= Len(block)
  OBVIOUS
<1>2. /\ found \in Nat /\ found <= Len(block) - (base + 4)
      /\ \A k \in 1..found : block[(candidate + 4) + k] = block[(base + 4) + k]
  BY <1>1, FindMatchLengthIs, MatchIs
<1> HIDE DEF found
<1>3. /\ begun + Len(block) <= Len(t) /\ \A k \in 1..Len(block) : block[k] = t[begun + k]
      /\ Len(t) \in Nat /\ Len(block) \in Nat
  BY DEF PartOf
<1>4. \A k \in 1..4 : block[candidate + k] = block[base + k]
  <2> DEFINE a == SubSeq(block, candidate + 1, candidate + 4)
             b == SubSeq(block, base + 1, base + 4)
  <2>1. /\ candidate < candidate + 4 /\ candidate + 4 <= Len(block) /\ (candidate + 4) - candidate = 4
        /\ base < base + 4 /\ (base + 4) - base = 4
    BY <1>3
  <2>2. \A k \in 1..(candidate + 4) - candidate : a[k] = block[candidate + k]
    BY <1>1, <2>1, SubSeqSays
  <2>3. \A k \in 1..(base + 4) - base : b[k] = block[base + k]
    BY <1>1, <2>1, SubSeqSays
  <2>4. a = b
    OBVIOUS
  <2> HIDE DEF a, b
  <2> QED
    BY <2>1, <2>2, <2>3, <2>4
<1>5. \A k \in 1..matched : block[candidate + k] = block[base + k]
  <2> SUFFICES ASSUME NEW k \in 1..matched PROVE block[candidate + k] = block[base + k]
    OBVIOUS
  <2>1. CASE k <= 4
    BY <1>4, <2>1
  <2>2. CASE k > 4
    <3> DEFINE i == k - 4
    <3>1. i \in 1..found /\ (candidate + 4) + i = candidate + k /\ (base + 4) + i = base + k
      BY <1>2, <2>2
    <3>2. block[(candidate + 4) + i] = block[(base + 4) + i]
      BY <1>2, <3>1
    <3> HIDE DEF i
    <3> QED
      BY <3>1, <3>2
  <2> QED
    BY <1>2, <2>1, <2>2
<1>6. /\ matched \in Nat /\ matched >= 4 /\ base + matched <= Len(block)
      /\ offset \in Nat /\ offset >= 1 /\ offset < TwoBytes
      /\ j \in Nat /\ j + matched <= Len(t) /\ offset <= j /\ j + matched = begun + (base + matched)
  BY <1>2, <1>3 DEF TwoBytes
<1> HIDE DEF matched
<1>7. \A x \in j + 1..j + matched : t[x] = t[x - offset]
  <2> SUFFICES ASSUME NEW x \in j + 1..j + matched PROVE t[x] = t[x - offset]
    OBVIOUS
  <2> DEFINE k == x - j
  <2>1. /\ k \in 1..matched /\ base + k \in 1..Len(block) /\ candidate + k \in 1..Len(block)
        /\ begun + (base + k) = x /\ begun + (candidate + k) = x - offset
    BY <1>6
  <2>2. block[candidate + k] = block[base + k]
    BY <1>5, <2>1
  <2>3. block[base + k] = t[begun + (base + k)] /\ block[candidate + k] = t[begun + (candidate + k)]
    BY <1>3, <2>1
  <2> HIDE DEF k, offset
  <2> QED
    BY <2>1, <2>2, <2>3
<1>8. Tells(op, 0, t, begun, j)
  OBVIOUS
<1> HIDE DEF offset, j
<1>9. Tells(e, 0, t, j, j + matched)
  BY <1>6, <1>7, EmitCopyTells
<1>10. e \in Seq(Byte) /\ 0 \in Nat /\ j + matched \in Nat
  BY <1>6, EmitCopyIs
<1> HIDE DEF e
<1>11. Tells(op \o e, 0, t, begun, j + matched)
  BY <1>6, <1>8, <1>9, <1>10, TellsJoined
<1> QED
  BY <1>6, <1>11 DEF e, offset, matched, found

\* The length of the text is in front of the stream, which tells the text up to m.
HeadTells(s, t, m) ==
  InFront(Encode32(Len(t)), s) /\ Tells(s, Len(Encode32(Len(t))), t, 0, m)

\* Where the block began; it is a part of the text, and its output tells n bytes of it.
Begun(t, c) == Len(t) - c.left - Len(c.block)
BlockText(s, t, c, n) ==
  /\ HeadTells(s, t, Begun(t, c))
  /\ PartOf(c.block, t, Begun(t, c))
  /\ Tells(c.op, 0, t, Begun(t, c), Begun(t, c) + n)

CompressorText ==
  /\ phase = "block" => HeadTells(stream, input, Len(input) - comp.left)
  /\ phase \in {"scan", "remainder"} => BlockText(stream, input, comp, comp.next_emit)
  /\ phase = "match" => BlockText(stream, input, comp, comp.ip)
  /\ phase \in {"open", "tag", "literal", "ended"} /\ input # <<>> =>
       HeadTells(stream, input, Len(input))

LEMMA BlockTextKept ==
  ASSUME NEW s, NEW t, NEW c, NEW d, NEW n, BlockText(s, t, c, n),
         d.block = c.block, d.left = c.left, d.op = c.op
  PROVE  BlockText(s, t, d, n)
<1>1. Begun(t, d) = Begun(t, c)
  BY DEF Begun
<1> QED
  BY <1>1 DEF BlockText

LEMMA BlockIs ==
  ASSUME CompressorInv, InBlock
  PROVE  /\ comp.block \in Seq(Byte) /\ Len(comp.block) <= TwoBytes /\ comp.op \in Seq(Byte)
         /\ input \in Seq(Byte) /\ Begun(input, comp) \in Nat /\ Len(comp.block) \in Nat
         /\ comp.left \in Nat /\ CompFields(comp) /\ stream \in Seq(Byte)
         /\ Begun(input, comp) + Len(comp.block) = Len(input) - comp.left
<1>1. /\ CompTypes(comp) /\ input \in Seq(Byte) /\ comp.left + Len(comp.block) <= Len(input)
      /\ Len(comp.block) <= BlockSize /\ stream \in Seq(Byte)
  BY DEF CompressorInv, InBlock
<1>2. comp.block \in Seq(Byte) /\ comp.op \in Seq(Byte) /\ comp.left \in Nat /\ CompFields(comp)
  BY <1>1 DEF CompTypes
<1> DEFINE size == Len(comp.block)
           left == comp.left
           all == Len(input)
<1>3. size \in Nat /\ left \in Nat /\ all \in Nat /\ left + size <= all
  BY <1>1, <1>2
<1>4. Begun(input, comp) = all - left - size
  BY DEF Begun
<1>5. size <= TwoBytes
  <2>1. 2^16 = TwoBytes
    BY DEF TwoBytes
  <2>2. BlockSize \in Nat /\ BlockSize <= TwoBytes /\ size <= BlockSize
    BY <1>1, <2>1, SnappyAssumption
  <2> HIDE DEF size
  <2> QED
    BY <1>3, <2>2 DEF TwoBytes
<1> HIDE DEF size, left, all
<1>6. all - left - size \in Nat /\ (all - left - size) + size = all - left
  BY <1>3
<1> QED
  BY <1>1, <1>2, <1>3, <1>4, <1>5, <1>6 DEF size, left, all

LEMMA StartTells ==
  ASSUME SnappyInit
  PROVE  CompressorText
<1>1. CASE input \in Inputs /\ phase = "block" /\ comp = Compressing(Len(input)) /\ stream = Encode32(Len(input))
  <2>1. input \in Seq(Byte) /\ Len(input) < Huge /\ Len(input) \in Nat
    BY <1>1, SnappyAssumption
  <2> DEFINE h == Encode32(Len(input))
  <2>2. h \in Seq(Byte)
    BY <2>1, EncodedIs
  <2>3. comp.left = Len(input)
    BY <1>1, <2>1, CompressingIs
  <2> HIDE DEF h
  <2>4. InFront(h, h)
    BY <2>2 DEF InFront
  <2>5. Tells(h, Len(h), input, 0, 0)
    BY <2>2, TellsEnd, 0 \in Nat
  <2>6. Len(input) - comp.left = 0
    BY <2>1, <2>3
  <2>7. HeadTells(stream, input, Len(input) - comp.left)
    BY <1>1, <2>4, <2>5, <2>6 DEF HeadTells, h
  <2> QED
    BY <1>1, <2>7 DEF CompressorText
<1>2. CASE input = <<>> /\ phase = "open"
  BY <1>2 DEF CompressorText
<1> QED
  BY <1>1, <1>2 DEF SnappyInit

LEMMA NextBlockTells ==
  ASSUME SnappyInv, CompressorText, NextBlock
  PROVE  CompressorText'
<1>1. /\ phase = "block" /\ CompressorInv /\ BetweenBlocks
      /\ UNCHANGED <<input, kind, stream, dec, out, reach>>
  BY Zenon DEF SnappyInv, NextBlock, CompressorInv
<1>2. HeadTells(stream, input, Len(input) - comp.left)
  BY <1>1 DEF CompressorText
<1>3. CASE comp.left = 0
  <2>1. phase' = "open"
    BY <1>1, <1>3 DEF NextBlock, CompressorInv, CompTypes
  <2>2. Len(input) - comp.left = Len(input)
    BY <1>1, <1>3 DEF CompressorInv
  <2>3. HeadTells(stream', input', Len(input'))
    BY <1>1, <1>2, <2>2
  <2> QED
    BY <2>1, <2>3 DEF CompressorText
<1>4. CASE comp.left # 0
  <2> DEFINE all == Len(input)
             left == comp.left
             n == Least(left, BlockSize)
  <2>1. PICK fragment \in Fragment :
          LET src == Skip(Source(input, fragment), all - left)
              block == Gathered(src, n).bytes
          IN  /\ comp' = [Compressing(left - Len(block)) EXCEPT !.block = block, !.next_ip = 1]
              /\ phase' = IF Len(block) >= Margin THEN "scan" ELSE "remainder"
    BY <1>4, Zenon DEF NextBlock
  <2> DEFINE src == Skip(Source(input, fragment), all - left)
             block == Gathered(src, n).bytes
             size == Len(block)
  <2>2. /\ input \in Seq(Byte) /\ all \in Nat /\ left \in Nat /\ left > 0 /\ left <= all
    BY <1>1, <1>4 DEF CompressorInv, CompTypes, BetweenBlocks
  <2>3. BlockSize \in Nat /\ BlockSize >= 6 /\ fragment \in Nat \ {0}
    BY <2>1, SnappyAssumption
  <2>4. all - left \in Nat /\ n \in Nat /\ n <= left /\ all - left <= all
    BY <2>2, <2>3 DEF Least
  <2> HIDE DEF all, left, n
  <2>5. Source(input, fragment) \in ByteSource /\ Source(input, fragment).pos = 0
        /\ Source(input, fragment).bytes = input
    BY <2>2, <2>3 DEF Source, ByteSource
  <2>6. src \in ByteSource /\ src.pos = all - left /\ src.bytes = input
    <3> DEFINE k == all - left
    <3>2. k \in Nat /\ 0 + k = k
      BY <2>4
    <3> HIDE DEF k
    <3>3. /\ Skip(Source(input, fragment), k) \in ByteSource
          /\ Skip(Source(input, fragment), k).bytes = input
          /\ Skip(Source(input, fragment), k).pos = k
      BY <2>5, <3>2, SkipIs
    <3> QED
      BY <3>3 DEF k, src
  <2>7. src.pos <= Len(src.bytes)
    BY <2>4, <2>6 DEF all
  <2>8. comp' = [Compressing(left - size) EXCEPT !.block = block, !.next_ip = 1]
        /\ phase' = IF size >= Margin THEN "scan" ELSE "remainder"
    BY <2>1
  <2> HIDE DEF src
  <2>9. block \in Seq(Byte) /\ size <= n /\ PartOf(block, src.bytes, src.pos)
    BY <2>4, <2>6, <2>7, GatheredIs
  <2>10. size \in Nat
    BY <2>9
  <2> HIDE DEF block, size
  <2>11. left - size \in Nat /\ all - (left - size) - size = all - left
    BY <2>2, <2>4, <2>9, <2>10
  <2>12. /\ comp'.block = block /\ comp'.left = left - size
         /\ comp'.next_emit = 0 /\ comp'.op = <<>>
    <3> DEFINE c == WithBlock(Compressing(left - size), block, 1)
    <3>1. c.block = block /\ c.left = left - size /\ c.next_emit = 0 /\ c.op = <<>>
      BY <2>9, <2>11, NewBlockIs
    <3>2. comp' = c
      BY <2>8 DEF WithBlock
    <3> HIDE DEF c
    <3> QED
      BY <3>1, <3>2
  <2>13. Begun(input', comp') = all - left
    BY <1>1, <2>11, <2>12 DEF Begun, all, size
  <2>14. Tells(<<>>, 0, input, all - left, (all - left) + 0)
    <3>1. (all - left) + 0 = all - left
      BY <2>4
    <3> QED
      BY <2>4, <3>1, TellsNothing
  <2>15. BlockText(stream', input', comp', comp'.next_emit)
    <3>1. HeadTells(stream, input, all - left)
      BY <1>2 DEF all, left
    <3>2. PartOf(block, input, all - left)
      BY <2>6, <2>9
    <3> QED
      BY <1>1, <2>12, <2>13, <2>14, <3>1, <3>2 DEF BlockText
  <2>16. phase' \in {"scan", "remainder"}
    BY <2>8
  <2> QED
    BY <2>15, <2>16 DEF CompressorText
<1> QED
  BY <1>3, <1>4

LEMMA ScanTells ==
  ASSUME SnappyInv, CompressorText, Scan
  PROVE  CompressorText'
<1> DEFINE ip == comp.next_ip
           from == comp.next_emit
           next_ip == ip + comp.skip \div SkipStart
           h == HashAt(comp, ip)
           candidate == TableAt(comp, h)
           probed == WithScan(comp, ip, next_ip, comp.skip + 1, candidate, TablePut(comp, h, ip))
           op == comp.op \o EmitLiteral(SubSeq(comp.block, from + 1, ip))
           size == Len(comp.block)
<1>1. /\ phase = "scan" /\ CompressorInv /\ InBlock /\ Scanning /\ CompTypes(comp)
      /\ UNCHANGED <<input, kind, stream, dec, out>>
  BY DEF SnappyInv, Scan, CompressorInv
<1>2. \/ phase' = "remainder" /\ comp' = [comp EXCEPT !.ip = ip]
      \/ comp' = probed /\ UNCHANGED phase
      \/ next_ip <= Limit(comp) /\ comp' = [probed EXCEPT !.op = op] /\ phase' = "match"
  BY DEF Scan, WithScan
<1>3. BlockText(stream, input, comp, from)
  BY <1>1 DEF CompressorText
<1>4. ip \in Nat /\ from \in Nat /\ from < ip /\ CompFields(comp)
  BY <1>1 DEF Scanning, CompTypes
<1>5. /\ CompFields(probed) /\ probed.block = comp.block /\ probed.left = comp.left
      /\ probed.ip = ip /\ probed.next_emit = from /\ probed.op = comp.op
  <2> DEFINE table == TablePut(comp, h, ip)
             skip == comp.skip + 1
  <2> HIDE DEF ip, candidate, table, skip, next_ip
  <2>1. probed = WithScan(comp, ip, next_ip, skip, candidate, table)
    BY DEF table, skip
  <2> HIDE DEF probed
  <2> QED
    BY <1>4, <2>1, SetScanFields
<1> HIDE DEF candidate, probed, h
<1>6. CASE phase' = "remainder" /\ comp' = [comp EXCEPT !.ip = ip]
  <2>1. comp'.block = comp.block /\ comp'.left = comp.left /\ comp'.next_emit = from /\ comp'.op = comp.op
    <3> HIDE DEF ip
    <3> DEFINE c == [comp EXCEPT !.ip = ip]
    <3>1. c.block = comp.block /\ c.left = comp.left /\ c.next_emit = comp.next_emit /\ c.op = comp.op
      BY <1>4, SetIp
    <3>2. comp' = c
      BY <1>6
    <3> HIDE DEF c
    <3> QED
      BY <3>1, <3>2
  <2>2. BlockText(stream', input', comp', comp'.next_emit)
    BY <1>1, <1>3, <2>1, BlockTextKept
  <2> QED
    BY <1>6, <2>2 DEF CompressorText
<1>7. CASE comp' = probed /\ UNCHANGED phase
  <2>1. BlockText(stream', input', comp', comp'.next_emit)
    BY <1>1, <1>3, <1>5, <1>7, BlockTextKept
  <2> QED
    BY <1>1, <1>7, <2>1 DEF CompressorText
<1>8. CASE next_ip <= Limit(comp) /\ comp' = [probed EXCEPT !.op = op] /\ phase' = "match"
  <2>1. ip <= size
    <3>1. SkipStart \in Nat \ {0} /\ comp.skip \in Nat /\ size \in Nat
      BY <1>1, SnappyAssumption DEF CompTypes
    <3>2. comp.skip \div SkipStart \in Nat
      BY <3>1
    <3> DEFINE step == comp.skip \div SkipStart
    <3>3. step \in Nat /\ ip + step <= size - 15
      BY <1>8, <3>2 DEF Limit, Margin
    <3> HIDE DEF step, ip, size
    <3> QED
      BY <1>4, <3>1, <3>3
  <2> DEFINE begun == Begun(input, comp)
  <2>2. /\ comp.block \in Seq(Byte) /\ size <= TwoBytes /\ comp.op \in Seq(Byte)
        /\ input \in Seq(Byte) /\ begun \in Nat
    BY <1>1, BlockIs
  <2>3. /\ HeadTells(stream, input, begun) /\ PartOf(comp.block, input, begun)
        /\ Tells(comp.op, 0, input, begun, begun + from)
    BY <1>3 DEF BlockText
  <2> HIDE DEF begun, ip, from
  <2>4. Tells(op, 0, input, begun, begun + ip)
    BY <1>4, <2>1, <2>2, <2>3, LiteralEmitted
  <2> HIDE DEF op
  <2>5. comp'.block = comp.block /\ comp'.left = comp.left /\ comp'.ip = ip /\ comp'.op = op
    <3>1. /\ [probed EXCEPT !.op = op].op = op
          /\ [probed EXCEPT !.op = op].block = probed.block
          /\ [probed EXCEPT !.op = op].left = probed.left
          /\ [probed EXCEPT !.op = op].ip = probed.ip
      BY <1>5, SetOp
    <3> QED
      BY <1>5, <1>8, <3>1
  <2>6. Begun(input', comp') = begun
    BY <1>1, <2>5 DEF Begun, begun
  <2>7. BlockText(stream', input', comp', comp'.ip)
    BY <1>1, <2>3, <2>4, <2>5, <2>6 DEF BlockText
  <2> QED
    BY <1>8, <2>7 DEF CompressorText
<1> QED
  BY <1>2, <1>6, <1>7, <1>8

LEMMA MatchTells ==
  ASSUME SnappyInv, CompressorText, Match
  PROVE  CompressorText'
<1> DEFINE base == comp.ip
           matched == 4 + FindMatchLength(comp.block, comp.candidate + 4, base + 4)
           ip == base + matched
           op == comp.op \o EmitCopy(base - comp.candidate, matched)
           copied == WithCopy(comp, ip, ip, op)
           before == TablePut(comp, HashAt(comp, ip - 1), ip - 1)
           h == HashAt(comp, ip)
           candidate == CandidateAt(copied, before, h)
           table == TablePut([comp EXCEPT !.table = before], h, ip)
           entered == WithTable(copied, candidate, table)
           scanned == WithProbe(entered, ip + 1, SkipStart)
           begun == Begun(input, comp)
<1>1. /\ phase = "match" /\ CompressorInv /\ InBlock /\ Matching /\ CompTypes(comp)
      /\ UNCHANGED <<input, kind, stream, dec, out, reach>>
  BY DEF SnappyInv, Match, CompressorInv
<1>2. \/ comp' = copied /\ phase' = "remainder"
      \/ comp' = entered /\ UNCHANGED phase
      \/ comp' = scanned /\ phase' = "scan"
  BY DEF Match, WithCopy, WithTable, WithProbe
<1>3. /\ base \in Nat /\ comp.candidate \in Nat /\ comp.candidate < base
      /\ base + 15 < Len(comp.block) /\ CompFields(comp)
      /\ SubSeq(comp.block, comp.candidate + 1, comp.candidate + 4) = SubSeq(comp.block, base + 1, base + 4)
  BY <1>1 DEF Matching, CompTypes, Margin, Word
<1>4. /\ comp.block \in Seq(Byte) /\ Len(comp.block) <= TwoBytes /\ comp.op \in Seq(Byte)
      /\ input \in Seq(Byte) /\ begun \in Nat
  BY <1>1, BlockIs
<1>5. /\ HeadTells(stream, input, begun) /\ PartOf(comp.block, input, begun)
      /\ Tells(comp.op, 0, input, begun, begun + base)
  BY <1>1 DEF CompressorText, BlockText
<1>6. Tells(op, 0, input, begun, begun + ip)
  <2> HIDE DEF begun, base
  <2> QED
    BY <1>3, <1>4, <1>5, MatchEmitted
<1> HIDE DEF op, ip, before, h
<1>7. /\ CompFields(copied) /\ copied.block = comp.block /\ copied.left = comp.left
      /\ copied.ip = ip /\ copied.next_emit = ip /\ copied.op = op
  BY <1>3, SetCopyFields
<1> HIDE DEF copied, candidate, table
<1>8. /\ CompFields(entered) /\ entered.block = comp.block /\ entered.left = comp.left
      /\ entered.ip = ip /\ entered.next_emit = ip /\ entered.op = op
  BY <1>7, SetTableFields
<1> HIDE DEF entered
<1>9. /\ CompFields(scanned) /\ scanned.block = comp.block /\ scanned.left = comp.left
      /\ scanned.ip = ip /\ scanned.next_emit = ip /\ scanned.op = op
  BY <1>8, SetProbeFields
<1> HIDE DEF scanned
<1>10. /\ comp'.block = comp.block /\ comp'.left = comp.left
       /\ comp'.ip = ip /\ comp'.next_emit = ip /\ comp'.op = op
       /\ phase' \in {"remainder", "match", "scan"}
  BY <1>1, <1>2, <1>7, <1>8, <1>9
<1>11. Begun(input', comp') = begun
  BY <1>1, <1>10 DEF Begun
<1> HIDE DEF begun
<1>12. BlockText(stream', input', comp', ip)
  BY <1>1, <1>5, <1>6, <1>10, <1>11 DEF BlockText
<1> QED
  BY <1>10, <1>12 DEF CompressorText

LEMMA RemainderTells ==
  ASSUME SnappyInv, CompressorText, Remainder
  PROVE  CompressorText'
<1> DEFINE size == Len(comp.block)
           from == comp.next_emit
           literal == SubSeq(comp.block, from + 1, size)
           op == comp.op \o IF literal = <<>> THEN <<>> ELSE EmitLiteral(literal)
           begun == Begun(input, comp)
           h == Encode32(Len(input))
<1>1. /\ phase = "remainder" /\ CompressorInv /\ InBlock /\ Remaining /\ CompTypes(comp)
      /\ UNCHANGED <<input, kind, dec, out>>
      /\ stream' = stream \o op /\ comp' = Compressing(comp.left) /\ phase' = "block"
  BY DEF SnappyInv, Remainder, CompressorInv
<1>2. /\ comp.block \in Seq(Byte) /\ size <= TwoBytes /\ comp.op \in Seq(Byte) /\ size \in Nat
      /\ input \in Seq(Byte) /\ begun \in Nat /\ begun + size = Len(input) - comp.left
      /\ comp.left \in Nat /\ stream \in Seq(Byte)
  BY <1>1, BlockIs
<1>3. from \in Nat /\ from <= size
  BY <1>1 DEF Remaining, CompTypes
<1>4. /\ HeadTells(stream, input, begun) /\ PartOf(comp.block, input, begun)
      /\ Tells(comp.op, 0, input, begun, begun + from)
  BY <1>1 DEF CompressorText, BlockText
<1> HIDE DEF from, begun
<1>5. op \in Seq(Byte) /\ Tells(op, 0, input, begun, begun + size)
  <2>1. CASE from = size
    <3>1. literal = <<>>
      BY <1>2, <1>3, <2>1
    <3>2. op = comp.op
      BY <1>2, <3>1, Joined
    <3> QED
      BY <1>2, <1>4, <2>1, <3>2
  <2>2. CASE from # size
    <3>1. from < size
      BY <1>2, <1>3, <2>2
    <3>2. literal \in Seq(Byte) /\ Len(literal) = size - from
      BY <1>2, <1>3, <3>1, SubSeqSays
    <3>4. Tells(comp.op \o EmitLiteral(literal), 0, input, begun, begun + size)
      <4> HIDE DEF op
      <4>1. size <= Len(comp.block) /\ Len(comp.block) <= TwoBytes
        BY <1>2
      <4> HIDE DEF size
      <4> QED
        BY <1>2, <1>3, <1>4, <3>1, <4>1, LiteralEmitted
    <3> HIDE DEF literal, size
    <3>3. literal # <<>> /\ Len(literal) >= 1 /\ Len(literal) <= TwoBytes
      <4> DEFINE n == Len(literal)
      <4>1. n \in Nat /\ n >= 1 /\ n <= TwoBytes
        BY <1>2, <1>3, <3>1, <3>2 DEF TwoBytes
      <4> QED
        BY <3>2, <4>1
    <3>5. EmitLiteral(literal) \in Seq(Byte)
      BY <3>2, <3>3, EmitLiteralIs
    <3> QED
      BY <1>2, <3>3, <3>4, <3>5, JoinedOf
  <2> QED
    BY <2>1, <2>2
<1> HIDE DEF op, size
<1>6. Len(input) \in Nat /\ Len(input) < Huge
  BY <1>1 DEF CompressorInv
<1>7. h \in Seq(Byte) /\ Len(h) \in Nat
  BY <1>6, EncodedIs
<1>8. InFront(h, stream) /\ Tells(stream, Len(h), input, 0, begun)
  BY <1>4 DEF HeadTells
<1> HIDE DEF h
<1>9. Tells(stream \o op, Len(h), input, 0, begun + size)
  <2>1. 0 \in Nat /\ begun + size \in Nat
    BY <1>2
  <2> QED
    BY <1>2, <1>5, <1>7, <1>8, <2>1, TellsJoined
<1>10. InFront(h, stream \o op)
  <2>1. /\ Len(stream \o op) = Len(stream) + Len(op) /\ Len(stream) \in Nat /\ Len(op) \in Nat
        /\ \A k \in 1..Len(stream) : (stream \o op)[k] = stream[k]
    BY <1>2, <1>5, Joined
  <2> DEFINE u == stream \o op
  <2> HIDE DEF u
  <2>2. Len(h) <= Len(u)
    BY <1>7, <1>8, <2>1 DEF u, InFront
  <2>3. \A k \in 1..Len(h) : k \in 1..Len(stream)
    BY <1>7, <1>8, <2>1 DEF InFront
  <2>4. \A k \in 1..Len(h) : u[k] = h[k]
    BY <1>8, <2>1, <2>3 DEF u, InFront
  <2> QED
    BY <2>2, <2>4 DEF u, InFront
<1>11. comp'.left = comp.left
  BY <1>1, <1>2, CompressingIs
<1>12. HeadTells(stream', input', Len(input') - comp'.left)
  BY <1>1, <1>2, <1>9, <1>10, <1>11 DEF HeadTells, h
<1> QED
  BY <1>1, <1>12 DEF CompressorText

-------------------------------------------------------------------------------
(* The decompressor reads what was told. *)

LEMMA LittleEndianSays ==
  ASSUME NEW s \in Seq(Byte)
  PROVE  /\ Len(s) = 1 => LittleEndian(s) = s[1]
         /\ Len(s) = 2 => LittleEndian(s) = s[1] + 256 * s[2]
<1> DEFINE byte(k) == IF k <= Len(s) THEN s[k] ELSE 0
<1>1. LittleEndian(s) = IF byte(4) >= 16 THEN Huge
                        ELSE byte(1) + 256 * byte(2) + 256^2 * byte(3) + 256^3 * byte(4)
  BY DEF LittleEndian
<1>2. Huge \in Nat /\ 256^2 = 65536 /\ 256^3 = 16777216
  BY DEF Huge
<1>3. \A k \in 1..Len(s) : s[k] \in Nat
  BY BytesAreNumbers
<1>4. CASE Len(s) = 1
  <2>1. byte(1) = s[1] /\ byte(2) = 0 /\ byte(3) = 0 /\ byte(4) = 0
    BY <1>4
  <2>2. s[1] \in Nat
    BY <1>3, <1>4
  <2> HIDE DEF byte
  <2>3. LittleEndian(s) = s[1] + 256 * 0 + 65536 * 0 + 16777216 * 0
    BY <1>1, <1>2, <2>1
  <2> QED
    BY <1>4, <2>2, <2>3
<1>5. CASE Len(s) = 2
  <2>1. byte(1) = s[1] /\ byte(2) = s[2] /\ byte(3) = 0 /\ byte(4) = 0
    BY <1>5
  <2>2. s[1] \in Nat /\ s[2] \in Nat
    BY <1>3, <1>5
  <2> HIDE DEF byte
  <2>3. LittleEndian(s) = s[1] + 256 * s[2] + 65536 * 0 + 16777216 * 0
    BY <1>1, <1>2, <2>1
  <2> QED
    BY <1>5, <2>2, <2>3
<1> QED
  BY <1>4, <1>5

\* What the table has for the tags the compressor uses.
LEMMA TagsInTable ==
  ASSUME NEW c \in Byte
  PROVE  /\ c % 4 = 1 => char_table(c) = MakeEntry(1, ((c \div 4) % 8) + 4, c \div 32)
         /\ c % 4 = 2 => char_table(c) = MakeEntry(2, c \div 4 + 1, 0)
         /\ c % 4 = 0 /\ c \div 4 < 60 => char_table(c) = MakeEntry(0, c \div 4 + 1, 0)
         /\ c % 4 = 0 /\ c \div 4 >= 60 => char_table(c) = MakeEntry(c \div 4 - 59, 1, 0)
<1> DEFINE low == c % 4
           high == c \div 4
<1>1. low \in Nat /\ high \in Nat /\ high \div 8 = c \div 32
  BY DEF Byte
<1>2. char_table(c) =
        CASE low = LITERAL /\ high < 60 -> MakeEntry(0, high + 1, 0)
          [] low = LITERAL /\ high >= 60 -> MakeEntry(high - 59, 1, 0)
          [] low = COPY_1_BYTE_OFFSET -> MakeEntry(1, (high % 8) + 4, high \div 8)
          [] low = COPY_2_BYTE_OFFSET -> MakeEntry(2, high + 1, 0)
          [] low = COPY_4_BYTE_OFFSET -> MakeEntry(4, high + 1, 0)
  BY DEF char_table
<1> HIDE DEF low, high
<1>3. low = 1 => char_table(c) = MakeEntry(1, (high % 8) + 4, high \div 8)
  BY <1>1, <1>2 DEF LITERAL, COPY_1_BYTE_OFFSET, COPY_2_BYTE_OFFSET, COPY_4_BYTE_OFFSET
<1>4. low = 2 => char_table(c) = MakeEntry(2, high + 1, 0)
  BY <1>1, <1>2 DEF LITERAL, COPY_1_BYTE_OFFSET, COPY_2_BYTE_OFFSET, COPY_4_BYTE_OFFSET
<1>5. low = 0 /\ high < 60 => char_table(c) = MakeEntry(0, high + 1, 0)
  BY <1>1, <1>2 DEF LITERAL, COPY_1_BYTE_OFFSET, COPY_2_BYTE_OFFSET, COPY_4_BYTE_OFFSET
<1>6. low = 0 /\ high >= 60 => char_table(c) = MakeEntry(high - 59, 1, 0)
  BY <1>1, <1>2 DEF LITERAL, COPY_1_BYTE_OFFSET, COPY_2_BYTE_OFFSET, COPY_4_BYTE_OFFSET
<1> QED
  BY <1>1, <1>3, <1>4, <1>5, <1>6 DEF low, high

\* The number of bytes behind a tag that the table has.
LEMMA CopyNeeds ==
  ASSUME NEW s \in Seq(Byte), NEW i \in Nat, NEW e \in Nat, NEW n, NEW offset,
         i < e, e <= Len(s), CopyAt(s, i, e, n, offset)
  PROVE  char_table(s[i + 1]).extra + 1 = e - i /\ char_table(s[i + 1]).len = n
         /\ s[i + 1] \in Byte /\ s[i + 1] % 4 # LITERAL
<1> DEFINE c == s[i + 1]
<1>1. c \in Byte
  BY i + 1 \in 1..Len(s)
<1>2. CASE e = i + 2 /\ ShortCopy(c, s[i + 2], n, offset)
  <2>1. c % 4 = 1 /\ n = ((c \div 4) % 8) + 4
    BY <1>2 DEF ShortCopy
  <2>2. char_table(c) = MakeEntry(1, n, c \div 32)
    BY <1>1, <2>1, TagsInTable
  <2> HIDE DEF c
  <2>3. char_table(c).extra = 1 /\ char_table(c).len = n
    BY <2>2 DEF MakeEntry
  <2>4. char_table(c).extra + 1 = e - i
    BY <1>2, <2>3
  <2> QED
    BY <1>1, <2>1, <2>3, <2>4 DEF LITERAL, c
<1>3. CASE e = i + 3 /\ LongCopy(c, s[i + 2], s[i + 3], n, offset)
  <2>1. c % 4 = 2 /\ n = c \div 4 + 1
    BY <1>3 DEF LongCopy
  <2>2. char_table(c) = MakeEntry(2, n, 0)
    BY <1>1, <2>1, TagsInTable
  <2> HIDE DEF c
  <2>3. char_table(c).extra = 2 /\ char_table(c).len = n
    BY <2>2 DEF MakeEntry
  <2>4. char_table(c).extra + 1 = e - i
    BY <1>3, <2>3
  <2> QED
    BY <1>1, <2>1, <2>3, <2>4 DEF LITERAL, c
<1> QED
  BY <1>2, <1>3 DEF CopyAt

LEMMA LiteralNeeds ==
  ASSUME NEW s \in Seq(Byte), NEW i \in Nat, NEW b \in Nat, NEW n,
         i < b, b <= Len(s), LiteralAt(s, i, b, n)
  PROVE  /\ char_table(s[i + 1]).extra + 1 = b - i /\ s[i + 1] \in Byte /\ s[i + 1] % 4 = LITERAL
         /\ b = i + 1 => s[i + 1] \div 4 + 1 = n /\ s[i + 1] \div 4 + 1 < 61
         /\ b # i + 1 => (s[i + 1] \div 4 + 1) - 60 = (b - i) - 1 /\ s[i + 1] \div 4 + 1 >= 61
<1> DEFINE c == s[i + 1]
<1>1. c \in Byte
  BY i + 1 \in 1..Len(s)
<1>2. CASE b = i + 1 /\ OneByteTag(c, n)
  <2>1. c % 4 = 0 /\ n = c \div 4 + 1 /\ n <= 60
    BY <1>2 DEF OneByteTag
  <2> HIDE DEF c
  <2>2. c \div 4 \in Nat /\ c \div 4 < 60 /\ c \div 4 + 1 < 61
    BY <1>1, <2>1 DEF Byte
  <2>3. char_table(c) = MakeEntry(0, n, 0)
    BY <1>1, <2>1, <2>2, TagsInTable
  <2>4. char_table(c).extra = 0
    BY <2>3 DEF MakeEntry
  <2>5. char_table(c).extra + 1 = b - i
    BY <1>2, <2>4
  <2> QED
    BY <1>1, <1>2, <2>1, <2>2, <2>5 DEF LITERAL, c
<1>3. CASE b = i + 2 /\ TwoByteTag(c, s[i + 2], n)
  <2>1. c = 240
    BY <1>3 DEF TwoByteTag
  <2>2. c % 4 = 0 /\ c \div 4 = 60
    BY <2>1
  <2>3. char_table(c) = MakeEntry(c \div 4 - 59, 1, 0)
    BY <1>1, <2>2, TagsInTable
  <2> HIDE DEF c
  <2>4. char_table(c).extra = 1
    BY <2>2, <2>3 DEF MakeEntry
  <2>5. char_table(c).extra + 1 = b - i /\ b # i + 1 /\ (c \div 4 + 1) - 60 = (b - i) - 1
        /\ c \div 4 + 1 >= 61
    BY <1>3, <2>2, <2>4
  <2> QED
    BY <1>1, <2>2, <2>5 DEF LITERAL, c
<1>4. CASE b = i + 3 /\ ThreeByteTag(c, s[i + 2], s[i + 3], n)
  <2>1. c = 244
    BY <1>4 DEF ThreeByteTag
  <2>2. c % 4 = 0 /\ c \div 4 = 61
    BY <2>1
  <2>3. char_table(c) = MakeEntry(c \div 4 - 59, 1, 0)
    BY <1>1, <2>2, TagsInTable
  <2> HIDE DEF c
  <2>4. char_table(c).extra = 2
    BY <2>2, <2>3 DEF MakeEntry
  <2>5. char_table(c).extra + 1 = b - i /\ b # i + 1 /\ (c \div 4 + 1) - 60 = (b - i) - 1
        /\ c \div 4 + 1 >= 61
    BY <1>4, <2>2, <2>4
  <2> QED
    BY <1>1, <2>2, <2>5 DEF LITERAL, c
<1> QED
  BY <1>2, <1>3, <1>4 DEF LiteralAt

\* The buffer has what the stream has from i on, and the source what follows.
At(s, d, i) ==
  d.src.bytes = s /\ i + Len(d.buf) = d.src.pos + d.peeked /\ PartOf(d.buf, s, i)

\* If a tag is there its bytes are.
WholeTag(s, i) == i < Len(s) => i + (char_table(s[i + 1]).extra + 1) <= Len(s)

LEMMA FetchedAt ==
  ASSUME NEW s \in Seq(Byte), NEW d \in DecState, NEW i \in Nat, At(s, d, i)
  PROVE  At(s, Fetched(d), i) /\ (i < Len(s) => Fetched(d).buf # <<>>)
<1>1. CASE d.buf # <<>>
  BY <1>1 DEF Fetched
<1>2. CASE d.buf = <<>>
  <2> DEFINE src == Skip(d.src, d.peeked)
             p == Peek(src)
             m == Len(p)
             f == [d EXCEPT !.src = src, !.buf = p, !.peeked = m]
  <2>1. d.src \in ByteSource /\ d.peeked \in Nat /\ d.src.pos \in Nat
    BY DEF DecState, ByteSource
  <2>2. src \in ByteSource /\ src.bytes = s /\ src.pos = i /\ i <= Len(s)
    <3>1. src \in ByteSource /\ src.bytes = d.src.bytes /\ src.pos = d.src.pos + d.peeked
      BY <2>1, SkipIs
    <3>2. i + 0 = d.src.pos + d.peeked /\ i + 0 <= Len(s) /\ d.src.bytes = s
      BY <1>2 DEF At, PartOf
    <3> QED
      BY <3>1, <3>2
  <2> HIDE DEF src
  <2>3. p \in Seq(Byte) /\ (i < Len(s) => Len(p) >= 1) /\ PartOf(p, s, i)
    BY <2>2, PeekIs
  <2>4. Fetched(d) = f
    BY <1>2 DEF Fetched, src
  <2>5. m \in Nat /\ (i < Len(s) => p # <<>>)
    BY <2>3
  <2> HIDE DEF p
  <2>6. f.src = src /\ f.buf = p /\ f.peeked = m
    BY DEF DecState
  <2> HIDE DEF f
  <2>7. At(s, f, i)
    BY <2>2, <2>3, <2>5, <2>6 DEF At
  <2> QED
    BY <2>4, <2>5, <2>6, <2>7
<1> QED
  BY <1>1, <1>2

LEMMA HeadAt ==
  ASSUME NEW s \in Seq(Byte), NEW d \in DecState, NEW i \in Nat, At(s, d, i), d.buf # <<>>
  PROVE  /\ i < Len(s) /\ Head(d.buf) = s[i + 1] /\ Needed(d) = char_table(s[i + 1]).extra + 1
         /\ Len(d.buf) \in Nat /\ i + Len(d.buf) <= Len(s)
<1>1. d.buf \in Seq(Byte)
  BY DEF DecState
<1> DEFINE b == d.buf
<1>2. b \in Seq(Byte) /\ b # <<>> /\ PartOf(b, s, i)
  BY <1>1 DEF At
<1> HIDE DEF b
<1>3. Head(b) = b[1] /\ Len(b) \in Nat /\ Len(b) >= 1
  BY <1>2
<1>4. i + Len(b) <= Len(s) /\ \A k \in 1..Len(b) : b[k] = s[i + k]
  BY <1>2 DEF PartOf
<1>5. Head(b) = s[i + 1] /\ i < Len(s)
  BY <1>3, <1>4
<1> QED
  BY <1>3, <1>4, <1>5 DEF Needed, b

LEMMA RefillTagAt ==
  ASSUME NEW s \in Seq(Byte), NEW d \in DecState, NEW i \in Nat, At(s, d, i), WholeTag(s, i)
  PROVE  /\ At(s, RefillTag(d).d, i)
         /\ RefillTag(d).go <=> i < Len(s)
         /\ ~RefillTag(d).go => RefillTag(d).d.eof
<1> DEFINE f == Fetched(d)
           more == Needed(f) - Len(f.buf)
           rest == IF f.buf = <<>> \/ Len(f.buf) >= Needed(f)
                   THEN [bytes |-> <<>>, src |-> Skip(f.src, f.peeked)]
                   ELSE Gathered(Skip(f.src, f.peeked), more)
           scratch == [f EXCEPT !.buf = @ \o rest.bytes, !.src = rest.src, !.peeked = 0]
<1>1. RefillTag(d) =
        IF f.buf = <<>> THEN [go |-> FALSE, d |-> [f EXCEPT !.eof = TRUE]]
        ELSE IF Len(f.buf) < 5 THEN [go |-> Len(scratch.buf) >= Needed(f), d |-> scratch]
        ELSE [go |-> TRUE, d |-> f]
  BY DEF RefillTag
<1>2. f \in DecState /\ At(s, f, i) /\ (i < Len(s) => f.buf # <<>>)
  BY FetchedIs, FetchedAt
<1> HIDE DEF f
<1>3. f.src \in ByteSource /\ f.peeked \in Nat /\ f.buf \in Seq(Byte) /\ f.src.pos \in Nat
  BY <1>2 DEF DecState, ByteSource
<1>4. CASE f.buf = <<>>
  <2> DEFINE g == [f EXCEPT !.eof = TRUE]
  <2>1. RefillTag(d) = [go |-> FALSE, d |-> g]
    BY <1>1, <1>4
  <2>2. g.src = f.src /\ g.buf = f.buf /\ g.peeked = f.peeked /\ g.eof
    BY <1>2 DEF DecState
  <2> HIDE DEF g
  <2>3. At(s, g, i)
    BY <1>2, <2>2 DEF At
  <2>4. ~(i < Len(s))
    BY <1>2, <1>4
  <2> QED
    BY <2>1, <2>2, <2>3, <2>4
<1>5. CASE f.buf # <<>> /\ Len(f.buf) < 5
  <2> DEFINE n == Needed(f)
             l == Len(f.buf)
             skipped == Skip(f.src, f.peeked)
             u == rest.bytes
  <2>1. Head(f.buf) \in Byte /\ n \in Nat /\ i < Len(s) /\ l \in Nat /\ i + l <= Len(s)
    BY <1>2, <1>5, NeededIs, HeadAt
  <2>2. i + n <= Len(s)
    <3>1. n = char_table(s[i + 1]).extra + 1
      BY <1>2, <1>5, HeadAt
    <3> QED
      BY <2>1, <3>1 DEF WholeTag
  <2>3. skipped \in ByteSource /\ skipped.bytes = s /\ skipped.pos = i + l
    <3>1. skipped.pos = f.src.pos + f.peeked /\ skipped.bytes = f.src.bytes /\ skipped \in ByteSource
      BY <1>3, SkipIs
    <3> QED
      BY <1>2, <3>1 DEF At
  <2> HIDE DEF skipped, n, l
  <2>4. /\ u \in Seq(Byte) /\ PartOf(u, s, i + l) /\ rest.src \in ByteSource
        /\ rest.src.bytes = s /\ rest.src.pos = (i + l) + Len(u) /\ l + Len(u) >= n
    <3>1. CASE l >= n
      <4>1. rest = [bytes |-> <<>>, src |-> skipped]
        BY <3>1 DEF n, l, skipped
      <4>2. <<>> \in Seq(Byte) /\ Len(<<>>) = 0
        OBVIOUS
      <4> HIDE DEF rest
      <4>3. u = <<>> /\ rest.src = skipped
        BY <4>1
      <4> HIDE DEF u
      <4>4. PartOf(u, s, i + l)
        BY <2>1, <4>2, <4>3 DEF PartOf
      <4> QED
        BY <2>1, <2>3, <3>1, <4>2, <4>3, <4>4
    <3>2. CASE ~(l >= n)
      <4> DEFINE m == n - l
      <4>1. rest = Gathered(skipped, m)
        BY <1>5, <3>2 DEF n, l, skipped
      <4>2. m \in Nat /\ skipped.pos + m <= Len(s) /\ skipped.pos <= Len(s) /\ l + m = n
        BY <2>1, <2>2, <2>3, <3>2
      <4> HIDE DEF m, rest
      <4>3. /\ rest.bytes \in Seq(Byte) /\ Len(rest.bytes) = m /\ rest.src \in ByteSource
            /\ rest.src = Skip(skipped, Len(rest.bytes)) /\ PartOf(rest.bytes, s, skipped.pos)
        BY <2>3, <4>1, <4>2, GatheredIs
      <4>4. rest.src.bytes = s /\ rest.src.pos = skipped.pos + m
        BY <2>3, <4>2, <4>3, SkipIs
      <4> QED
        BY <2>1, <2>3, <4>2, <4>3, <4>4
    <3> QED
      BY <3>1, <3>2
  <2> DEFINE b == f.buf \o u
             x == rest.src
             g == [f EXCEPT !.buf = b, !.src = x, !.peeked = 0]
  <2>5. scratch = g
    BY <1>2 DEF DecState
  <2> HIDE DEF rest, u, scratch
  <2>6. b \in Seq(Byte) /\ Len(b) = l + Len(u) /\ Len(u) \in Nat
    BY <1>3, <2>4, Joined DEF l
  <2>7. PartOf(b, s, i)
    <3>1. PartOf(f.buf, s, i)
      BY <1>2 DEF At
    <3> QED
      BY <1>3, <2>4, <3>1, PartsJoined DEF l
  <2> HIDE DEF b
  <2>8. g.src = x /\ g.buf = b /\ g.peeked = 0
    BY <1>2 DEF DecState
  <2>9. x.bytes = s /\ x.pos = (i + l) + Len(u) /\ l + Len(u) >= n
    BY <2>4
  <2> HIDE DEF g, x
  <2>10. At(s, g, i)
    <3>1. i + Len(b) = x.pos + 0
      BY <2>1, <2>6, <2>9
    <3> QED
      BY <2>7, <2>8, <2>9, <3>1 DEF At
  <2>11. Len(g.buf) >= n
    BY <2>6, <2>8, <2>9
  <2>12. RefillTag(d) = [go |-> Len(g.buf) >= n, d |-> g]
    BY <1>1, <1>5, <2>5 DEF n
  <2>13. RefillTag(d) = [go |-> TRUE, d |-> g]
    BY <2>11, <2>12
  <2> QED
    BY <2>1, <2>10, <2>13
<1>6. CASE f.buf # <<>> /\ ~(Len(f.buf) < 5)
  <2>1. RefillTag(d) = [go |-> TRUE, d |-> f]
    BY <1>1, <1>6
  <2>2. i < Len(s)
    BY <1>2, <1>6, HeadAt
  <2> QED
    BY <1>2, <2>1, <2>2
<1> QED
  BY <1>4, <1>5, <1>6

LEMMA RefillAt ==
  ASSUME NEW s \in Seq(Byte), NEW d \in DecState, NEW i \in Nat, At(s, d, i), WholeTag(s, i)
  PROVE  /\ At(s, MAYBE_REFILL(d).d, i)
         /\ MAYBE_REFILL(d).go <=> i < Len(s)
         /\ ~MAYBE_REFILL(d).go => MAYBE_REFILL(d).d.eof
<1>1. CASE Len(d.buf) >= 5
  <2>1. MAYBE_REFILL(d) = [go |-> TRUE, d |-> d]
    BY <1>1 DEF MAYBE_REFILL
  <2>2. d.buf \in Seq(Byte)
    BY DEF DecState
  <2>3. d.buf # <<>>
    BY <1>1, <2>2
  <2>4. i < Len(s)
    BY <2>3, HeadAt
  <2> QED
    BY <2>1, <2>4
<1>2. CASE ~(Len(d.buf) >= 5)
  BY <1>2, RefillTagAt DEF MAYBE_REFILL
<1> QED
  BY <1>1, <1>2

\* Every item begins with a whole tag, and at the end of the stream the text ends.
LEMMA ItemHasTag ==
  ASSUME NEW s \in Seq(Byte), NEW i \in Nat, NEW e \in Nat, NEW t \in Seq(Byte), NEW j \in Nat,
         NEW l \in Nat, ItemAt(s, i, e, t, j, l)
  PROVE  WholeTag(s, i)
<1>1. i < e /\ e <= Len(s) /\ j < l /\ Len(s) \in Nat
  BY DEF ItemAt
<1>2. CASE CopyItem(s, i, e, t, j, l)
  <2>1. PICK offset \in 1..j : CopyAt(s, i, e, l - j, offset)
    BY <1>2 DEF CopyItem
  <2>2. char_table(s[i + 1]).extra + 1 = e - i
    BY <1>1, <2>1, CopyNeeds
  <2> QED
    BY <1>1, <2>2 DEF WholeTag
<1>3. CASE LiteralItemAt(s, i, e, t, j, l)
  <2> DEFINE b == e - (l - j)
  <2>1. i + 1 <= b /\ LiteralAt(s, i, b, l - j)
    BY <1>3 DEF LiteralItemAt
  <2>2. b \in Nat /\ i < b /\ b <= Len(s)
    BY <1>1, <2>1
  <2> HIDE DEF b
  <2>3. char_table(s[i + 1]).extra + 1 = b - i
    BY <2>1, <2>2, LiteralNeeds
  <2> QED
    BY <1>1, <2>2, <2>3 DEF WholeTag
<1> QED
  BY <1>2, <1>3 DEF ItemAt

\* What is left in the buffer and the source tells the rest of the text: at a tag,
\* and in a literal.
TagText(s, t, d, op) ==
  \E i \in Nat : At(s, d, i) /\ Tells(s, i, t, op, Len(t))

LiteralText(s, t, d, op) ==
  \E i \in Nat :
    /\ At(s, d, i) /\ i + d.literal <= Len(s) /\ op + d.literal <= Len(t)
    /\ \A k \in 1..d.literal : s[i + k] = t[op + k]
    /\ Tells(s, i + d.literal, t, op + d.literal, Len(t))

DecodesText(p, s, t, d, w) ==
  /\ p \in {"tag", "literal"} => Holds(w, t) /\ w.expected = Len(t)
  /\ p = "tag" => TagText(s, t, d, w.op)
  /\ p = "literal" => LiteralText(s, t, d, w.op)
  /\ p = "ended" /\ ~d.short => d.eof /\ Holds(w, t) /\ w.op = Len(t) /\ w.expected = Len(t)

DecompressorText == input # <<>> => DecodesText(phase, stream, input, dec, out)

\* The end comes when the text is told.
LEMMA NextItemTells ==
  ASSUME NEW s \in Seq(Byte), NEW t \in Seq(Byte), NEW d \in DecState, NEW op \in Nat,
         TagText(s, t, d, op), NextItem(d)
  PROVE  /\ phase' \in {"tag", "ended"}
         /\ phase' = "tag" => TagText(s, t, dec', op)
         /\ phase' = "ended" => dec'.eof /\ op = Len(t)
<1> DEFINE r == MAYBE_REFILL(d)
<1>1. dec' = r.d /\ phase' = IF r.go THEN "tag" ELSE "ended"
  BY DEF NextItem
<1>2. PICK i \in Nat : At(s, d, i) /\ Tells(s, i, t, op, Len(t))
  BY DEF TagText
<1>3. Len(t) \in Nat /\ Len(s) \in Nat
  OBVIOUS
<1>4. \/ i = Len(s) /\ op = Len(t)
      \/ \E e \in Nat : \E l \in Nat : ItemAt(s, i, e, t, op, l)
  BY <1>2, TellsNext
<1>5. WholeTag(s, i) /\ (i < Len(s) \/ op = Len(t))
  <2>1. CASE i = Len(s) /\ op = Len(t)
    BY <1>3, <2>1 DEF WholeTag
  <2>2. CASE \E e \in Nat : \E l \in Nat : ItemAt(s, i, e, t, op, l)
    <3>1. PICK e \in Nat : \E l \in Nat : ItemAt(s, i, e, t, op, l)
      BY <2>2
    <3>2. PICK l \in Nat : ItemAt(s, i, e, t, op, l)
      BY <3>1
    <3>3. i < Len(s)
      BY <1>3, <3>2 DEF ItemAt
    <3> QED
      BY <3>2, <3>3, ItemHasTag
  <2> QED
    BY <1>4, <2>1, <2>2
<1>6. At(s, r.d, i) /\ (r.go <=> i < Len(s)) /\ (~r.go => r.d.eof)
  BY <1>2, <1>5, RefillAt
<1> HIDE DEF r
<1>7. CASE r.go
  <2>1. phase' = "tag" /\ TagText(s, t, dec', op)
    BY <1>1, <1>2, <1>6, <1>7 DEF TagText
  <2> QED
    BY <2>1
<1>8. CASE ~r.go
  <2>1. phase' = "ended" /\ dec'.eof /\ op = Len(t)
    BY <1>1, <1>5, <1>6, <1>8
  <2> QED
    BY <2>1
<1> QED
  BY <1>7, <1>8

LEMMA PutTells ==
  ASSUME NEW s \in Seq(Byte), NEW t \in Seq(Byte), NEW d \in DecState, NEW n \in Nat, NEW r,
         Holds(out, t), out.expected = Len(t), WritesText(r, out, t, n), out' \in WriterState,
         TagText(s, t, d, out.op + n), Put(r, d)
  PROVE  DecodesText(phase', s, t, dec', out')
<1> DEFINE op == out.op + n
<1>1. out.op \in Nat /\ op \in Nat
  BY DEF Holds, WriterState
<1>2. out' = r.w /\ NextItem(d)
  BY DEF Put, WritesText
<1>3. Holds(out', t) /\ out'.op = op /\ out'.expected = Len(t)
  BY <1>2 DEF Holds, WritesText
<1>4. TagText(s, t, d, op)
  OBVIOUS
<1> HIDE DEF op
<1>5. /\ phase' \in {"tag", "ended"}
      /\ phase' = "tag" => TagText(s, t, dec', op)
      /\ phase' = "ended" => dec'.eof /\ op = Len(t)
  BY <1>1, <1>2, <1>4, NextItemTells
<1> QED
  BY <1>3, <1>5 DEF DecodesText

\* What is left of a part is one.
LEMMA PartDropped ==
  ASSUME NEW s \in Seq(Byte), NEW b \in Seq(Byte), NEW i \in Nat, PartOf(b, s, i),
         NEW n \in Nat, n <= Len(b)
  PROVE  /\ Drop(b, n) \in Seq(Byte) /\ Len(Drop(b, n)) = Len(b) - n /\ PartOf(Drop(b, n), s, i + n)
<1> DEFINE c == Drop(b, n)
<1>1. /\ c \in Seq(Byte) /\ Len(c) = Len(b) - n /\ Len(b) \in Nat
      /\ \A k \in 1..Len(c) : c[k] = b[n + k]
  BY Dropped
<1> HIDE DEF c
<1>2. i + Len(b) <= Len(s) /\ \A k \in 1..Len(b) : b[k] = s[i + k]
  BY DEF PartOf
<1>3. \A k \in 1..Len(c) : n + k \in 1..Len(b) /\ i + (n + k) = (i + n) + k
  BY <1>1
<1>4. \A k \in 1..Len(c) : c[k] = s[(i + n) + k]
  BY <1>1, <1>2, <1>3
<1>5. (i + n) + Len(c) <= Len(s)
  BY <1>1, <1>2
<1> QED
  BY <1>1, <1>4, <1>5 DEF PartOf, c

LEMMA PartTail ==
  ASSUME NEW s \in Seq(Byte), NEW b \in Seq(Byte), NEW i \in Nat, PartOf(b, s, i), b # <<>>
  PROVE  /\ Tail(b) \in Seq(Byte) /\ Len(Tail(b)) = Len(b) - 1 /\ PartOf(Tail(b), s, i + 1)
<1> DEFINE c == Tail(b)
<1>1. /\ c \in Seq(Byte) /\ Len(c) = Len(b) - 1 /\ Len(b) \in Nat /\ Len(b) >= 1
      /\ \A k \in 1..Len(c) : c[k] = b[1 + k]
  OBVIOUS
<1> HIDE DEF c
<1>2. i + Len(b) <= Len(s) /\ \A k \in 1..Len(b) : b[k] = s[i + k]
  BY DEF PartOf
<1>3. \A k \in 1..Len(c) : 1 + k \in 1..Len(b) /\ i + (1 + k) = (i + 1) + k
  BY <1>1
<1>4. \A k \in 1..Len(c) : c[k] = s[(i + 1) + k]
  BY <1>1, <1>2, <1>3
<1>5. (i + 1) + Len(c) <= Len(s)
  BY <1>1, <1>2
<1> QED
  BY <1>1, <1>4, <1>5 DEF PartOf, c

\* n bytes of the buffer further on.
LEMMA MovedAt ==
  ASSUME NEW s \in Seq(Byte), NEW d \in DecState, NEW i \in Nat, At(s, d, i),
         NEW n \in Nat, NEW e, e.src = d.src, e.peeked = d.peeked,
         Len(e.buf) = Len(d.buf) - n, PartOf(e.buf, s, i + n)
  PROVE  At(s, e, i + n)
<1>1. d.buf \in Seq(Byte) /\ Len(d.buf) \in Nat
  <2>1. d.buf \in Seq(Byte)
    BY DEF DecState
  <2> QED
    BY <2>1
<1>2. (i + n) + Len(e.buf) = i + Len(d.buf)
  <2> DEFINE x == Len(d.buf)
             y == Len(e.buf)
  <2>1. x \in Nat /\ y = x - n
    BY <1>1
  <2> HIDE DEF x, y
  <2>2. (i + n) + y = i + x
    BY <2>1
  <2> QED
    BY <2>2 DEF x, y
<1> QED
  BY <1>2 DEF At

\* What the bytes of a copy's tag say, the table and the bytes behind it do.
LEMMA CopyReads ==
  ASSUME NEW s \in Seq(Byte), NEW i \in Nat, NEW e \in Nat, NEW n, NEW offset,
         i < e, e <= Len(s), CopyAt(s, i, e, n, offset),
         NEW b \in Seq(Byte), PartOf(b, s, i), e - i <= Len(b)
  PROVE  LET entry == char_table(s[i + 1]) IN
         entry.copy_offset * 256 + LittleEndian(SubSeq(b, 2, entry.extra + 1)) = offset
<1> DEFINE c == s[i + 1]
           entry == char_table(c)
           u == SubSeq(b, 2, entry.extra + 1)
<1>1. c \in Byte
  BY i + 1 \in 1..Len(s)
<1>2. i + Len(b) <= Len(s) /\ \A k \in 1..Len(b) : b[k] = s[i + k]
  BY DEF PartOf
<1>3. \A k \in 1..Len(s) : s[k] \in Nat
  BY BytesAreNumbers
<1>4. CASE e = i + 2 /\ ShortCopy(c, s[i + 2], n, offset)
  <2>1. c % 4 = 1 /\ offset = (c \div 32) * 256 + s[i + 2]
    BY <1>4 DEF ShortCopy
  <2>2. entry = MakeEntry(1, ((c \div 4) % 8) + 4, c \div 32)
    BY <1>1, <2>1, TagsInTable
  <2>3. entry.extra = 1 /\ entry.copy_offset = c \div 32
    BY <2>2 DEF MakeEntry
  <2>4. Len(b) >= 2 /\ b[2] = s[i + 2]
    BY <1>2, <1>4
  <2>5. SubSeq(b, 2, 1 + 1) \in Seq(Byte) /\ Len(SubSeq(b, 2, 1 + 1)) = 1
        /\ SubSeq(b, 2, 1 + 1)[1] = b[2]
    BY <2>4
  <2>6. LittleEndian(SubSeq(b, 2, 1 + 1)) = b[2]
    BY <2>5, LittleEndianSays
  <2> QED
    BY <2>1, <2>3, <2>4, <2>6
<1>5. CASE e = i + 3 /\ LongCopy(c, s[i + 2], s[i + 3], n, offset)
  <2>1. c % 4 = 2 /\ offset = s[i + 2] + 256 * s[i + 3]
    BY <1>5 DEF LongCopy
  <2>2. entry = MakeEntry(2, c \div 4 + 1, 0)
    BY <1>1, <2>1, TagsInTable
  <2>3. entry.extra = 2 /\ entry.copy_offset = 0
    BY <2>2 DEF MakeEntry
  <2>4. Len(b) >= 3 /\ b[2] = s[i + 2] /\ b[3] = s[i + 3]
    BY <1>2, <1>5
  <2>5. SubSeq(b, 2, 2 + 1) \in Seq(Byte) /\ Len(SubSeq(b, 2, 2 + 1)) = 2
        /\ SubSeq(b, 2, 2 + 1)[1] = b[2] /\ SubSeq(b, 2, 2 + 1)[2] = b[3]
    BY <2>4
  <2>6. LittleEndian(SubSeq(b, 2, 2 + 1)) = b[2] + 256 * b[3]
    <3> DEFINE x == SubSeq(b, 2, 2 + 1)
    <3>1. x \in Seq(Byte) /\ Len(x) = 2 /\ x[1] = b[2] /\ x[2] = b[3]
      BY <2>5
    <3> HIDE DEF x
    <3>2. LittleEndian(x) = x[1] + 256 * x[2]
      BY <3>1, LittleEndianSays
    <3>3. LittleEndian(x) = b[2] + 256 * b[3]
      BY <3>1, <3>2
    <3> QED
      BY <3>3 DEF x
  <2>7. offset \in Nat
    <3>1. i + 2 \in 1..Len(s) /\ i + 3 \in 1..Len(s)
      BY <1>5
    <3> DEFINE x == s[i + 2]
               y == s[i + 3]
    <3>2. x \in Nat /\ y \in Nat /\ offset = x + 256 * y
      BY <1>3, <2>1, <3>1
    <3> HIDE DEF x, y
    <3> QED
      BY <3>2
  <2> QED
    BY <2>1, <2>3, <2>4, <2>6, <2>7
<1> QED
  BY <1>4, <1>5 DEF CopyAt

\* So do the length of a long literal and the bytes it is in.
LEMMA LongReads ==
  ASSUME NEW s \in Seq(Byte), NEW i \in Nat, NEW b \in Nat, NEW n, LiteralAt(s, i, b, n),
         b # i + 1, NEW rest \in Seq(Byte), PartOf(rest, s, i + 1), (b - i) - 1 <= Len(rest),
         NEW len, len - 60 = (b - i) - 1
  PROVE  LongLiteral(len, rest) = n
<1> DEFINE m == len - 60
           bytes == SubSeq(rest, 1, m)
<1>1. (i + 1) + Len(rest) <= Len(s) /\ \A k \in 1..Len(rest) : rest[k] = s[(i + 1) + k]
  BY DEF PartOf
<1>2. LongLiteral(len, rest) =
        IF bytes = <<255, 255, 255, 255>> THEN 0 ELSE LittleEndian(bytes) + 1
  BY DEF LongLiteral
<1>3. CASE b = i + 2 /\ TwoByteTag(s[i + 1], s[i + 2], n)
  <2>1. m = 1 /\ n = s[i + 2] + 1
    BY <1>3 DEF TwoByteTag
  <2>2. Len(rest) >= 1 /\ rest[1] = s[i + 2]
    BY <1>1, <2>1
  <2> HIDE DEF m
  <2>3. bytes \in Seq(Byte) /\ Len(bytes) = 1 /\ bytes[1] = rest[1]
    BY <2>1, <2>2
  <2> HIDE DEF bytes
  <2>4. LittleEndian(bytes) = rest[1]
    BY <2>3, LittleEndianSays
  <2>5. bytes # <<255, 255, 255, 255>>
    <3>1. Len(<<255, 255, 255, 255>>) = 4
      OBVIOUS
    <3>2. Len(bytes) # Len(<<255, 255, 255, 255>>)
      BY <2>3, <3>1
    <3> QED
      BY <3>2, Zenon
  <2> QED
    BY <1>2, <2>1, <2>2, <2>4, <2>5
<1>4. CASE b = i + 3 /\ ThreeByteTag(s[i + 1], s[i + 2], s[i + 3], n)
  <2>1. m = 2 /\ n = s[i + 2] + 256 * s[i + 3] + 1
    BY <1>4 DEF ThreeByteTag
  <2>2. Len(rest) >= 2 /\ rest[1] = s[i + 2] /\ rest[2] = s[i + 3]
    BY <1>1, <2>1
  <2> HIDE DEF m
  <2>3. bytes \in Seq(Byte) /\ Len(bytes) = 2 /\ bytes[1] = rest[1] /\ bytes[2] = rest[2]
    BY <2>1, <2>2
  <2> HIDE DEF bytes
  <2>4. LittleEndian(bytes) = rest[1] + 256 * rest[2]
    BY <2>3, LittleEndianSays
  <2>5. bytes # <<255, 255, 255, 255>>
    <3>1. Len(<<255, 255, 255, 255>>) = 4
      OBVIOUS
    <3>2. Len(bytes) # Len(<<255, 255, 255, 255>>)
      BY <2>3, <3>1
    <3> QED
      BY <3>2, Zenon
  <2> QED
    BY <1>2, <2>1, <2>2, <2>4, <2>5
<1> QED
  BY <1>3, <1>4 DEF LiteralAt

\* The item at a tag that is at hand, and what it goes on with.
ItemNext(s, t, d, op, i, e, l) ==
  /\ At(s, d, i) /\ ItemAt(s, i, e, t, op, l) /\ Tells(s, e, t, l, Len(t))

LEMMA TagItem ==
  ASSUME NEW s \in Seq(Byte), NEW t \in Seq(Byte), NEW d \in DecState, d.buf # <<>>,
         NEW op \in Nat, TagText(s, t, d, op)
  PROVE  \E i \in Nat : \E e \in Nat : \E l \in Nat : ItemNext(s, t, d, op, i, e, l)
<1>1. PICK i \in Nat : At(s, d, i) /\ Tells(s, i, t, op, Len(t))
  BY DEF TagText
<1>2. i < Len(s) /\ Len(s) \in Nat
  BY <1>1, HeadAt
<1>3. \E e \in Nat : \E l \in Nat : ItemAt(s, i, e, t, op, l) /\ Tells(s, e, t, l, Len(t))
  <2>1. \/ i = Len(s) /\ op = Len(t)
        \/ \E e \in Nat : \E l \in Nat : ItemAt(s, i, e, t, op, l) /\ Tells(s, e, t, l, Len(t))
    BY <1>1, TellsNext
  <2> QED
    BY <1>2, <2>1
<1> QED
  BY <1>1, <1>3 DEF ItemNext

\* What the decompressor works with while it reads what was compressed.
LEMMA Reading ==
  ASSUME SnappyInv, DecompressorText, phase \in {"tag", "literal"}, input # <<>>
  PROVE  /\ stream \in Seq(Byte) /\ input \in Seq(Byte) /\ dec \in DecState
         /\ out.op \in Nat /\ Len(input) \in Nat /\ Len(stream) \in Nat
         /\ Holds(out, input) /\ out.expected = Len(input)
         /\ phase = "tag" => TagText(stream, input, dec, out.op) /\ dec.buf # <<>>
         /\ phase = "literal" => LiteralText(stream, input, dec, out.op)
<1>1. CompressorInv /\ DecompressorInv /\ DecodesText(phase, stream, input, dec, out)
  BY DEF SnappyInv, DecompressorText
<1>2. stream \in Seq(Byte) /\ input \in Seq(Byte) /\ dec \in DecState
  BY <1>1 DEF CompressorInv, DecompressorInv
<1>3. Holds(out, input) /\ out.expected = Len(input)
  BY <1>1 DEF DecodesText
<1>4. out.op \in Nat
  BY <1>3 DEF Holds, WriterState
<1>5. phase = "tag" => dec.buf # <<>>
  BY <1>1 DEF DecompressorInv, TagAtHand
<1>6. /\ phase = "tag" => TagText(stream, input, dec, out.op)
      /\ phase = "literal" => LiteralText(stream, input, dec, out.op)
  BY <1>1 DEF DecodesText
<1>7. Len(input) \in Nat /\ Len(stream) \in Nat
  BY <1>2
<1> QED
  BY <1>2, <1>3, <1>4, <1>5, <1>6, <1>7

LEMMA CopyTagTells ==
  ASSUME SnappyInv, DecompressorText, CopyTag, SnappyInv'
  PROVE  DecompressorText'
<1> DEFINE tag == Head(dec.buf)
           entry == char_table(tag)
           trailer == LittleEndian(SubSeq(dec.buf, 2, entry.extra + 1))
           offset == entry.copy_offset * 256 + trailer
           r == AppendFromSelf(out, offset, entry.len)
           rest == Drop(dec.buf, entry.extra + 1)
           d == [dec EXCEPT !.buf = rest]
           op == out.op
<1>1. phase = "tag" /\ tag % 4 # LITERAL /\ Put(r, d) /\ UNCHANGED <<input, kind, comp, stream>>
  BY DEF CopyTag
<1> SUFFICES ASSUME input # <<>> PROVE DecodesText(phase', stream, input, dec', out')
  BY <1>1 DEF DecompressorText
<1>2. /\ stream \in Seq(Byte) /\ input \in Seq(Byte) /\ dec \in DecState
      /\ op \in Nat /\ Len(input) \in Nat /\ Len(stream) \in Nat
      /\ Holds(out, input) /\ out.expected = Len(input)
      /\ TagText(stream, input, dec, op) /\ dec.buf # <<>>
  BY <1>1, Reading
<1>3. /\ dec.buf \in Seq(Byte) /\ Len(dec.buf) >= entry.extra + 1 /\ tag \in Byte
  BY <1>1, AtTag
<1>4. out' \in WriterState
  BY DEF SnappyInv, DecompressorInv
<1>5. PICK i \in Nat : \E e \in Nat : \E l \in Nat : ItemNext(stream, input, dec, op, i, e, l)
  BY <1>2, TagItem
<1>6. PICK e \in Nat : \E l \in Nat : ItemNext(stream, input, dec, op, i, e, l)
  BY <1>5
<1>7. PICK l \in Nat : ItemNext(stream, input, dec, op, i, e, l)
  BY <1>6
<1>8. /\ At(stream, dec, i) /\ ItemAt(stream, i, e, input, op, l)
      /\ Tells(stream, e, input, l, Len(input))
      /\ i < e /\ e <= Len(stream) /\ op < l /\ l <= Len(input)
  BY <1>7 DEF ItemNext, ItemAt
<1>9. tag = stream[i + 1] /\ PartOf(dec.buf, stream, i)
  BY <1>2, <1>8, HeadAt DEF At
<1>10. CopyItem(stream, i, e, input, op, l)
  <2>1. CASE LiteralItemAt(stream, i, e, input, op, l)
    <3> DEFINE b == e - (l - op)
    <3>1. i + 1 <= b /\ LiteralAt(stream, i, b, l - op)
      BY <2>1 DEF LiteralItemAt
    <3>2. b \in Nat /\ i < b /\ b <= Len(stream)
      BY <1>2, <1>8, <3>1
    <3> HIDE DEF b
    <3>3. stream[i + 1] % 4 = LITERAL
      BY <1>2, <3>1, <3>2, LiteralNeeds
    <3> QED
      BY <1>1, <1>9, <3>3
  <2> QED
    BY <1>8, <2>1 DEF ItemAt
<1> DEFINE n == l - op
<1>11. PICK far \in 1..op : CopyAt(stream, i, e, n, far) /\ \A k \in op + 1..l : input[k] = input[k - far]
  BY <1>10 DEF CopyItem
<1>12. n \in Nat /\ n >= 1 /\ op + n = l /\ far \in Nat /\ far >= 1 /\ far <= op
  BY <1>2, <1>8
<1>13. entry.extra + 1 = e - i /\ entry.len = n
  BY <1>2, <1>8, <1>9, <1>11, CopyNeeds
<1> HIDE DEF n
<1>14. offset = far
  <2>1. e - i <= Len(dec.buf)
    BY <1>3, <1>13
  <2> QED
    BY <1>2, <1>3, <1>8, <1>9, <1>11, <2>1, CopyReads
<1> HIDE DEF offset, entry
<1>15. WritesText(r, out, input, n)
  <2>1. \A k \in op + 1..op + n : input[k] = input[k - far]
    BY <1>11, <1>12
  <2> QED
    BY <1>2, <1>8, <1>12, <1>13, <1>14, <2>1, CopySays
<1>16. d \in DecState /\ TagText(stream, input, d, op + n)
  <2> DEFINE m == e - i
             left == Drop(dec.buf, m)
             x == [dec EXCEPT !.buf = left]
  <2>1. m \in Nat /\ m <= Len(dec.buf) /\ i + m = e
    BY <1>3, <1>8, <1>13
  <2>2. d = x
    BY <1>13
  <2> HIDE DEF m, d
  <2>3. left \in Seq(Byte) /\ Len(left) = Len(dec.buf) - m /\ PartOf(left, stream, i + m)
    BY <1>2, <1>3, <1>9, <2>1, PartDropped
  <2> HIDE DEF left
  <2>4. x \in DecState /\ x.src = dec.src /\ x.peeked = dec.peeked /\ x.buf = left
    BY <1>2, <2>3 DEF DecState
  <2> HIDE DEF x
  <2>5. At(stream, x, i + m)
    BY <1>2, <1>8, <2>1, <2>3, <2>4, MovedAt
  <2>6. TagText(stream, input, x, op + n)
    BY <1>8, <1>12, <2>1, <2>5 DEF TagText
  <2> QED
    BY <2>2, <2>4, <2>6
<1> HIDE DEF d, r
<1> QED
  BY <1>1, <1>2, <1>4, <1>12, <1>15, <1>16, PutTells

\* A state with another buffer, and with the length of a literal.
LEMMA SetBuf ==
  ASSUME NEW d \in DecState, NEW b \in Seq(Byte)
  PROVE  LET x == [d EXCEPT !.buf = b] IN
         x \in DecState /\ x.src = d.src /\ x.peeked = d.peeked /\ x.buf = b
BY DEF DecState

WithLiteral(d, b, n) == [d EXCEPT !.buf = b, !.literal = n]

LEMMA SetLiteral ==
  ASSUME NEW d \in DecState, NEW b \in Seq(Byte), NEW n \in Nat
  PROVE  LET x == WithLiteral(d, b, n) IN
         x \in DecState /\ x.src = d.src /\ x.peeked = d.peeked /\ x.buf = b /\ x.literal = n
BY DEF DecState, WithLiteral

LEMMA LiteralItemTells ==
  ASSUME SnappyInv, DecompressorText, LiteralItem, SnappyInv'
  PROVE  DecompressorText'
<1> DEFINE tag == Head(dec.buf)
           len == tag \div 4 + 1
           rest == Tail(dec.buf)
           fast == TryFastAppend(out, Validating, rest, len)
           behind == Drop(rest, len)
           after == Drop(rest, len - 60)
           long == LongLiteral(len, rest)
           d == [dec EXCEPT !.buf = behind]
           short == WithLiteral(dec, rest, len)
           other == WithLiteral(dec, after, long)
           op == out.op
<1>1. phase = "tag" /\ tag % 4 = LITERAL /\ UNCHANGED <<input, kind, comp, stream>>
      /\ \/ fast.ok /\ Put(fast, d)
         \/ /\ ~fast.ok
            /\ dec' = IF len < 61 THEN short ELSE other
            /\ phase' = "literal" /\ UNCHANGED <<out, reach>>
  BY DEF LiteralItem, WithLiteral
<1> SUFFICES ASSUME input # <<>> PROVE DecodesText(phase', stream, input, dec', out')
  BY <1>1 DEF DecompressorText
<1>2. /\ stream \in Seq(Byte) /\ input \in Seq(Byte) /\ dec \in DecState
      /\ op \in Nat /\ Len(input) \in Nat /\ Len(stream) \in Nat
      /\ Holds(out, input) /\ out.expected = Len(input)
      /\ TagText(stream, input, dec, op) /\ dec.buf # <<>>
  BY <1>1, Reading
<1>3. dec.buf \in Seq(Byte) /\ Len(dec.buf) >= char_table(tag).extra + 1 /\ tag \in Byte
  BY <1>1, AtTag
<1>4. out' \in WriterState
  BY DEF SnappyInv, DecompressorInv
<1>5. PICK i \in Nat : \E e \in Nat : \E l \in Nat : ItemNext(stream, input, dec, op, i, e, l)
  BY <1>2, TagItem
<1>6. PICK e \in Nat : \E l \in Nat : ItemNext(stream, input, dec, op, i, e, l)
  BY <1>5
<1>7. PICK l \in Nat : ItemNext(stream, input, dec, op, i, e, l)
  BY <1>6
<1>8. /\ At(stream, dec, i) /\ ItemAt(stream, i, e, input, op, l)
      /\ Tells(stream, e, input, l, Len(input))
      /\ i < e /\ e <= Len(stream) /\ op < l /\ l <= Len(input)
  BY <1>7 DEF ItemNext, ItemAt
<1>9. tag = stream[i + 1] /\ PartOf(dec.buf, stream, i)
  BY <1>2, <1>8, HeadAt DEF At
<1>10. LiteralItemAt(stream, i, e, input, op, l)
  <2>1. CASE CopyItem(stream, i, e, input, op, l)
    <3>1. PICK offset \in 1..op : CopyAt(stream, i, e, l - op, offset)
      BY <2>1 DEF CopyItem
    <3>2. stream[i + 1] % 4 # LITERAL
      BY <1>2, <1>8, <3>1, CopyNeeds
    <3> QED
      BY <1>1, <1>9, <3>2
  <2> QED
    BY <1>8, <2>1 DEF ItemAt
<1> DEFINE n == l - op
           b == e - n
<1>11. /\ i < b /\ LiteralAt(stream, i, b, n) /\ \A k \in 1..n : stream[b + k] = input[op + k]
       /\ n \in Nat /\ b \in Nat /\ b <= Len(stream) /\ op + n = l /\ b + n = e
  <2>1. /\ i + 1 <= b /\ LiteralAt(stream, i, b, n)
        /\ \A k \in 1..n : stream[b + k] = input[op + k]
    BY <1>10 DEF LiteralItemAt
  <2>2. n \in Nat /\ op + n = l
    BY <1>2, <1>8
  <2> HIDE DEF n
  <2>3. b \in Int /\ i + 1 <= b
    BY <2>1, <2>2
  <2>4. b \in Nat /\ i < b /\ b <= Len(stream) /\ b + n = e
    <3>1. b + n = e
      BY <2>2
    <3> HIDE DEF b
    <3> QED
      BY <1>2, <1>8, <2>2, <2>3, <3>1
  <2> HIDE DEF b
  <2> QED
    BY <2>1, <2>2, <2>4
<1> HIDE DEF n, b
<1>12. /\ char_table(tag).extra + 1 = b - i
       /\ b = i + 1 => len = n /\ len < 61
       /\ b # i + 1 => len - 60 = (b - i) - 1 /\ len >= 61
  BY <1>2, <1>9, <1>11, LiteralNeeds
<1>13. rest \in Seq(Byte) /\ Len(rest) = Len(dec.buf) - 1 /\ PartOf(rest, stream, i + 1)
       /\ Len(dec.buf) \in Nat
  BY <1>2, <1>3, <1>9, PartTail
<1>14. Len(rest) \in Nat
  BY <1>13
<1>15. len \in Nat
  BY <1>3, LiteralLengthIs
<1>18. dec \in DecState /\ stream \in Seq(Byte)
  BY <1>2
<1>19. rest \in Seq(Byte) /\ PartOf(rest, stream, i + 1)
  BY <1>13
<1>20. b \in Nat /\ LiteralAt(stream, i, b, n) /\ n \in Nat
  BY <1>11
<1> HIDE DEF rest, len, fast
<1>16. CASE fast.ok /\ Put(fast, d)
  <2>1. len <= 16 /\ len <= Len(rest) /\ b = i + 1 /\ len = n
    <3>1. len <= 16 /\ Len(rest) >= 16
      BY <1>16 DEF fast, TryFastAppend, Refused
    <3> QED
      BY <1>12, <1>14, <1>15, <3>1
  <2>2. \A k \in 1..len : rest[k] = input[op + k]
    <3>1. \A k \in 1..Len(rest) : rest[k] = stream[(i + 1) + k]
      BY <1>13 DEF PartOf
    <3>2. \A k \in 1..len : k \in 1..Len(rest) /\ k \in 1..n
      BY <1>14, <1>15, <2>1
    <3>3. \A k \in 1..n : stream[(i + 1) + k] = input[op + k]
      BY <1>11, <2>1
    <3> QED
      BY <3>1, <3>2, <3>3
  <2>3. WritesText(fast, out, input, len)
    <3> DEFINE v == Validating
    <3>1. fast = TryFastAppend(out, v, rest, len)
      BY DEF fast
    <3> HIDE DEF v
    <3>2. op + len <= Len(input)
      BY <1>8, <1>11, <2>1
    <3> QED
      BY <1>2, <1>13, <1>15, <1>16, <2>1, <2>2, <3>1, <3>2, FastAppendSays
  <2>4. behind \in Seq(Byte) /\ Len(behind) = Len(rest) - len /\ PartOf(behind, stream, (i + 1) + len)
    BY <1>2, <1>13, <1>15, <2>1, PartDropped
  <2> HIDE DEF behind
  <2>5. d \in DecState /\ d.src = dec.src /\ d.peeked = dec.peeked /\ d.buf = behind
    BY <1>2, <2>4, SetBuf
  <2> HIDE DEF d
  <2>6. TagText(stream, input, d, op + len)
    <3> DEFINE m == 1 + len
    <3>1. m \in Nat /\ i + m = e /\ (i + 1) + len = i + m /\ Len(behind) = Len(dec.buf) - m
      BY <1>11, <1>13, <1>15, <2>1, <2>4
    <3> HIDE DEF m
    <3>2. At(stream, d, i + m)
      BY <1>2, <1>8, <2>4, <2>5, <3>1, MovedAt
    <3>3. op + len = l
      BY <1>11, <2>1
    <3> QED
      BY <1>8, <3>1, <3>2, <3>3 DEF TagText
  <2> QED
    BY <1>2, <1>4, <1>15, <1>16, <2>3, <2>5, <2>6, PutTells
<1>17. CASE /\ dec' = IF len < 61 THEN short ELSE other
            /\ phase' = "literal" /\ UNCHANGED <<out, reach>>
  <2>1. dec'.src = dec.src /\ dec'.peeked = dec.peeked /\ dec'.literal = n
        /\ Len(dec'.buf) = Len(dec.buf) - (b - i) /\ PartOf(dec'.buf, stream, b)
    <3>1. CASE b = i + 1
      <4>1. len = n /\ dec' = short /\ b - i = 1
        BY <1>11, <1>12, <1>17, <3>1
      <4>2. short.src = dec.src /\ short.peeked = dec.peeked /\ short.buf = rest /\ short.literal = len
        <5> DEFINE count == len
                   text == rest
        <5>1. count \in Nat /\ text \in Seq(Byte) /\ dec \in DecState
          BY <1>15, <1>18, <1>19
        <5>2. short = WithLiteral(dec, text, count) /\ text = rest /\ count = len
          OBVIOUS
        <5> HIDE DEF text, count, short
        <5>3. /\ WithLiteral(dec, text, count).src = dec.src
              /\ WithLiteral(dec, text, count).peeked = dec.peeked
              /\ WithLiteral(dec, text, count).buf = text
              /\ WithLiteral(dec, text, count).literal = count
          BY <5>1, SetLiteral
        <5> QED
          BY <5>2, <5>3
      <4> HIDE DEF short
      <4> QED
        BY <1>13, <3>1, <4>1, <4>2
    <3>2. CASE b # i + 1
      <4> DEFINE m == len - 60
      <4>1. dec' = other /\ m = (b - i) - 1 /\ m \in Nat /\ m <= Len(rest) /\ (i + 1) + m = b
        <5>1. len >= 61 /\ len - 60 = (b - i) - 1
          BY <1>12, <3>2
        <5>2. dec' = other
          BY <1>15, <1>17, <5>1
        <5>3. b - i <= Len(dec.buf)
          BY <1>3, <1>12
        <5>4. m = (b - i) - 1 /\ m \in Nat
          BY <1>11, <3>2, <5>1
        <5> HIDE DEF m
        <5>5. m <= Len(rest) /\ (i + 1) + m = b
          <6> DEFINE x == Len(dec.buf)
                     y == Len(rest)
          <6>1. x \in Nat /\ y = x - 1 /\ b - i <= x
            BY <1>13, <5>3
          <6> HIDE DEF x, y
          <6>2. m <= y /\ (i + 1) + m = b
            BY <1>11, <5>4, <6>1
          <6> QED
            BY <6>2 DEF y
        <5> QED
          BY <5>2, <5>4, <5>5
      <4>2. long = n
        <5>1. len - 60 = (b - i) - 1 /\ (b - i) - 1 <= Len(rest)
          BY <4>1
        <5> QED
          BY <1>18, <1>19, <1>20, <3>2, <5>1, LongReads
      <4>5. after = Drop(rest, m)
        OBVIOUS
      <4>7. m \in Nat /\ m <= Len(rest) /\ i + 1 \in Nat
        BY <4>1
      <4> HIDE DEF m, after
      <4>3. after \in Seq(Byte) /\ Len(after) = Len(rest) - m /\ PartOf(after, stream, (i + 1) + m)
        BY <1>18, <1>19, <4>5, <4>7, PartDropped
      <4> HIDE DEF long
      <4>4. other.src = dec.src /\ other.peeked = dec.peeked /\ other.buf = after /\ other.literal = n
        BY <1>18, <1>20, <4>2, <4>3, SetLiteral
      <4> HIDE DEF other
      <4>6. Len(dec'.buf) = Len(dec.buf) - (b - i)
        BY <1>11, <1>13, <4>1, <4>3, <4>4
      <4> QED
        BY <4>1, <4>3, <4>4, <4>6
    <3> QED
      BY <3>1, <3>2
  <2>2. At(stream, dec', b)
    <3> DEFINE m == b - i
    <3>1. m \in Nat /\ i + m = b
      BY <1>11
    <3> HIDE DEF m
    <3>2. Len(dec'.buf) = Len(dec.buf) - m
      BY <2>1 DEF m
    <3>3. PartOf(dec'.buf, stream, i + m)
      BY <2>1, <3>1
    <3>4. At(stream, dec', i + m)
      BY <1>2, <1>8, <2>1, <3>1, <3>2, <3>3, MovedAt
    <3> QED
      BY <3>1, <3>4
  <2>3. LiteralText(stream, input, dec', op)
    BY <1>8, <1>11, <2>1, <2>2 DEF LiteralText
  <2>4. out' = out /\ phase' = "literal"
    BY <1>17
  <2> QED
    BY <1>2, <2>3, <2>4 DEF DecodesText
<1> HIDE DEF d, short, other
<1> QED
  BY <1>1, <1>16, <1>17

\* The next fragment of a literal.
WithFragment(d, src, b, m, n) ==
  [d EXCEPT !.src = src, !.buf = b, !.peeked = m, !.literal = n]

LEMMA SetFragment ==
  ASSUME NEW d \in DecState, NEW src \in ByteSource, NEW b \in Seq(Byte), NEW m \in Nat, NEW n \in Nat
  PROVE  LET x == WithFragment(d, src, b, m, n) IN
         x.src = src /\ x.peeked = m /\ x.buf = b /\ x.literal = n
BY DEF DecState, WithFragment

LEMMA LiteralChunkTells ==
  ASSUME SnappyInv, DecompressorText, LiteralChunk, SnappyInv'
  PROVE  DecompressorText'
<1> DEFINE avail == Len(dec.buf)
           count == dec.literal
           taken == Take(dec.buf, count)
           behind == Drop(dec.buf, count)
           chunk == Append_(out, taken)
           src == Skip(dec.src, dec.peeked)
           peek == Peek(src)
           size == Len(peek)
           left == count - avail
           d == WithLiteral(dec, behind, 0)
           next == WithFragment(dec, src, peek, size, left)
           op == out.op
<1>1. phase = "literal" /\ UNCHANGED <<input, kind, comp, stream>>
      /\ \/ avail >= count /\ Put(chunk, d)
         \/ /\ avail < count /\ out' = chunk.w /\ dec' = next
            /\ phase' = IF chunk.ok /\ next.buf # <<>> THEN "literal" ELSE "ended"
  BY DEF LiteralChunk, WithLiteral, WithFragment
<1> SUFFICES ASSUME input # <<>> PROVE DecodesText(phase', stream, input, dec', out')
  BY <1>1 DEF DecompressorText
<1>2. /\ stream \in Seq(Byte) /\ input \in Seq(Byte) /\ dec \in DecState
      /\ op \in Nat /\ Len(input) \in Nat /\ Len(stream) \in Nat
      /\ Holds(out, input) /\ out.expected = Len(input)
      /\ LiteralText(stream, input, dec, op)
  BY <1>1, Reading
<1>3. out' \in WriterState
  BY DEF SnappyInv, DecompressorInv
<1>4. /\ dec.buf \in Seq(Byte) /\ count \in Nat /\ dec.src \in ByteSource /\ dec.peeked \in Nat
      /\ dec.src.pos \in Nat /\ avail \in Nat
  <2>1. dec.buf \in Seq(Byte) /\ count \in Nat /\ dec.src \in ByteSource /\ dec.peeked \in Nat
    BY <1>2 DEF DecState
  <2> QED
    BY <2>1 DEF ByteSource
<1>5. PICK i \in Nat :
        /\ At(stream, dec, i) /\ i + count <= Len(stream) /\ op + count <= Len(input)
        /\ \A k \in 1..count : stream[i + k] = input[op + k]
        /\ Tells(stream, i + count, input, op + count, Len(input))
  BY <1>2 DEF LiteralText
<1>6. /\ PartOf(dec.buf, stream, i) /\ dec.src.bytes = stream /\ i + avail = dec.src.pos + dec.peeked
      /\ i + avail <= Len(stream) /\ \A k \in 1..avail : dec.buf[k] = stream[i + k]
  BY <1>5 DEF At, PartOf
<1> DEFINE m == Least(count, avail)
<1>7. m \in Nat /\ m <= count /\ m <= avail
  BY <1>4 DEF Least
<1>8. taken \in Seq(Byte) /\ Len(taken) = m /\ \A k \in 1..m : taken[k] = input[op + k]
  <2>1. taken \in Seq(Byte) /\ Len(taken) = m /\ \A k \in 1..m : taken[k] = dec.buf[k]
    BY <1>4, Taken
  <2> HIDE DEF m, taken, count, avail
  <2>2. \A k \in 1..m : k \in 1..avail /\ k \in 1..count
    BY <1>4, <1>7
  <2> QED
    BY <1>5, <1>6, <2>1, <2>2
<1> HIDE DEF taken
<1>9. WritesText(chunk, out, input, m)
  <2>1. op + Len(taken) <= out.expected
    BY <1>2, <1>4, <1>5, <1>7, <1>8
  <2>2. \A k \in 1..Len(taken) : taken[k] = input[op + k]
    BY <1>8
  <2>3. WritesText(chunk, out, input, Len(taken))
    BY <1>2, <1>8, <2>1, <2>2, AppendSays
  <2> QED
    BY <1>8, <2>3
<1> HIDE DEF chunk
<1>10. dec \in DecState /\ stream \in Seq(Byte)
  BY <1>2
<1>11. CASE avail >= count /\ Put(chunk, d)
  <2>1. m = count /\ count <= avail /\ 0 \in Nat
    BY <1>4, <1>11 DEF Least
  <2>2. behind \in Seq(Byte) /\ Len(behind) = avail - count /\ PartOf(behind, stream, i + count)
    <3>1. dec.buf \in Seq(Byte) /\ PartOf(dec.buf, stream, i) /\ count \in Nat
      BY <1>4, <1>6
    <3> HIDE DEF count
    <3> QED
      BY <1>10, <2>1, <3>1, PartDropped
  <2> HIDE DEF behind
  <2>3. d \in DecState /\ d.src = dec.src /\ d.peeked = dec.peeked /\ d.buf = behind
    BY <1>10, <2>1, <2>2, SetLiteral
  <2> HIDE DEF d
  <2>4. At(stream, d, i + count)
    <3> HIDE DEF count
    <3> QED
      BY <1>4, <1>5, <1>10, <2>2, <2>3, MovedAt
  <2>5. TagText(stream, input, d, op + m)
    <3>1. i + count \in Nat
      BY <1>4
    <3> QED
      BY <1>5, <2>1, <2>4, <3>1 DEF TagText
  <2> HIDE DEF m
  <2> QED
    BY <1>2, <1>3, <1>7, <1>9, <1>11, <2>3, <2>5, PutTells
<1>12. CASE /\ avail < count /\ out' = chunk.w /\ dec' = next
            /\ phase' = IF chunk.ok /\ next.buf # <<>> THEN "literal" ELSE "ended"
  <2>1. m = avail /\ left \in Nat /\ i + avail \in Nat /\ i + avail < Len(stream)
        /\ (i + avail) + left = i + count /\ (op + avail) + left = op + count
        /\ \A k \in 1..left : avail + k \in 1..count /\ (i + avail) + k = i + (avail + k)
                              /\ (op + avail) + k = op + (avail + k)
    <3>1. avail < count /\ i + count <= Len(stream)
      BY <1>5, <1>12
    <3>2. m = avail
      BY <1>4, <3>1 DEF Least
    <3>3. count \in Nat /\ avail \in Nat /\ Len(stream) \in Nat
      BY <1>2, <1>4
    <3> HIDE DEF avail, count, m
    <3>4. left \in Nat /\ i + avail \in Nat /\ i + avail < Len(stream) /\ avail + left = count
      BY <3>1, <3>3
    <3>5. op \in Nat
      BY <1>2
    <3> HIDE DEF left, op
    <3>6. (i + avail) + left = i + count /\ (op + avail) + left = op + count
      BY <3>3, <3>4, <3>5
    <3>7. \A k \in 1..left : avail + k \in 1..count /\ (i + avail) + k = i + (avail + k)
                              /\ (op + avail) + k = op + (avail + k)
      BY <3>3, <3>4, <3>5
    <3> QED
      BY <3>2, <3>4, <3>6, <3>7
  <2>2. src \in ByteSource /\ src.bytes = stream /\ src.pos = i + avail
    BY <1>4, <1>6, SkipIs
  <2> HIDE DEF src
  <2>3. peek \in Seq(Byte) /\ Len(peek) >= 1 /\ PartOf(peek, stream, i + avail)
    BY <2>1, <2>2, PeekIs
  <2> HIDE DEF peek
  <2>4. size \in Nat /\ peek # <<>>
    BY <2>3
  <2> HIDE DEF size, left
  <2>5. next.src = src /\ next.peeked = size /\ next.buf = peek /\ next.literal = left
    BY <1>10, <2>1, <2>2, <2>3, <2>4, SetFragment
  <2> HIDE DEF next
  <2>6. At(stream, next, i + avail)
    BY <2>2, <2>3, <2>5 DEF At, size
  <2>7. \A k \in 1..left : stream[(i + avail) + k] = input[(op + avail) + k]
    BY <1>5, <2>1
  <2>8. Holds(out', input) /\ out'.op = op + avail /\ out'.expected = Len(input) /\ chunk.ok
    BY <1>2, <1>3, <1>9, <1>12, <2>1 DEF Holds, WritesText
  <2>9. LiteralText(stream, input, next, op + avail)
    <3> HIDE DEF avail, count
    <3> QED
      BY <1>5, <2>1, <2>5, <2>6, <2>7 DEF LiteralText
  <2>10. phase' = "literal" /\ dec' = next
    BY <1>12, <2>4, <2>5, <2>8
  <2> QED
    BY <2>8, <2>9, <2>10 DEF DecodesText
<1> HIDE DEF d, next
<1> QED
  BY <1>1, <1>11, <1>12

LEMMA OpensTells ==
  ASSUME SnappyInv, CompressorText, Len(input) <= MaxMem, Opens, SnappyInv'
  PROVE  DecompressorText'
<1> DEFINE v == Len(input)
           n == Len(Encode32(v))
           length == ReadUncompressedLength(stream)
           Opened(caller, fragment, room) ==
             LET d == [src |-> Skip(Source(stream, fragment), length.size), buf |-> <<>>, peeked |-> 0,
                       literal |-> 0, eof |-> FALSE, caller |-> caller,
                       short |-> caller = "snappy_uncompress" /\ room < length.value]
             IN  IF length.ok /\ Admits(caller, room)
                 THEN /\ out' = [mem |-> [i \in 1..Least(length.value, MaxMem) |-> 0], op |-> 0,
                                 expected |-> length.value]
                      /\ NextItem(d)
                 ELSE dec' = d /\ phase' = "ended" /\ UNCHANGED out
<1>1. phase = "open" /\ UNCHANGED <<input, kind, comp, stream, reach>>
  BY DEF Opens
<1> SUFFICES ASSUME input # <<>> PROVE DecodesText(phase', stream, input, dec', out')
  BY <1>1 DEF DecompressorText
<1>2. /\ stream \in Seq(Byte) /\ input \in Seq(Byte) /\ v \in Nat /\ v < Huge
      /\ InFront(Encode32(v), stream) /\ Tells(stream, n, input, 0, v)
  <2>1. stream \in Seq(Byte) /\ input \in Seq(Byte) /\ v < Huge
    BY DEF SnappyInv, CompressorInv
  <2>2. HeadTells(stream, input, v)
    BY <1>1 DEF CompressorText
  <2> QED
    BY <2>1, <2>2 DEF HeadTells
<1>3. length = [ok |-> TRUE, value |-> v, size |-> n] /\ Parse32(stream) = [ok |-> TRUE, value |-> v, size |-> n]
  BY <1>2, LengthInFront
<1>4. n \in Nat /\ n <= Len(stream)
  <2>1. Encode32(v) \in Seq(Byte)
    BY <1>2, EncodedIs
  <2> QED
    BY <1>2, <2>1 DEF InFront
<1>5. PICK caller \in Caller : \E fragment \in Fragments(caller) :
        \E room \in {length.value, Larger(length.value, 1) - 1} : Opened(caller, fragment, room)
  BY DEF Opens
<1>6. PICK fragment \in Fragments(caller) :
        \E room \in {length.value, Larger(length.value, 1) - 1} : Opened(caller, fragment, room)
  BY <1>5
<1>7. PICK room \in {length.value, Larger(length.value, 1) - 1} : Opened(caller, fragment, room)
  BY <1>6
<1> DEFINE short == caller = "snappy_uncompress" /\ room < length.value
           src == Skip(Source(stream, fragment), length.size)
           d == [src |-> src, buf |-> <<>>, peeked |-> 0, literal |-> 0, eof |-> FALSE,
                 caller |-> caller, short |-> short]
           mem == [i \in 1..Least(length.value, MaxMem) |-> 0]
           w == [mem |-> mem, op |-> 0, expected |-> length.value]
<1>8. IF length.ok /\ Admits(caller, room) THEN out' = w /\ NextItem(d)
      ELSE dec' = d /\ phase' = "ended" /\ UNCHANGED out
  BY <1>7
<1> HIDE DEF length, n, v
<1>9. length.ok /\ length.value = v /\ length.size = n /\ Parse32(stream).ok /\ Parse32(stream).value = v
  BY <1>3
<1>10. room \in Int
  <2>1. Larger(length.value, 1) \in Nat
    BY <1>2, <1>9 DEF Larger
  <2> QED
    BY <1>2, <1>7, <1>9, <2>1
<1>11. CASE Admits(caller, room)
  <2>1. out' = w /\ NextItem(d)
    BY <1>8, <1>9, <1>11
  <2>2. src \in ByteSource /\ src.bytes = stream /\ src.pos = n
    <3>1. fragment \in Nat \ {0}
      <4>1. Len(stream) \in Nat
        BY <1>2
      <4>2. Larger(Len(stream), 1) \in Nat \ {0}
        BY <4>1 DEF Larger
      <4>3. fragment \in Fragment \/ fragment = Larger(Len(stream), 1)
        BY <1>6 DEF Fragments
      <4> QED
        BY <4>2, <4>3, SnappyAssumption
    <3> DEFINE whole == Source(stream, fragment)
    <3>2. whole \in ByteSource /\ whole.bytes = stream /\ whole.pos = 0
      BY <1>2, <3>1, 0 \in Nat DEF Source, ByteSource
    <3> HIDE DEF whole
    <3>3. Skip(whole, n) \in ByteSource /\ Skip(whole, n).bytes = stream /\ Skip(whole, n).pos = 0 + n
      BY <1>4, <3>2, SkipIs
    <3>4. src = Skip(whole, n)
      BY <1>9 DEF whole
    <3> HIDE DEF src
    <3> QED
      BY <1>4, <3>3, <3>4
  <2>3. d \in DecState
    <3>1. short \in BOOLEAN
      BY Zenon
    <3>2. <<>> \in Seq(Byte) /\ 0 \in Nat /\ FALSE \in BOOLEAN /\ caller \in Caller \cup {"none"}
      BY <1>5
    <3> HIDE DEF short, src
    <3> QED
      BY <2>2, <3>1, <3>2 DEF DecState
  <2>4. d.src = src /\ d.buf = <<>> /\ d.peeked = 0
    OBVIOUS
  <2> HIDE DEF d
  <2>5. At(stream, d, n)
    <3>1. Len(<<>>) = 0 /\ n + 0 = n
      BY <1>4
    <3>2. PartOf(<<>>, stream, n)
      BY <1>4, <3>1 DEF PartOf
    <3> HIDE DEF src
    <3> QED
      BY <1>4, <2>2, <2>4, <3>1, <3>2 DEF At
  <2>6. TagText(stream, input, d, 0)
    BY <1>2, <1>4, <2>5 DEF TagText, v
  <2>7. /\ phase' \in {"tag", "ended"}
        /\ phase' = "tag" => TagText(stream, input, dec', 0)
        /\ phase' = "ended" => dec'.eof /\ 0 = Len(input)
    BY <1>2, <2>1, <2>3, <2>6, NextItemTells
  <2>8. Len(mem) = v
    <3>1. Least(length.value, MaxMem) = v
      BY <1>2, <1>9, SnappyAssumption DEF Least, v
    <3>2. mem = [i \in 1..v |-> 0]
      BY <3>1
    <3> HIDE DEF mem
    <3> QED
      BY <1>2, <3>2
  <2> HIDE DEF mem
  <2>9. out' = w /\ w.mem = mem /\ w.op = 0 /\ w.expected = v /\ out' \in WriterState
    BY <1>9, <2>1 DEF SnappyInv, DecompressorInv
  <2> HIDE DEF w
  <2>10. Holds(out', input)
    BY <2>8, <2>9 DEF Holds, Agrees
  <2> QED
    BY <2>7, <2>9, <2>10 DEF DecodesText, v
<1>12. CASE ~Admits(caller, room)
  <2>1. caller = "snappy_uncompress" /\ ~(room >= v)
    BY <1>9, <1>12 DEF Admits, Uncompress, snappy_uncompress
  <2>2. short
    BY <1>2, <1>9, <1>10, <2>1
  <2>3. dec' = d /\ phase' = "ended" /\ d.short = short
    BY <1>8, <1>12
  <2> HIDE DEF short, d
  <2> QED
    BY <2>2, <2>3 DEF DecodesText
<1> QED
  BY <1>11, <1>12

\* What was decompressed is not touched while a block is compressed.
LEMMA CompressorTextKept ==
  ASSUME CompressorText, UNCHANGED <<input, stream>>,
         phase \in {"open", "tag", "literal"}, phase' \in {"tag", "literal", "ended"}
  PROVE  CompressorText'
BY DEF CompressorText

\* What is compressed is a text that memory has room for, and the state of both
\* sides tells it.
TextInv ==
  /\ SnappyInv /\ Len(input) <= MaxMem
  /\ CompressorText /\ DecompressorText

LEMMA TextStarts ==
  ASSUME \A s \in Inputs : Len(s) <= MaxMem, SnappyInit
  PROVE  TextInv
<1>1. SnappyInv /\ CompressorText
  BY SnappyStarts, StartTells
<1>2. phase \in {"block", "open"} /\ (input \in Inputs \/ input = <<>>)
      /\ (phase = "open" => input = <<>>)
  BY DEF SnappyInit
<1>3. Len(input) <= MaxMem
  <2>1. Len(<<>>) = 0 /\ MaxMem \in Nat
    BY SnappyAssumption
  <2> QED
    BY <1>2, <2>1
<1>4. DecompressorText
  BY <1>2 DEF DecompressorText, DecodesText
<1> QED
  BY <1>1, <1>3, <1>4 DEF TextInv

LEMMA CompressingTells ==
  ASSUME TextInv, SnappyInv', CompressorText', phase' \in {"block", "scan", "match", "remainder", "open"},
         UNCHANGED input
  PROVE  TextInv'
BY DEF TextInv, DecompressorText, DecodesText

LEMMA DecompressingTells ==
  ASSUME TextInv, SnappyInv', DecompressorText', UNCHANGED <<input, stream>>,
         phase \in {"open", "tag", "literal"}, phase' \in {"tag", "literal", "ended"}
  PROVE  TextInv'
BY CompressorTextKept DEF TextInv

LEMMA TextStutters ==
  ASSUME TextInv, UNCHANGED snappyVars
  PROVE  TextInv'
<1>1. UNCHANGED <<phase, input, comp, stream, dec, out>> /\ SnappyInv'
  BY SnappyStutters DEF snappyVars, TextInv
<1>2. CompressorText'
  BY <1>1 DEF TextInv, CompressorText
<1>3. DecompressorText'
  BY <1>1 DEF TextInv, DecompressorText
<1> QED
  BY <1>1, <1>2, <1>3 DEF TextInv

LEMMA TextKept ==
  ASSUME TextInv, [SnappyNext]_snappyVars
  PROVE  TextInv'
<1>1. SnappyInv /\ CompressorText /\ DecompressorText /\ Len(input) <= MaxMem
  BY DEF TextInv
<1>2. CASE NextBlock
  <2>1. UNCHANGED input /\ phase' \in {"scan", "remainder", "open"}
    BY <1>2, Zenon DEF NextBlock
  <2> QED
    BY <1>1, <1>2, <2>1, NextBlockKeeps, NextBlockTells, CompressingTells
<1>3. CASE Scan
  <2>1. UNCHANGED input /\ phase' \in {"scan", "remainder", "match"}
    BY <1>3 DEF Scan
  <2> QED
    BY <1>1, <1>3, <2>1, ScanKeeps, ScanTells, CompressingTells
<1>4. CASE Match
  <2>1. UNCHANGED input /\ phase' \in {"scan", "remainder", "match"}
    BY <1>4 DEF Match
  <2> QED
    BY <1>1, <1>4, <2>1, MatchKeeps, MatchTells, CompressingTells
<1>5. CASE Remainder
  <2>1. UNCHANGED input /\ phase' = "block"
    BY <1>5 DEF Remainder
  <2> QED
    BY <1>1, <1>5, <2>1, RemainderKeeps, RemainderTells, CompressingTells
<1>6. CASE Opens
  <2>1. UNCHANGED <<input, stream>> /\ phase = "open" /\ phase' \in {"tag", "ended"}
    BY <1>6 DEF Opens, NextItem
  <2> QED
    BY <1>1, <1>6, <2>1, OpensKeeps, OpensTells, DecompressingTells
<1>7. CASE LiteralItem
  <2>1. UNCHANGED <<input, stream>> /\ phase = "tag" /\ phase' \in {"tag", "literal", "ended"}
    BY <1>7 DEF LiteralItem, Put, NextItem
  <2> QED
    BY <1>1, <1>7, <2>1, LiteralItemKeeps, LiteralItemTells, DecompressingTells
<1>8. CASE LiteralChunk
  <2>1. UNCHANGED <<input, stream>> /\ phase = "literal" /\ phase' \in {"tag", "literal", "ended"}
    BY <1>8 DEF LiteralChunk, Put, NextItem
  <2> QED
    BY <1>1, <1>8, <2>1, LiteralChunkKeeps, LiteralChunkTells, DecompressingTells
<1>9. CASE CopyTag
  <2>1. UNCHANGED <<input, stream>> /\ phase = "tag" /\ phase' \in {"tag", "ended"}
    BY <1>9 DEF CopyTag, Put, NextItem
  <2> QED
    BY <1>1, <1>9, <2>1, CopyTagKeeps, CopyTagTells, DecompressingTells
<1>10. CASE UNCHANGED snappyVars
  BY <1>10, TextStutters
<1> QED
  BY <1>2, <1>3, <1>4, <1>5, <1>6, <1>7, <1>8, <1>9, <1>10 DEF SnappyNext

LEMMA TextComesBack ==
  ASSUME TextInv
  PROVE  SnappyGivesBack
<1>1. NothingBeyond /\ MatchesAreBehind
  BY DEF TextInv, SnappyInv, CompressorInv, Scanning, Matching, MatchesAreBehind
<1>2. ASSUME phase = "ended", input # <<>>, ~dec.short
      PROVE  Accepted /\ out.mem = input
  <2>1. dec.eof /\ Holds(out, input) /\ out.op = Len(input) /\ out.expected = Len(input)
    BY <1>2 DEF TextInv, DecompressorText, DecodesText
  <2> DEFINE mem == out.mem
  <2>2. mem \in Seq(Byte) /\ input \in Seq(Byte) /\ Len(mem) = Len(input)
    BY <2>1 DEF TextInv, SnappyInv, CompressorInv, Holds, WriterState
  <2>3. \A k \in 1..Len(mem) : mem[k] = input[k]
    BY <2>1, <2>2 DEF Holds, Agrees
  <2> HIDE DEF mem
  <2>4. mem = input
    BY <2>2, <2>3, SameText
  <2> QED
    BY <1>2, <2>1, <2>4 DEF Accepted, mem
<1>3. RoundTrip
  BY <1>2 DEF RoundTrip
<1> QED
  BY <1>1, <1>3 DEF SnappyGivesBack

\* Whatever is compressed comes back: for any hash function, size of a block and
\* fragments, what was compressed is read to its end, accepted, and written as it
\* was, by any of the callers with room for it; inside the memory there is
\* (Compress, RawUncompress, Uncompress, snappy_uncompress).
THEOREM SnappyComesBack ==
  ASSUME \A s \in Inputs : Len(s) <= MaxMem
  PROVE  SnappySpec => []SnappyGivesBack
<1>1. SnappyInit => TextInv
  BY TextStarts
<1>2. TextInv /\ [SnappyNext]_snappyVars => TextInv'
  BY TextKept
<1>3. TextInv => SnappyGivesBack
  BY TextComesBack
<1> QED
  BY <1>1, <1>2, <1>3, PTL DEF SnappySpec
===============================================================================
