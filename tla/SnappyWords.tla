----------------------------- MODULE SnappyWords -----------------------------
(***************************************************************************)
(* What Snappy does word by word (snappy-internal.h, snappy-stubs-         *)
(* internal.h, snappy.cc): loads and stores on hosts of either byte order, *)
(* bit scans, match lengths, and the hash table of a block.  Snappy takes  *)
(* these for what they are meant to do; here they do it in words.          *)
(* A word is the sequence of its bytes, the least significant first.       *)
(* Each call leaves its arguments and its result in wcall.                 *)
(***************************************************************************)
EXTENDS Bytes, Integers, SequencesExt, FiniteSetsExt

CONSTANTS
  Memories,     \* bound: memories, as byte sequences
  Numbers32,    \* bound: words of 4 bytes
  BlockLengths  \* bound: the lengths of blocks compressed one after another

VARIABLES
  wcall,   \* the call last made
  wmem     \* WorkingMemory: blocks so far, and per table what is not zero in it

wordVars == <<wcall, wmem>>

Host == {"little", "big"}

-------------------------------------------------------------------------------
(* Loads and stores.  mem[1] is address 0. *)

Turned(word, host) == IF host = "little" THEN word ELSE Reverse(word)

UNALIGNED_LOAD(mem, p, n, host) == Turned(SubSeq(mem, p + 1, p + n), host)

UNALIGNED_STORE(mem, p, word, host) ==
  LET bytes == Turned(word, host)
  IN  [i \in DOMAIN mem |-> IF i - p \in DOMAIN bytes THEN bytes[i - p] ELSE mem[i]]

\* Neighbouring runs of n bytes change places.
Swapped(word, n) ==
  [i \in DOMAIN word |-> word[((i - 1) \div (2 * n)) * 2 * n + ((i - 1 + n) % (2 * n)) + 1]]
bswap_16(x) == Swapped(x, 1)

\* Fault: the halves stay.
bswap_32_pairs(x) == Swapped(x, 1)

bswap_32(x) == Swapped(Swapped(x, 1), 2)

FromHost16(x, host) == IF host = "big" THEN bswap_16(x) ELSE x
FromHost32(x, host) == IF host = "big" THEN bswap_32(x) ELSE x

\* Load16, Load32, Store16 and Store32.
LoadLittle(mem, p, n, host) ==
  LET x == UNALIGNED_LOAD(mem, p, n, host) IN IF n = 2 THEN FromHost16(x, host) ELSE FromHost32(x, host)
StoreLittle(mem, p, x, host) ==
  UNALIGNED_STORE(mem, p, IF Len(x) = 2 THEN FromHost16(x, host) ELSE FromHost32(x, host), host)

\* Shifts right by whole bytes, and the 4 low bytes of a word.
ShiftedRight(word, n) == [i \in DOMAIN word |-> IF i + n \in DOMAIN word THEN word[i + n] ELSE 0]
Low32(word) == SubSeq(word, 1, 4)

\* Fault: the byte order is forgotten.
OffsetShiftLittle(offset, host) == offset

OffsetShift(offset, host) == IF host = "little" THEN offset ELSE 4 - offset

\* The version of 64-bit hosts, and that of the others.
GetEightBytesAt(mem, p, wide, host) == IF wide THEN UNALIGNED_LOAD(mem, p, 8, host) ELSE <<p>>
GetUint32AtOffset(mem, v, offset, wide, host) ==
  IF wide THEN Low32(ShiftedRight(v, OffsetShift(offset, host)))
  ELSE UNALIGNED_LOAD(mem, v[1] + offset, 4, host)

-------------------------------------------------------------------------------
(* Bits: a word by its bits, bit 0 the least significant. *)

BitsOf(word) == [k \in 0..8 * Len(word) - 1 |-> (word[k \div 8 + 1] \div 2^(k % 8)) % 2]
IsZero(bits) == \A k \in DOMAIN bits : bits[k] = 0

\* Shifts to the left, for n < 0 to the right.
Shifted(bits, n) == [k \in DOMAIN bits |-> IF k - n \in DOMAIN bits THEN bits[k - n] ELSE 0]

\* Steps of halves.
Halvings == <<16, 8, 4, 2, 1>>

Log2Floor(bits) ==
  LET step(st, shift) ==
        LET x == Shifted(st.value, -shift)
        IN  IF IsZero(x) THEN st ELSE [value |-> x, log |-> st.log + shift]
  IN  IF IsZero(bits) THEN -1 ELSE FoldLeft(step, [value |-> bits, log |-> 0], Halvings).log

\* Fault: one step too few.
FindLSBOf16(bits) ==
  LET step(st, shift) ==
        LET x == Shifted(st.n, shift)
        IN  IF IsZero(x) THEN st ELSE [n |-> x, rc |-> st.rc - shift]
  IN  FoldLeft(step, [n |-> bits, rc |-> 31], <<8, 4, 2, 1>>).rc

FindLSBSetNonZero(bits) ==
  LET step(st, shift) ==
        LET x == Shifted(st.n, shift)
        IN  IF IsZero(x) THEN st ELSE [n |-> x, rc |-> st.rc - shift]
  IN  FoldLeft(step, [n |-> bits, rc |-> 31], Halvings).rc

\* By its bottom bits, if one of them is set, and otherwise by its top bits.
FindLSBSetNonZero64(bits) ==
  LET half(from) == [k \in 0..31 |-> bits[from + k]]
  IN  IF IsZero(half(0)) THEN 32 + FindLSBSetNonZero(half(32)) ELSE FindLSBSetNonZero(half(0))

-------------------------------------------------------------------------------
(* FindMatchLength: what matched, and where the last read ended. *)

WordXor(x, y) == [k \in DOMAIN BitsOf(x) |-> (BitsOf(x)[k] + BitsOf(y)[k]) % 2]

HasWord(s2, n, limit) == s2 <= limit - n

\* How far words of n bytes agree, one after the other.
Agreeing(mem, s1, s2, n, limit, host) ==
  n * Min({k \in 0..Len(mem) :
             \/ ~HasWord(s2 + n * k, n, limit)
             \/ UNALIGNED_LOAD(mem, s2 + n * k, n, host) # UNALIGNED_LOAD(mem, s1 + n * k, n, host)})

\* The rest byte by byte.
ByteByByte(mem, s1, s2, matched, limit, host) ==
  LET more == Agreeing(mem, s1 + matched, s2 + matched, 1, limit, host)
      at == s2 + matched + more
  IN  [matched |-> matched + more, read |-> Least(at + 1, limit)]

\* The version of x86-64, in words of 8 bytes.
FindMatchLength64(mem, s1, s2, limit) ==
  LET matched == Agreeing(mem, s1, s2, 8, limit, "little")
      x == WordXor(UNALIGNED_LOAD(mem, s2 + matched, 8, "little"),
                   UNALIGNED_LOAD(mem, s1 + matched, 8, "little"))
  IN  IF HasWord(s2 + matched, 8, limit)
      THEN [matched |-> matched + FindLSBSetNonZero64(x) \div 8, read |-> s2 + matched + 8]
      ELSE ByteByByte(mem, s1, s2, matched, limit, "little")

\* The version of the others, in words of 4; the last is scanned for its first
\* difference only where the first byte is the least significant.
FindMatchLength32(mem, s1, s2, limit, host) ==
  LET matched == Agreeing(mem, s1, s2, 4, limit, host)
      x == WordXor(UNALIGNED_LOAD(mem, s2 + matched, 4, host),
                   UNALIGNED_LOAD(mem, s1 + matched, 4, host))
  IN  IF host = "little" /\ HasWord(s2 + matched, 4, limit)
      THEN [matched |-> matched + FindLSBSetNonZero(x) \div 8, read |-> s2 + matched + 4]
      ELSE ByteByByte(mem, s1, s2, matched, limit, host)

-------------------------------------------------------------------------------
(* The hash table. *)

kBlockSize == 2^15
kMaxHashTableSize == 2^14
SmallTable == 2^10

\* The product with kMul, without what is beyond 32 bits: its upper half.
kMul == <<189, 167, 53, 30>>
UpperHalf(word) ==
  LET sum(k) == FoldLeft(LAMBDA n, i : n + word[i] * kMul[k + 1 - i], 0, [i \in 1..k |-> i])
      carried == FoldLeft(LAMBDA carry, k : (carry + sum(k)) \div 256, 0, <<1, 2>>)
  IN  (carried + sum(3) + 256 * (sum(4) % 256)) % 2^16

\* Shifts by less than 16 are not made.
HashBytes(word, shift) == UpperHalf(word) \div 2^(shift - 16)

\* From 256, doubled until it is as large as the block or the largest table.
HashTableSize(input_size) ==
  2^Min({k \in 8..16 : 2^k >= kMaxHashTableSize \/ 2^k >= input_size})

\* 32 - Log2Floor: what is shifted out.
Log2Of(size) == Log2Floor(BitsOf(<<size % 256, (size \div 256) % 256, size \div 2^16, 0>>))
HashShift(size) == 32 - Log2Of(size)

Table(size) == IF size <= SmallTable THEN "small" ELSE "large"
Entries(table) == IF table = "small" THEN SmallTable ELSE kMaxHashTableSize

\* Bound: the entries followed, the last of each size and those before it.
Entry == {0} \cup {2^k - 1 : k \in 6..14}
EntriesTo(n) == {e \in Entry : e < n}

\* Fault: half of it, one byte for each entry.
ClearedBytes(size) == EntriesTo(size \div 2)

\* memset of all its entries.
Cleared(size) == EntriesTo(size)

-------------------------------------------------------------------------------
(* The calls. *)

WordsInit ==
  /\ wcall = [of |-> "none"]
  /\ wmem = [blocks |-> 0, small |-> {}, large |-> {}]

\* GetEightBytesAt and all its words, of either version, and the same loads.
LoadsOverlapping ==
  \E mem \in Memories : \E host \in Host : \E wide \in BOOLEAN : \E offset \in 0..4 :
    /\ Len(mem) >= 8
    /\ wcall' = [of |-> "overlap",
                 got |-> GetUint32AtOffset(mem, GetEightBytesAt(mem, 0, wide, host), offset, wide, host),
                 want |-> UNALIGNED_LOAD(mem, offset, 4, host)]
    /\ UNCHANGED wmem

StoresLittle ==
  \E mem \in Memories : \E host \in Host : \E word \in Numbers32 : \E n \in {2, 4} :
    LET x == SubSeq(word, 1, n)
        stored == StoreLittle(mem, 1, x, host)
    IN  /\ Len(mem) >= 8
        /\ wcall' = [of |-> "store", x |-> x, bytes |-> SubSeq(stored, 2, n + 1),
                     loaded |-> LoadLittle(stored, 1, n, host)]
        /\ UNCHANGED wmem

\* s2_limit is the end of the memory.
FindsMatch ==
  \E mem \in Memories : \E s2 \in 0..Len(mem) : \E s1 \in 0..s2 :
    \E found \in {FindMatchLength64(mem, s1, s2, Len(mem)),
                  FindMatchLength32(mem, s1, s2, Len(mem), "little"),
                  FindMatchLength32(mem, s1, s2, Len(mem), "big")} :
      /\ s1 < s2 /\ s1 % 3 = 0
      /\ wcall' = [of |-> "match", mem |-> mem, s1 |-> s1, s2 |-> s2, found |-> found]
      /\ UNCHANGED wmem

\* A block gets its table; a word is looked up in it; and Compress may write all
\* of it before the next block, which is not longer.
GetHashTable ==
  \E length \in BlockLengths : \E word \in Numbers32 :
    LET size == HashTableSize(length)
        table == Table(size)
    IN  /\ wcall.of = "table" => length <= wcall.length /\ wmem.blocks < 3
        /\ wcall' = [of |-> "table", length |-> length, size |-> size,
                     hash |-> HashBytes(word, HashShift(size)),
                     dirty |-> (wmem[table] \ Cleared(size)) \cap EntriesTo(size)]
        /\ wmem' = [wmem EXCEPT !.blocks = @ + 1, ![table] = (@ \ Cleared(size)) \cup EntriesTo(size)]

WordsNext ==
  \/ wcall.of = "none" /\ (LoadsOverlapping \/ StoresLittle \/ FindsMatch)
  \/ wcall.of \in {"none", "table"} /\ GetHashTable

WordsSpec == WordsInit /\ [][WordsNext]_wordVars

-------------------------------------------------------------------------------
\* The words of a load of 8 bytes are those loaded one by one, on either host
\* (the comment on GetUint32AtOffset).
LoadsOverlap == wcall.of = "overlap" => wcall.got = wcall.want

\* What LittleEndian stores is little-endian on every host, and it loads it again.
StoredIsLittleEndian ==
  wcall.of = "store" => wcall.bytes = wcall.x /\ wcall.loaded = wcall.x

\* Both versions find the greatest length, though words reach over its end, and
\* neither reads at s2_limit or beyond (the comment on FindMatchLength).
MatchLengthIsExact ==
  wcall.of = "match" =>
    LET mem == wcall.mem
        agree(n) == \A k \in 1..n : mem[wcall.s1 + k] = mem[wcall.s2 + k]
    IN  /\ wcall.found.matched = Max({n \in 0..Len(mem) - wcall.s2 : agree(n)})
        /\ wcall.found.read <= Len(mem)

\* Every hash is an entry of the table, which has room for all of them and starts
\* zeroed though blocks before used it; so every candidate is a position of this
\* block, and 16 bits hold it (GetHashTable, CompressFragment).
TableIsFresh ==
  wcall.of = "table" =>
    /\ wcall.hash < wcall.size /\ wcall.size <= Entries(Table(wcall.size))
    /\ \E k \in 8..14 : wcall.size = 2^k
    /\ wcall.dirty = {}
    /\ wcall.length <= 2^16

\* The routines on words give, on hosts of either byte order, what the compressor
\* takes them for: loads, stores, lengths of matches, and a table of its own.
WordsAreExact ==
  /\ LoadsOverlap
  /\ StoredIsLittleEndian
  /\ MatchLengthIsExact
  /\ TableIsFresh
==============================================================================
