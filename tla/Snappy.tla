-------------------------------- MODULE Snappy --------------------------------
(***************************************************************************)
(* Snappy's compressor and decompressor (snappy.cc, snappy-sinksource.cc,  *)
(* snappy-c.cc).  The compressor reads a source block by block and emits   *)
(* literals and copies by a table of hashed positions; the decompressor    *)
(* reads fragments of any size and writes to memory of a fixed length, at  *)
(* times more than it was asked to and over what comes next.  Positions    *)
(* count the bytes in front of them.                                       *)
(***************************************************************************)
EXTENDS SnappyFormat, Integers

CONSTANTS
  BlockSize,    \* kBlockSize
  SkipStart,    \* probes without a match before the compressor looks less often
  Hash(_, _),   \* Hash(kind, word): HashBytes, for any table size
  HashKind,     \* bound: the hash functions tried
  Inputs,       \* bound: what is compressed
  Streams,      \* bound: what else is decompressed
  Fragment,     \* bound: how many bytes a source has at a time
  MaxMem        \* bound: the memory modelled of an array, when more is expected

\* Offsets and positions in a block fit 16 bits; blocks shorter than 6 bytes would
\* cost more tags than the worst case has room for.
ASSUME SnappyAssumption ==
  /\ BlockSize \in Nat /\ BlockSize >= 6 /\ BlockSize <= 2^16
  /\ SkipStart \in Nat \ {0} /\ Fragment \subseteq Nat \ {0}
  /\ \A s \in Inputs : s \in Seq(Byte) /\ Len(s) < Huge
  /\ \A s \in Streams : s \in Seq(Byte)
  /\ MaxMem \in Nat

VARIABLES
  phase,     \* what runs: see Phase
  input,     \* what is compressed, or <<>> for a stream from elsewhere
  kind,      \* the hash function
  comp,      \* the compressor, see Compressing
  stream,    \* the compressed bytes
  dec,       \* the decompressor, see NoDecompressor
  out,       \* what the writer was given, see NoWriter
  reach      \* how far beyond what is theirs reads and writes went

snappyVars == <<phase, input, kind, comp, stream, dec, out, reach>>

Phase == {"block", "scan", "match", "remainder", "open", "tag", "literal", "ended"}

Margin == 15        \* kInputMarginBytes
kMaxIncrementCopyOverflow == 10

\* The compressor: its block, the positions in it, the output of the block, and
\* the hash table, which holds 0 where nothing was entered.
NoTable == [h \in {} |-> 0]
Compressing(left) ==
  [block |-> <<>>, left |-> left, ip |-> 0, next_ip |-> 0, next_emit |-> 0, candidate |-> 0,
   skip |-> SkipStart, op |-> <<>>, table |-> NoTable]

\* A source over bytes, fragment by fragment: Peek and Skip.
Source(bytes, fragment) == [bytes |-> bytes, pos |-> 0, fragment |-> fragment]
Available(src) == Len(src.bytes) - src.pos
Peek(src) ==
  SubSeq(src.bytes, src.pos + 1,
         Least(Len(src.bytes), ((src.pos \div src.fragment) + 1) * src.fragment))
Skip(src, n) == [src EXCEPT !.pos = @ + n]

\* n bytes together, over as many fragments as it takes, turn by turn; fewer at
\* the end.
Gathered(src, n) ==
  LET More(some) == some \o Take(Peek(Skip(src, Len(some))), n - Len(some))
      bytes[turn \in 0..n] == IF turn = 0 THEN <<>> ELSE More(bytes[turn - 1])
  IN  [bytes |-> bytes[n], src |-> Skip(src, Len(bytes[n]))]

\* The decompressor's buffer, its source and what it peeked of it, what is left
\* of a literal, who called, and whether the caller's array is too short.
NoDecompressor == [src |-> Source(<<>>, 1), buf |-> <<>>, peeked |-> 0, literal |-> 0,
                   eof |-> FALSE, caller |-> "none", short |-> FALSE]
NoWriter == [mem |-> <<>>, op |-> 0, expected |-> 0]

SnappyInit ==
  /\ \/ /\ input \in Inputs
        /\ kind \in HashKind
        /\ phase = "block"
        /\ comp = Compressing(Len(input))
        /\ stream = Encode32(Len(input))
     \/ /\ input = <<>>
        /\ kind = CHOOSE k \in HashKind : TRUE
        /\ phase = "open"
        /\ comp = Compressing(0)
        /\ stream \in Streams
  /\ dec = NoDecompressor
  /\ out = NoWriter
  /\ reach = 0

Beyond(a, b) == IF a > b THEN a - b ELSE 0

-------------------------------------------------------------------------------
(* Compress: block by block. *)

\* The next block, gathered if the source has it in pieces; its table is empty.
NextBlock ==
  /\ phase = "block"
  /\ \/ /\ comp.left = 0
        /\ phase' = "open"
        /\ UNCHANGED comp
     \/ /\ comp.left > 0
        /\ \E fragment \in Fragment :
             LET src == Skip(Source(input, fragment), Len(input) - comp.left)
                 block == Gathered(src, Least(comp.left, BlockSize)).bytes
             IN  /\ comp' = [Compressing(comp.left - Len(block)) EXCEPT
                               !.block = block, !.next_ip = 1]
                 /\ phase' = IF Len(block) >= Margin THEN "scan" ELSE "remainder"
  /\ UNCHANGED <<input, kind, stream, dec, out, reach>>

Word(c, p) == SubSeq(c.block, p + 1, p + 4)
HashAt(c, p) == Hash(kind, Word(c, p))
TableAt(c, h) == IF h \in DOMAIN c.table THEN c.table[h] ELSE 0
TablePut(c, h, p) == [g \in DOMAIN c.table \cup {h} |-> IF g = h THEN p ELSE c.table[g]]
Limit(c) == Len(c.block) - Margin

\* The scratch buffer for the output of a block, and what is left of the array
\* that RawCompress is given: the output of a block must fit in either.
scratch_output == MaxCompressedLength(Len(comp.block))
compressed == MaxCompressedLength(Len(input)) - Len(stream)
Room == Least(scratch_output, compressed)

\* One probe: the position is looked up and entered.  With the end near the rest
\* is emitted; on a match the bytes before it are, as a literal on the fast path.
Scan ==
  LET ip == comp.next_ip
      next_ip == ip + comp.skip \div SkipStart
      candidate == TableAt(comp, HashAt(comp, ip))
      literal == SubSeq(comp.block, comp.next_emit + 1, ip)
      probed == [comp EXCEPT !.ip = ip, !.next_ip = next_ip, !.skip = @ + 1,
                             !.candidate = candidate,
                             !.table = TablePut(comp, HashAt(comp, ip), ip)]
      op == comp.op \o EmitLiteral(literal)
  IN
  /\ phase = "scan"
  /\ \/ /\ next_ip > Limit(comp)
        /\ phase' = "remainder"
        /\ comp' = [comp EXCEPT !.ip = ip]
        /\ UNCHANGED reach
     \/ /\ next_ip <= Limit(comp) /\ Word(comp, ip) # Word(comp, candidate)
        /\ comp' = probed
        /\ UNCHANGED <<phase, reach>>
     \/ /\ next_ip <= Limit(comp) /\ Word(comp, ip) = Word(comp, candidate)
        /\ comp' = [probed EXCEPT !.op = op]
        /\ phase' = "match"
        /\ reach' = IF ~FastLiteral(Len(literal), TRUE) THEN reach
                    ELSE reach + Beyond(comp.next_emit + 16, Len(comp.block))
                         + Beyond(Len(op) - Len(literal) + 16, Room)
  /\ UNCHANGED <<input, kind, stream, dec, out>>

\* Fault: the position at ip is entered before it is looked up.
CandidateAfterPut(c, table, h) == c.ip

\* The candidate for the next copy is looked up before ip is entered.
CandidateAt(c, table, h) == IF h \in DOMAIN table THEN table[h] ELSE 0

\* The copy of a match, as long as it goes on; then the position before its end
\* is entered, and if the one at its end has a match the next copy follows.
Match ==
  LET base == comp.ip
      matched == 4 + FindMatchLength(comp.block, comp.candidate + 4, base + 4)
      ip == base + matched
      copied == [comp EXCEPT !.ip = ip, !.next_emit = ip,
                             !.op = @ \o EmitCopy(base - comp.candidate, matched)]
      before == TablePut(comp, HashAt(comp, ip - 1), ip - 1)
      h == HashAt(comp, ip)
      candidate == CandidateAt(copied, before, h)
      entered == [copied EXCEPT !.candidate = candidate,
                                !.table = TablePut([comp EXCEPT !.table = before], h, ip)]
  IN
  /\ phase = "match"
  /\ \/ /\ ip >= Limit(comp)
        /\ comp' = copied
        /\ phase' = "remainder"
     \/ /\ ip < Limit(comp) /\ Word(comp, candidate) = Word(comp, ip)
        /\ comp' = entered
        /\ UNCHANGED phase
     \/ /\ ip < Limit(comp) /\ Word(comp, candidate) # Word(comp, ip)
        /\ comp' = [entered EXCEPT !.next_ip = ip + 1, !.skip = SkipStart]
        /\ phase' = "scan"
  /\ UNCHANGED <<input, kind, stream, dec, out, reach>>

\* emit_remainder, and the block goes to the sink.
Remainder ==
  LET literal == SubSeq(comp.block, comp.next_emit + 1, Len(comp.block))
      op == comp.op \o IF literal = <<>> THEN <<>> ELSE EmitLiteral(literal)
  IN
  /\ phase = "remainder"
  /\ stream' = stream \o op
  /\ reach' = reach + Beyond(Len(op), Room)
  /\ comp' = Compressing(comp.left)
  /\ phase' = "block"
  /\ UNCHANGED <<input, kind, dec, out>>

-------------------------------------------------------------------------------
(* The writers of the decompressor: an array, or a validator that only counts. *)

Space(w) == w.expected - w.op

\* memcpy of bytes to a position of the memory.
Copied(mem, bytes, to) ==
  [i \in DOMAIN mem |-> IF i > to /\ i <= to + Len(bytes) THEN bytes[i - to] ELSE mem[i]]
Bytes(mem, from, n) == [k \in 1..n |-> IF from + k \in DOMAIN mem THEN mem[from + k] ELSE 0]
UnalignedCopy64(mem, from, to) == Copied(mem, Bytes(mem, from, 8), to)

\* Byte after byte, so that the copy may reach into itself.
IncrementalCopy(mem, from, to, len) ==
  LET ByteCopied(m, n) == Copied(m, Bytes(m, from + n - 1, 1), to + n - 1)
      after[n \in 0..len] == IF n = 0 THEN mem ELSE ByteCopied(after[n - 1], n)
  IN  after[len]

\* Eight bytes at a time; while the two are closer than that the pattern is
\* doubled.  end is where the last write ended.
EightCopied(c) ==
  LET step == IF c.to - c.from < 8 THEN c.to - c.from ELSE 8
  IN  IF c.to - c.from >= 8 /\ c.len <= 0 THEN c
      ELSE [mem |-> UnalignedCopy64(c.mem, c.from, c.to),
            from |-> IF c.to - c.from < 8 THEN c.from ELSE c.from + 8,
            to |-> c.to + step, len |-> c.len - step, end |-> c.to + 8]

\* Three turns double any pattern, and each of the others copies a byte at least.
IncrementalCopyFastPath(mem, from, to, len) ==
  LET start == [mem |-> mem, from |-> from, to |-> to, len |-> len, end |-> to]
      after[turn \in 0..len + 3] == IF turn = 0 THEN start ELSE EightCopied(after[turn - 1])
  IN  after[len + 3]

Refused(w) == [ok |-> FALSE, w |-> w, end |-> 0]
Written(w, mem, len, end) == [ok |-> TRUE, w |-> [w EXCEPT !.mem = mem, !.op = @ + len], end |-> end]

Append_(w, bytes) ==
  IF Space(w) < Len(bytes) THEN Refused(w)
  ELSE Written(w, Copied(w.mem, bytes, w.op), Len(bytes), w.op + Len(bytes))

\* The array writes 16 bytes of a short literal; the validator declines.
TryFastAppend(w, validating, bytes, len) ==
  IF ~validating /\ len <= 16 /\ Len(bytes) >= 16 /\ Space(w) >= 16
  THEN Written(w, Copied(w.mem, SubSeq(bytes, 1, 16), w.op), len, w.op + 16)
  ELSE Refused(w)

\* Fault: the room for what is written too much is forgotten.
FastRoomTight(w, len) == Space(w) >= len

FastRoom(w, len) == Space(w) >= len + kMaxIncrementCopyOverflow

\* Fault: one byte before the output will do.
BehindByOne(w, offset) == offset # 0 /\ offset <= w.op + 1

Behind(w, offset) == offset # 0 /\ offset <= w.op

AppendFromSelf(w, offset, len) ==
  IF ~Behind(w, offset) \/ (Space(w) < len /\ ~(len <= 16 /\ offset >= 8 /\ Space(w) >= 16))
  THEN Refused(w)
  ELSE IF len <= 16 /\ offset >= 8 /\ Space(w) >= 16
  THEN Written(w, UnalignedCopy64(UnalignedCopy64(w.mem, w.op - offset, w.op),
                                  w.op - offset + 8, w.op + 8), len, w.op + 16)
  ELSE IF FastRoom(w, len)
  THEN LET fast == IncrementalCopyFastPath(w.mem, w.op - offset, w.op, len)
       IN  Written(w, fast.mem, len, fast.end)
  ELSE Written(w, IncrementalCopy(w.mem, w.op - offset, w.op, len), len, w.op + len)

-------------------------------------------------------------------------------
(* The decompressor. *)

\* RefillTag, if fewer than five bytes are at hand: the next fragment if there
\* are none; then all the bytes of the tag, or what is left in a scratch buffer.
Fetched(d) ==
  IF d.buf # <<>> THEN d
  ELSE LET src == Skip(d.src, d.peeked)
       IN  [d EXCEPT !.src = src, !.buf = Peek(src), !.peeked = Len(Peek(src))]

Needed(d) == char_table(Head(d.buf)).extra + 1

RefillTag(d) ==
  LET f == Fetched(d)
      rest == IF f.buf = <<>> \/ Len(f.buf) >= Needed(f) THEN [bytes |-> <<>>, src |-> Skip(f.src, f.peeked)]
              ELSE Gathered(Skip(f.src, f.peeked), Needed(f) - Len(f.buf))
      scratch == [f EXCEPT !.buf = @ \o rest.bytes, !.src = rest.src, !.peeked = 0]
  IN  IF f.buf = <<>> THEN [go |-> FALSE, d |-> [f EXCEPT !.eof = TRUE]]
      ELSE IF Len(f.buf) < 5 THEN [go |-> Len(scratch.buf) >= Needed(f), d |-> scratch]
      ELSE [go |-> TRUE, d |-> f]

MAYBE_REFILL(d) == IF Len(d.buf) >= 5 THEN [go |-> TRUE, d |-> d] ELSE RefillTag(d)

\* What follows an item: the next one, or the end.
NextItem(d) ==
  LET r == MAYBE_REFILL(d) IN
  /\ dec' = r.d
  /\ phase' = IF r.go THEN "tag" ELSE "ended"

\* IsValidCompressedBuffer, RawUncompress, Uncompress and snappy_uncompress.
Caller == {"validate", "raw", "uncompress", "snappy_uncompress"}

\* RawUncompress takes any source, the others an array.
Fragments(caller) == IF caller = "raw" THEN Fragment ELSE {Larger(Len(stream), 1)}

\* GetUncompressedLength of an array, first.
Uncompress == Parse32(stream).ok

\* That, and room for as many bytes in the array of the caller.
snappy_uncompress(room) == Parse32(stream).ok /\ room >= Parse32(stream).value

Admits(caller, room) ==
  /\ caller = "uncompress" => Uncompress
  /\ caller = "snappy_uncompress" => snappy_uncompress(room)

Opens ==
  LET length == ReadUncompressedLength(stream) IN
  /\ phase = "open"
  /\ \E caller \in Caller : \E fragment \in Fragments(caller) :
     \E room \in {length.value, Larger(length.value, 1) - 1} :
       LET d == [src |-> Skip(Source(stream, fragment), length.size), buf |-> <<>>, peeked |-> 0,
                 literal |-> 0, eof |-> FALSE, caller |-> caller,
                 short |-> caller = "snappy_uncompress" /\ room < length.value]
       IN  IF length.ok /\ Admits(caller, room)
           THEN /\ out' = [mem |-> [i \in 1..Least(length.value, MaxMem) |-> 0], op |-> 0,
                           expected |-> length.value]
                /\ NextItem(d)
           ELSE dec' = d /\ phase' = "ended" /\ UNCHANGED out
  /\ UNCHANGED <<input, kind, comp, stream, reach>>

Validating == dec.caller = "validate"

\* A writer's answer: what it wrote, or the end.
Put(r, d) ==
  /\ out' = r.w
  /\ reach' = IF Validating THEN reach ELSE reach + Beyond(r.end, out.expected)
  /\ IF r.ok THEN NextItem(d) ELSE dec' = d /\ phase' = "ended"

\* The length of a literal of 61 and more is behind the tag, less one; that of
\* four bytes of 255 wraps to 0.
LongLiteral(len, rest) ==
  LET bytes == SubSeq(rest, 1, len - 60)
  IN  IF bytes = <<255, 255, 255, 255>> THEN 0 ELSE LittleEndian(bytes) + 1

LiteralItem ==
  LET len == Head(dec.buf) \div 4 + 1
      rest == Tail(dec.buf)
      fast == TryFastAppend(out, Validating, rest, len)
  IN
  /\ phase = "tag" /\ Head(dec.buf) % 4 = LITERAL
  /\ \/ fast.ok /\ Put(fast, [dec EXCEPT !.buf = Drop(rest, len)])
     \/ /\ ~fast.ok
        /\ dec' = IF len < 61 THEN [dec EXCEPT !.buf = rest, !.literal = len]
                  ELSE [dec EXCEPT !.buf = Drop(rest, len - 60), !.literal = LongLiteral(len, rest)]
        /\ phase' = "literal"
        /\ UNCHANGED <<out, reach>>
  /\ UNCHANGED <<input, kind, comp, stream>>

\* A literal fragment by fragment; the source may end before it does.
LiteralChunk ==
  LET avail == Len(dec.buf)
      chunk == Append_(out, Take(dec.buf, dec.literal))
      src == Skip(dec.src, dec.peeked)
      next == [dec EXCEPT !.src = src, !.buf = Peek(src), !.peeked = Len(Peek(src)),
                          !.literal = @ - avail]
  IN
  /\ phase = "literal"
  /\ \/ avail >= dec.literal /\ Put(chunk, [dec EXCEPT !.buf = Drop(@, dec.literal), !.literal = 0])
     \/ /\ avail < dec.literal
        /\ out' = chunk.w
        /\ dec' = next
        /\ phase' = IF chunk.ok /\ next.buf # <<>> THEN "literal" ELSE "ended"
        /\ UNCHANGED reach
  /\ UNCHANGED <<input, kind, comp, stream>>

CopyTag ==
  LET entry == char_table(Head(dec.buf))
      trailer == LittleEndian(SubSeq(dec.buf, 2, entry.extra + 1))
  IN
  /\ phase = "tag" /\ Head(dec.buf) % 4 # LITERAL
  /\ Put(AppendFromSelf(out, entry.copy_offset * 256 + trailer, entry.len),
         [dec EXCEPT !.buf = Drop(@, entry.extra + 1)])
  /\ UNCHANGED <<input, kind, comp, stream>>

SnappyNext ==
  \/ NextBlock \/ Scan \/ Match \/ Remainder
  \/ Opens \/ LiteralItem \/ LiteralChunk \/ CopyTag

SnappySpec == SnappyInit /\ [][SnappyNext]_snappyVars

-------------------------------------------------------------------------------
Accepted == phase = "ended" /\ dec.eof /\ out.op = out.expected

\* Type invariant.
SnappyTypeOK ==
  /\ phase \in Phase
  /\ stream \in Seq(Byte) /\ comp.op \in Seq(Byte) /\ out.mem \in Seq(Byte)

RoundTrip ==
  phase = "ended" /\ input # <<>> /\ ~dec.short =>
    /\ Accepted
    /\ ~Validating => out.mem = input

\* What a stream means: its items one by one, none of them beyond limit.
ItemMeant(m, limit) ==
  LET tag == Head(m.rest)
      entry == char_table(tag)
      literal == IF tag \div 4 < 60 THEN tag \div 4 + 1 ELSE LongLiteral(tag \div 4 + 1, Tail(m.rest))
      offset == entry.copy_offset * 256 + LittleEndian(SubSeq(m.rest, 2, entry.extra + 1))
      rest == Drop(m.rest, entry.extra + 1)
      from == Len(m.bytes) - offset
      bad == [m EXCEPT !.ok = FALSE]
  IN  IF ~m.ok \/ m.rest = <<>> THEN m
      ELSE IF Len(m.rest) < entry.extra + 1 \/ Len(m.bytes) > limit THEN bad
      ELSE IF tag % 4 = LITERAL
      THEN IF Len(rest) < literal THEN bad
           ELSE [m EXCEPT !.rest = Drop(rest, literal), !.bytes = @ \o SubSeq(rest, 1, literal)]
      ELSE IF offset = 0 \/ from < 0 THEN bad
      ELSE [m EXCEPT !.rest = rest,
                     !.bytes = @ \o [k \in 1..entry.len |-> @[from + ((k - 1) % offset) + 1]]]

Meaning(s, limit) ==
  LET meant[n \in 0..Len(s)] ==
        IF n = 0 THEN [ok |-> TRUE, rest |-> s, bytes |-> <<>>] ELSE ItemMeant(meant[n - 1], limit)
  IN  meant[Len(s)]

\* Any stream is accepted exactly if it means as many bytes as it says, by the
\* validator as by the writer and in fragments as in one piece, and then those
\* bytes are written.  A length of more than 32 bits is refused only by those that
\* parse it first, and an array that is too short by the last of them
\* (DecompressAllTags, RefillTag, ReadUncompressedLength, snappy_uncompress).
DecodesAsMeant ==
  phase = "ended" =>
    LET length == ReadUncompressedLength(stream)
        meant == Meaning(Drop(stream, length.size), MaxMem)
    IN  /\ Accepted <=> /\ length.ok /\ meant.ok /\ Len(meant.bytes) = length.value
                        /\ dec.caller \in {"uncompress", "snappy_uncompress"} => Parse32(stream).ok
                        /\ ~dec.short
        /\ Accepted /\ ~Validating => out.mem = meant.bytes

\* No write ends beyond the worst case of a block, what the blocks before it left
\* of the worst case of the input, or the length expected, although short literals
\* and copies are written in pieces of 8 and 16 bytes; and no read beyond the block
\* (EmitLiteral, IncrementalCopyFastPath, AppendFromSelf).
NothingBeyond == reach = 0

\* Every match is behind what it is copied to, and every position in the table
\* behind the next probe (CompressFragment's checks).
MatchesAreBehind ==
  /\ phase = "match" => /\ comp.candidate < comp.ip
                        /\ Word(comp, comp.candidate) = Word(comp, comp.ip)
  /\ phase = "scan" => \A h \in DOMAIN comp.table : comp.table[h] < comp.next_ip

\* What was compressed comes back, whatever the hash function, the blocks and the
\* fragments of the two sources (Compress, RawUncompress), inside the memory there
\* is, by matches that lie behind.
SnappyGivesBack == RoundTrip /\ NothingBeyond /\ MatchesAreBehind
==============================================================================
