----------------------------- MODULE ReadingProofs -----------------------------
(***************************************************************************)
(* What was sent is what is read: the line loop of libEmailz hands on every *)
(* byte once, in lines that do not depend on how they arrived (LineReader), *)
(* and the application makes of a mail's lines what they say (Headers), for *)
(* texts and mails of any length.                                          *)
(***************************************************************************)
EXTENDS LineReader, Headers, TextFacts, FiniteSetTheorems

-------------------------------------------------------------------------------
(* Where a line ends. *)

\* A run of k \r ends at position n, and is no longer.
CrRun(s, n, k) ==
  /\ \A i \in n + 1 - k..n : s[i] = CR
  /\ n > k => s[n - k] # CR

OddRun(s, n) == \E k \in 1..n : k % 2 = 1 /\ CrRun(s, n, k)

LEMMA OddRunIs ==
  ASSUME NEW s, NEW n \in Nat \ {0}
  PROVE  OddCr(s, n) <=> OddRun(s, n - 1)
<1>1. ASSUME NEW k \in 1..n - 1
      PROVE  /\ (n - 1) + 1 - k = n - k /\ (n - 1) - k = n - k - 1
             /\ (n - 1 > k <=> n - k > 1)
  OBVIOUS
<1>2. ASSUME NEW k \in 1..n - 1
      PROVE  CrRun(s, n - 1, k) <=> /\ \A i \in n - k..n - 1 : s[i] = CR
                                    /\ n - k > 1 => s[n - k - 1] # CR
  BY <1>1 DEF CrRun
<1> QED
  BY <1>2 DEF OddCr, OddRun

\* A run has one length,
LEMMA RunIsOne ==
  ASSUME NEW s, NEW n \in Nat, NEW j \in 1..n, NEW k \in 1..n, CrRun(s, n, j), CrRun(s, n, k)
  PROVE  j = k
<1>1. ASSUME NEW a \in 1..n, NEW b \in 1..n, a < b, CrRun(s, n, a), CrRun(s, n, b)
      PROVE  FALSE
  <2>1. n > a /\ n - a \in n + 1 - b..n
    BY <1>1
  <2> QED
    BY <1>1, <2>1 DEF CrRun
<1> QED
  BY <1>1

\* and is one longer at the next position,
LEMMA RunGrows ==
  ASSUME NEW s, NEW n \in Nat, NEW k \in 1..n
  PROVE  CrRun(s, n + 1, k + 1) <=> s[n + 1] = CR /\ CrRun(s, n, k)
<1>1. /\ (n + 1) + 1 - (k + 1) = n + 1 - k /\ (n + 1) - (k + 1) = n - k
      /\ (n + 1 > k + 1 <=> n > k)
  OBVIOUS
<1>2. \A i \in n + 1 - k..n + 1 : i = n + 1 \/ i \in n + 1 - k..n
  OBVIOUS
<1>3. n + 1 \in n + 1 - k..n + 1 /\ \A i \in n + 1 - k..n : i \in n + 1 - k..n + 1
  OBVIOUS
<1> QED
  BY <1>1, <1>2, <1>3 DEF CrRun

\* where it may begin.
LEMMA RunBegins ==
  ASSUME NEW s, NEW n \in Nat
  PROVE  CrRun(s, n + 1, 1) <=> s[n + 1] = CR /\ (n > 0 => s[n] # CR)
<1>1. (n + 1) + 1 - 1 = n + 1 /\ (n + 1) - 1 = n /\ (n + 1 > 1 <=> n > 0)
  OBVIOUS
<1>2. \A i : i \in n + 1..n + 1 <=> i = n + 1
  OBVIOUS
<1> QED
  BY <1>1, <1>2 DEF CrRun

\* Behind a \r there is one.
LEMMA RunExists ==
  ASSUME NEW s, NEW n \in Nat, n > 0, s[n] = CR
  PROVE  \E k \in 1..n : CrRun(s, n, k)
<1> DEFINE S == {k \in 1..n : \A i \in n + 1 - k..n : s[i] = CR}
<1>1. S \in SUBSET (0..n) /\ 1 \in S
  <2>1. \A i \in n + 1 - 1..n : i = n
    OBVIOUS
  <2> QED
    BY <2>1
<1>2. PICK k \in S : \A m \in S : m <= k
  BY <1>1, Greatest
<1>3. ASSUME n > k PROVE s[n - k] # CR
  <2> SUFFICES ASSUME s[n - k] = CR PROVE FALSE
    OBVIOUS
  <2>1. k + 1 \in 1..n /\ ~(k + 1 <= k)
    BY <1>2, <1>3
  <2>2. \A i \in n + 1 - (k + 1)..n : i = n - k \/ i \in n + 1 - k..n
    BY <1>2
  <2>3. k + 1 \in S
    BY <1>2, <2>1, <2>2
  <2> QED
    BY <1>2, <2>1, <2>3
<1> QED
  BY <1>2, <1>3 DEF CrRun

LEMMA NextIsOdd ==
  ASSUME NEW k \in Nat
  PROVE  (k + 1) % 2 = 1 <=> k % 2 # 1
OBVIOUS

\* A \r ends an odd run just if none ended before it.
LEMMA OddRunStep ==
  ASSUME NEW s, NEW n \in Nat
  PROVE  OddRun(s, n + 1) <=> ~OddRun(s, n) /\ s[n + 1] = CR
<1>1. ASSUME OddRun(s, n), OddRun(s, n + 1) PROVE FALSE
  <2>1. PICK j \in 1..n : j % 2 = 1 /\ CrRun(s, n, j)
    BY <1>1 DEF OddRun
  <2>2. PICK k \in 1..n + 1 : k % 2 = 1 /\ CrRun(s, n + 1, k)
    BY <1>1 DEF OddRun
  <2>3. s[n] = CR /\ n > 0
    <3>1. n \in n + 1 - j..n /\ n > 0
      OBVIOUS
    <3> QED
      BY <2>1, <3>1 DEF CrRun
  <2>4. k # 1
    BY <2>2, <2>3, RunBegins
  <2>5. PICK m \in 1..n : k = m + 1
    <3>1. k - 1 \in 1..n /\ k = (k - 1) + 1
      BY <2>4
    <3> QED
      BY <3>1
  <2>6. CrRun(s, n, m)
    BY <2>2, <2>5, RunGrows
  <2>7. m = j
    BY <2>1, <2>6, RunIsOne
  <2>8. m \in Nat
    OBVIOUS
  <2> QED
    BY <2>1, <2>2, <2>5, <2>7, <2>8, NextIsOdd
<1>2. ASSUME OddRun(s, n + 1) PROVE s[n + 1] = CR
  <2>1. PICK k \in 1..n + 1 : CrRun(s, n + 1, k)
    BY <1>2 DEF OddRun
  <2>2. n + 1 \in (n + 1) + 1 - k..n + 1
    OBVIOUS
  <2> QED
    BY <2>1, <2>2 DEF CrRun
<1>3. ASSUME ~OddRun(s, n), s[n + 1] = CR PROVE OddRun(s, n + 1)
  <2>1. CASE n > 0 /\ s[n] = CR
    <3>1. PICK k \in 1..n : CrRun(s, n, k)
      BY <2>1, RunExists
    <3>2. k % 2 # 1
      BY <1>3, <3>1 DEF OddRun
    <3>3. k \in Nat /\ k + 1 \in 1..n + 1
      OBVIOUS
    <3>4. (k + 1) % 2 = 1
      BY <3>2, <3>3, NextIsOdd
    <3>5. CrRun(s, n + 1, k + 1)
      BY <1>3, <3>1, RunGrows
    <3> QED
      BY <3>3, <3>4, <3>5 DEF OddRun
  <2>2. CASE ~(n > 0 /\ s[n] = CR)
    <3>1. CrRun(s, n + 1, 1)
      BY <1>3, <2>2, RunBegins
    <3>2. 1 \in 1..n + 1 /\ 1 % 2 = 1
      OBVIOUS
    <3> QED
      BY <3>1, <3>2 DEF OddRun
  <2> QED
    BY <2>1, <2>2
<1> QED
  BY <1>1, <1>2, <1>3

\* found_cr, after any number of bytes.
LEMMA FoundCrIs ==
  ASSUME NEW s \in Seq(Byte), NEW n \in 0..Len(s)
  PROVE  FoundCr(s, n) <=> OddRun(s, n)
<1> DEFINE F == [m \in 0..Len(s) |-> OddRun(s, m)]
           Scan(f) == f = [m \in 0..Len(s) |-> m > 0 /\ IF f[m - 1] THEN FALSE ELSE s[m] = CR]
<1>0. ~OddRun(s, 0) /\ 0 \in 0..Len(s)
  <2>1. \A k : k \notin 1..0
    OBVIOUS
  <2> QED
    BY <2>1 DEF OddRun
<1>1. Scan(F)
  <2>1. ASSUME NEW m \in 0..Len(s)
        PROVE  OddRun(s, m) = (m > 0 /\ IF F[m - 1] THEN FALSE ELSE s[m] = CR)
    <3>1. CASE m = 0
      <4>1. ~(m > 0) /\ ~OddRun(s, m)
        BY <1>0, <3>1
      <4> QED
        BY <4>1
    <3>2. CASE m # 0
      <4>1. m - 1 \in Nat /\ (m - 1) + 1 = m /\ m > 0 /\ m - 1 \in 0..Len(s)
        BY <3>2
      <4>2. OddRun(s, m) <=> ~OddRun(s, m - 1) /\ s[m] = CR
        BY <4>1, OddRunStep
      <4>3. F[m - 1] = OddRun(s, m - 1)
        BY <4>1
      <4> HIDE DEF F
      <4>4. OddRun(s, m) \in BOOLEAN
        BY DEF OddRun
      <4> QED
        BY <4>1, <4>2, <4>3, <4>4
    <3> QED
      BY <3>1, <3>2
  <2> QED
    BY <2>1
<1> DEFINE f == CHOOSE f : Scan(f)
<1>2. Scan(f)
  BY <1>1
<1>3. FoundCr(s, n) = f[n]
  BY DEF FoundCr
<1>4. \A m \in 0..Len(s) : f[m] = (m > 0 /\ IF f[m - 1] THEN FALSE ELSE s[m] = CR)
  BY <1>2
<1> HIDE DEF f, F
<1> DEFINE S == {m \in Nat : m <= Len(s) => (f[m] <=> OddRun(s, m))}
<1>5. 0 \in S
  <2>1. f[0] = (0 > 0 /\ IF f[0 - 1] THEN FALSE ELSE s[0] = CR)
    BY <1>0, <1>4
  <2>a. ~(0 > 0)
    OBVIOUS
  <2>b. f[0] = FALSE
    BY <2>1, <2>a, Zenon
  <2>2. ~f[0]
    BY <2>b
  <2> QED
    BY <1>0, <2>2
<1>6. ASSUME NEW m \in Nat, m \in S PROVE m + 1 \in S
  <2> SUFFICES ASSUME m + 1 <= Len(s) PROVE f[m + 1] <=> OddRun(s, m + 1)
    OBVIOUS
  <2>1. m + 1 \in 0..Len(s) /\ m + 1 > 0 /\ (m + 1) - 1 = m /\ m <= Len(s)
    OBVIOUS
  <2>2. f[m + 1] = (m + 1 > 0 /\ IF f[(m + 1) - 1] THEN FALSE ELSE s[m + 1] = CR)
    BY <1>4, <2>1
  <2>3. f[m] <=> OddRun(s, m)
    BY <1>6, <2>1
  <2>4. OddRun(s, m + 1) <=> ~OddRun(s, m) /\ s[m + 1] = CR
    BY OddRunStep
  <2> QED
    BY <2>1, <2>2, <2>3, <2>4
<1>7. Nat \subseteq S
  BY <1>5, <1>6, SetInduction
<1>8. n \in S
  BY <1>7
<1> QED
  BY <1>3, <1>8

\* So a line ends where it should, whatever is behind it.
LEMMA FoundLfIs ==
  ASSUME NEW s \in Seq(Byte), NEW n \in 1..Len(s)
  PROVE  FoundLf(s, n) <=> EndsLine(s, n)
<1>1. n \in Nat \ {0} /\ n - 1 \in 0..Len(s)
  OBVIOUS
<1>2. OddCr(s, n) <=> OddRun(s, n - 1)
  BY <1>1, OddRunIs
<1>3. FoundCr(s, n - 1) <=> OddRun(s, n - 1)
  BY <1>1, FoundCrIs
<1>4. OddRun(s, n - 1) => n > 1
  BY <1>1 DEF OddRun
<1> QED
  BY <1>2, <1>3, <1>4 DEF FoundLf, EndsLine

LEMMA EndsInFront ==
  ASSUME NEW s, NEW t, NEW n \in Nat, \A i \in 1..n : s[i] = t[i], n > 0
  PROVE  EndsLine(s, n) <=> EndsLine(t, n)
<1>1. \A k \in 1..n - 1 : /\ \A i \in n - k..n - 1 : i \in 1..n
                          /\ n - k > 1 => n - k - 1 \in 1..n
  OBVIOUS
<1>2. n \in 1..n
  OBVIOUS
<1>3. OddCr(s, n) <=> OddCr(t, n)
  BY <1>1 DEF OddCr
<1> QED
  BY <1>2, <1>3 DEF EndsLine

LEMMA Limits ==
  MaxLine \in Nat \ {0} /\ MaxCmnd \in Nat \ {0} /\ ReadSize \in Nat \ {0}
BY LineReaderAssumption

LEMMA MinIs ==
  ASSUME NEW S \in SUBSET Nat, S # {}
  PROVE  Min(S) \in S /\ \A m \in S : Min(S) <= m
<1>1. \E n \in S : \A m \in S : n <= m
  BY LeastNat
<1> QED
  BY <1>1 DEF Min

LEMMA MaxIs ==
  ASSUME NEW n \in Nat, NEW S \in SUBSET (0..n), S # {}
  PROVE  Max(S) \in S /\ \A m \in S : m <= Max(S)
<1>1. \E k \in S : \A m \in S : m <= k
  BY Greatest
<1>2. \E k \in S : \A m \in S : k >= m
  BY <1>1
<1>3. Max(S) \in S /\ \A m \in S : Max(S) >= m
  BY <1>2 DEF Max
<1> QED
  BY <1>3

\* What read_line takes off its buffer.
LEMMA LineOff ==
  ASSUME NEW s \in Seq(Byte), LineEnds(s) # {}, NEW n, n = Min(LineEnds(s)), NEW l, l = Take(s, n)
  PROVE  /\ n \in 1..MaxLine /\ l \in Seq(Byte) /\ Len(l) = n
         /\ Drop(s, n) \in Seq(Byte) /\ l \o Drop(s, n) = s
         /\ EndsLine(l, n) \/ n = MaxLine
         /\ \A m \in 1..n - 1 : ~EndsLine(l, m)
<1>1. LineEnds(s) \in SUBSET Nat
  BY DEF LineEnds
<1>2. n \in LineEnds(s) /\ \A m \in LineEnds(s) : n <= m
  BY <1>1, MinIs
<1>3. n \in 1..Len(s) /\ (FoundLf(s, n) \/ n = MaxLine)
  BY <1>2 DEF LineEnds
<1>4. n <= MaxLine
  <2> SUFFICES ASSUME ~(n <= MaxLine) PROVE FALSE
    OBVIOUS
  <2>1. MaxLine \in 1..Len(s)
    BY <1>3, Limits
  <2>2. MaxLine \in LineEnds(s)
    BY <2>1 DEF LineEnds
  <2> QED
    BY <1>2, <2>2
<1>5. n \in Nat /\ n > 0 /\ n <= Len(s) /\ n \in 1..MaxLine
  BY <1>3, <1>4, Limits
<1>6. Least(n, Len(s)) = n
  BY <1>5 DEF Least
<1>7. l \in Seq(Byte) /\ Len(l) = n /\ \A i \in 1..n : l[i] = s[i]
  <2>1. /\ Take(s, n) \in Seq(Byte) /\ Len(Take(s, n)) = Least(n, Len(s))
        /\ \A i \in 1..Least(n, Len(s)) : Take(s, n)[i] = s[i]
    BY <1>5, Taken
  <2> QED
    BY <1>6, <2>1
<1>8. Drop(s, n) \in Seq(Byte) /\ l \o Drop(s, n) = s
  BY <1>5, Dropped, CutInTwo
<1>9. \A m \in 1..n : EndsLine(l, m) <=> EndsLine(s, m)
  <2>1. ASSUME NEW m \in 1..n PROVE EndsLine(l, m) <=> EndsLine(s, m)
    <3>1. m \in Nat /\ m > 0 /\ \A i \in 1..m : l[i] = s[i]
      BY <1>5, <1>7
    <3> QED
      BY <3>1, EndsInFront
  <2> QED
    BY <2>1
<1>10. EndsLine(l, n) \/ n = MaxLine
  <2>1. n \in 1..n
    BY <1>5
  <2> QED
    BY <1>3, <1>9, <2>1, FoundLfIs
<1>11. ASSUME NEW m \in 1..n - 1 PROVE ~EndsLine(l, m)
  <2>1. m \in 1..Len(s) /\ m \in 1..n /\ ~(n <= m)
    BY <1>3, <1>5
  <2>2. ~FoundLf(s, m)
    BY <1>2, <2>1 DEF LineEnds
  <2> QED
    BY <1>9, <2>1, <2>2, FoundLfIs
<1> QED
  BY <1>5, <1>7, <1>8, <1>10, <1>11

\* What is left once there is no line.
LEMMA NoLineLeft ==
  ASSUME NEW s \in Seq(Byte), LineEnds(s) = {}
  PROVE  \A n \in 1..Len(s) : ~EndsLine(s, n) /\ n < MaxLine
<1>1. ASSUME NEW n \in 1..Len(s) PROVE ~EndsLine(s, n)
  <2>1. ~FoundLf(s, n)
    BY DEF LineEnds
  <2> QED
    BY <2>1, FoundLfIs
<1>2. ASSUME NEW n \in 1..Len(s) PROVE n < MaxLine
  <2> SUFFICES ASSUME ~(n < MaxLine) PROVE FALSE
    OBVIOUS
  <2>1. MaxLine \in 1..Len(s)
    BY Limits
  <2> QED
    BY <2>1 DEF LineEnds
<1> QED
  BY <1>1, <1>2

-------------------------------------------------------------------------------
(* The word of a command. *)

LEMMA RunIs ==
  ASSUME NEW s \in Seq(Byte), NEW n \in 0..Len(s), NEW kind
  PROVE  /\ RunEnd(s, n, kind) \in n..Len(s)
         /\ \A i \in n + 1..RunEnd(s, n, kind) : s[i] \in kind
         /\ RunEnd(s, n, kind) < Len(s) => s[RunEnd(s, n, kind) + 1] \notin kind
<1> DEFINE S == {m \in n..Len(s) : \A i \in n + 1..m : s[i] \in kind}
           r == Max(S)
<1>1. Len(s) \in Nat /\ S \in SUBSET (0..Len(s)) /\ n \in S
  <2>1. n \in n..Len(s) /\ \A i : i \notin n + 1..n
    OBVIOUS
  <2>2. n..Len(s) \subseteq 0..Len(s)
    OBVIOUS
  <2> QED
    BY <2>1, <2>2
<1>2. r \in S /\ \A m \in S : m <= r
  <2> HIDE DEF S
  <2> QED
    BY <1>1, MaxIs
<1>3. ASSUME r < Len(s) PROVE s[r + 1] \notin kind
  <2> SUFFICES ASSUME s[r + 1] \in kind PROVE FALSE
    OBVIOUS
  <2> HIDE DEF r
  <2>1. r + 1 \in n..Len(s) /\ ~(r + 1 <= r)
    BY <1>2, <1>3
  <2>2. \A i \in n + 1..r + 1 : i = r + 1 \/ i \in n + 1..r
    BY <1>2
  <2>3. r + 1 \in S
    BY <1>2, <2>1, <2>2
  <2> QED
    BY <1>2, <2>1, <2>3
<1>4. RunEnd(s, n, kind) = r
  BY DEF RunEnd
<1> QED
  BY <1>2, <1>3, <1>4

\* What is read of a command is what CommandIsRead says.
IsRead(line, is) ==
  /\ Len(is.word) \in 1..MaxCmnd
  /\ is.lineoff <= Len(line)
  /\ line[1] # Blank =>
       /\ IsPrefix(is.word, ToUpper(line))
       /\ \A i \in Len(is.word) + 1..is.lineoff : line[i] \in {Blank, Colon}
       /\ is.lineoff < Len(line) => line[is.lineoff + 1] \notin {Blank, Colon}

LEMMA UpperIs ==
  ASSUME NEW s \in Seq(Byte)
  PROVE  /\ ToUpper(s) \in Seq(Nat) /\ Len(ToUpper(s)) = Len(s)
         /\ \A i \in 1..Len(s) : ToUpper(s)[i] = IF s[i] \in Lower THEN s[i] - 32 ELSE s[i]
<1>1. DOMAIN s = 1..Len(s) /\ Len(s) \in Nat
  OBVIOUS
<1>2. \A i \in 1..Len(s) : (IF s[i] \in Lower THEN s[i] - 32 ELSE s[i]) \in Nat
  <2>1. ASSUME NEW i \in 1..Len(s)
        PROVE  (IF s[i] \in Lower THEN s[i] - 32 ELSE s[i]) \in Nat
    <3>1. s[i] \in Byte
      OBVIOUS
    <3>2. \A b \in Byte : b \in Nat
      BY DEF Byte
    <3>3. \A b \in Lower : b - 32 \in Nat
      BY DEF Lower
    <3> QED
      BY <3>1, <3>2, <3>3
  <2> QED
    BY <2>1
<1>3. ToUpper(s) = [i \in 1..Len(s) |-> IF s[i] \in Lower THEN s[i] - 32 ELSE s[i]]
  BY <1>1 DEF ToUpper
<1>4. ToUpper(s) \in [1..Len(s) -> Nat]
  BY <1>2, <1>3
<1> QED
  BY <1>1, <1>3, <1>4

LEMMA WordIsRead ==
  ASSUME NEW line \in Seq(Byte), CommandOf(line).word # <<>>
  PROVE  /\ IsRead(line, CommandOf(line))
         /\ CommandOf(line) \in [word : Seq(Nat), lineoff : Nat]
<1> DEFINE start == RunEnd(line, 0, {Blank})
           letters == RunEnd(line, start, Upper \cup Lower)
           end == Least(letters, start + MaxCmnd)
           arg == RunEnd(line, end, {Blank, Colon})
           text == SubSeq(line, start + 1, end)
           word == ToUpper(text)
<1>1. CommandOf(line) = [word |-> word, lineoff |-> (end - start) + (arg - end)]
  BY DEF CommandOf
<1>2. Len(line) \in Nat /\ 0 \in 0..Len(line)
  OBVIOUS
<1>3. start \in 0..Len(line) /\ \A i \in 1..start : line[i] = Blank
  <2>1. /\ start \in 0..Len(line)
        /\ \A i \in 0 + 1..start : line[i] \in {Blank}
    BY <1>2, RunIs
  <2> HIDE DEF start
  <2>2. \A i \in 1..start : line[i] \in {Blank}
    BY <2>1
  <2> QED
    BY <2>1, <2>2
<1> HIDE DEF start
<1>4. letters \in start..Len(line)
  BY <1>3, RunIs
<1> HIDE DEF letters
<1>5. end \in start..Len(line) /\ end <= start + MaxCmnd /\ end \in 0..Len(line)
  BY <1>3, <1>4, Limits DEF Least
<1> HIDE DEF end
<1>6. /\ arg \in end..Len(line)
      /\ \A i \in end + 1..arg : line[i] \in {Blank, Colon}
      /\ arg < Len(line) => line[arg + 1] \notin {Blank, Colon}
  BY <1>5, RunIs
<1> HIDE DEF arg
<1>7. /\ text \in Seq(Byte) /\ Len(text) = end - start
      /\ \A i \in 1..end - start : text[i] = line[start + i]
  <2>1. start + 1 \in 1..Len(line) + 1 /\ start + 1 <= end + 1 /\ end \in 0..Len(line)
    BY <1>3, <1>5
  <2> QED
    BY <1>2, <1>3, <1>5, <2>1
<1> HIDE DEF text
<1>8. /\ word \in Seq(Nat) /\ Len(word) = end - start
      /\ \A i \in 1..end - start :
           word[i] = IF text[i] \in Lower THEN text[i] - 32 ELSE text[i]
  BY <1>7, UpperIs
<1>9. /\ ToUpper(line) \in Seq(Nat) /\ Len(ToUpper(line)) = Len(line)
      /\ \A i \in 1..Len(line) :
           ToUpper(line)[i] = IF line[i] \in Lower THEN line[i] - 32 ELSE line[i]
  BY UpperIs
<1> HIDE DEF word
<1>10. Len(word) \in 1..MaxCmnd
  <2>1. word # <<>>
    BY <1>1
  <2>2. Len(word) # 0
    BY <1>8, <2>1
  <2>3. end - start \in Nat /\ end - start <= MaxCmnd
    BY <1>3, <1>5, Limits
  <2> QED
    BY <1>8, <2>2, <2>3, Limits
<1>11. (end - start) + (arg - end) = arg - start /\ arg - start \in Nat /\ arg - start <= Len(line)
  BY <1>2, <1>3, <1>5, <1>6
<1>12. ASSUME line[1] # Blank
       PROVE  /\ IsPrefix(word, ToUpper(line))
              /\ \A i \in Len(word) + 1..arg - start : line[i] \in {Blank, Colon}
              /\ arg - start < Len(line) => line[arg - start + 1] \notin {Blank, Colon}
  <2>1. start = 0
    <3>1. start > 0 => 1 \in 1..start
      BY <1>3
    <3> QED
      BY <1>3, <1>12, <3>1
  <2>2. end - start = end /\ arg - start = arg /\ Len(word) = end /\ \A i \in 1..end : start + i = i
    BY <1>5, <1>6, <1>8, <2>1
  <2> DEFINE u == ToUpper(line)
  <2>3. ASSUME NEW i \in 1..end PROVE word[i] = u[i]
    <3>1. i \in 1..Len(line) /\ i \in 1..end - start /\ text[i] = line[i]
      BY <1>5, <1>7, <2>2
    <3> QED
      BY <1>8, <1>9, <3>1
  <2>4. u \in Seq(Nat) /\ Len(u) = Len(line)
    BY <1>9
  <2> HIDE DEF u
  <2>5. IsPrefix(word, u)
    <3>1. Len(word) <= Len(u) /\ end \in Nat /\ end <= Len(u)
      BY <1>5, <2>2, <2>4
    <3>2. SubSeq(word, 1, end) \in Seq(Nat) /\ Len(SubSeq(word, 1, end)) = end
          /\ \A i \in 1..end : SubSeq(word, 1, end)[i] = word[i]
      BY <1>8, <2>2, <3>1
    <3>3. SubSeq(u, 1, end) \in Seq(Nat) /\ Len(SubSeq(u, 1, end)) = end
          /\ \A i \in 1..end : SubSeq(u, 1, end)[i] = u[i]
      BY <2>4, <3>1
    <3> DEFINE a == SubSeq(word, 1, end)
               b == SubSeq(u, 1, end)
    <3> HIDE DEF a, b
    <3>4. a = b
      <4>1. a \in Seq(Nat) /\ b \in Seq(Nat) /\ Len(a) = Len(b) /\ \A i \in 1..Len(a) : a[i] = b[i]
        BY <2>3, <3>2, <3>3 DEF a, b
      <4> QED
        BY <4>1, SameText
    <3> QED
      BY <2>2, <3>1, <3>4 DEF IsPrefix, a, b
  <2> QED
    BY <1>6, <2>2, <2>5 DEF u
<1> QED
  BY <1>1, <1>8, <1>10, <1>11, <1>12 DEF IsRead

-------------------------------------------------------------------------------
(* What SSL has of a record. *)

SslState == [missing : Nat, part : Seq(Byte), plain : Seq(Byte)]

\* No record is empty.
Seal(t) == IF t = <<>> THEN <<>> ELSE Sealed(t)

LEMMA EmptyText == <<>> \in Seq(Byte) /\ Len(<<>>) = 0
OBVIOUS

LEMMA NoText ==
  ASSUME NEW s \in Seq(Byte)
  PROVE  Len(s) = 0 <=> s = <<>>
OBVIOUS

LEMMA AllTaken ==
  ASSUME NEW s \in Seq(Byte), NEW n \in Nat, Len(s) <= n
  PROVE  Take(s, n) = s /\ Drop(s, n) = <<>>
<1>1. Drop(s, n) \in Seq(Byte) /\ Len(Drop(s, n)) = 0
  <2>1. /\ Drop(s, n) \in Seq(Byte)
        /\ Len(Drop(s, n)) = IF n <= Len(s) THEN Len(s) - n ELSE 0
    BY Dropped
  <2>2. Len(s) \in Nat
    OBVIOUS
  <2> QED
    BY <2>1, <2>2
<1>2. Drop(s, n) = <<>>
  BY <1>1, NoText
<1>3. Take(s, n) \o <<>> = s
  BY <1>2, CutInTwo
<1>4. Take(s, n) \in Seq(Byte)
  BY Taken
<1>5. Take(s, n) \o <<>> = Take(s, n)
  BY <1>4, Joined
<1> QED
  BY <1>2, <1>3, <1>5

LEMMA SealedIs ==
  ASSUME NEW x \in Seq(Byte), Len(x) \in Byte
  PROVE  /\ Sealed(x) \in Seq(Byte) /\ Len(Sealed(x)) = Len(x) + 1
         /\ Take(Sealed(x), 1) = <<Len(x)>> /\ Drop(Sealed(x), 1) = x
<1> DEFINE h == <<Len(x)>>
<1>1. h \in Seq(Byte) /\ Len(h) = 1
  OBVIOUS
<1> HIDE DEF h
<1>2. Sealed(x) = h \o x
  BY DEF Sealed, h
<1>3. h \o x \in Seq(Byte) /\ Len(h \o x) = 1 + Len(x) /\ Len(x) \in Nat
  <2>1. h \o x \in Seq(Byte) /\ Len(h \o x) = Len(h) + Len(x) /\ Len(x) \in Nat
    BY <1>1, Joined
  <2> QED
    BY <1>1, <2>1
<1>4. Take(h \o x, 1) = Take(h, 1) /\ Drop(h \o x, 1) = Drop(h, 1) \o x
  <2>1. h \in Seq(Byte) /\ 1 \in Nat /\ 1 <= Len(h)
    BY <1>1
  <2> QED
    BY <2>1, FrontOf
<1>5. Take(h, 1) = h /\ Drop(h, 1) = <<>>
  BY <1>1, AllTaken
<1>6. <<>> \o x = x
  BY Joined
<1>7. Take(h \o x, 1) = h /\ Drop(h \o x, 1) = x
  BY <1>4, <1>5, <1>6
<1>8. Sealed(x) \in Seq(Byte) /\ Len(Sealed(x)) = Len(x) + 1
  BY <1>2, <1>3
<1>9. Take(Sealed(x), 1) = h /\ Drop(Sealed(x), 1) = x
  BY <1>2, <1>7
<1> QED
  BY <1>8, <1>9 DEF h

LEMMA SealIs ==
  ASSUME NEW x \in Seq(Byte), Len(x) \in Byte
  PROVE  /\ Seal(x) \in Seq(Byte)
         /\ Seal(x) = <<>> <=> x = <<>>
<1>1. Sealed(x) \in Seq(Byte) /\ Len(Sealed(x)) = Len(x) + 1 /\ Len(x) \in Nat
  BY SealedIs
<1>2. Sealed(x) # <<>>
  BY <1>1, EmptyText
<1> QED
  BY <1>1, <1>2, EmptyText DEF Seal

\* What has arrived, d, and what is on the wire, w, are the record of x and what follows it.
RecordNext(d, w, x, z) ==
  /\ d \in Seq(Byte) /\ w \in Seq(Byte) /\ x \in Seq(Byte) /\ z \in Seq(Byte)
  /\ d # <<>> /\ Len(x) \in Byte
  /\ d \o w = Sealed(x) \o z

\* The length of a record is read, and its bytes come next.
LEMMA LengthRead ==
  ASSUME NEW x1, NEW z1, NEW d1, NEW w1, RecordNext(d1, w1, x1, z1)
  PROVE  Take(d1, 1) = <<Len(x1)>> /\ Drop(d1, 1) \o w1 = x1 \o z1
<1>0. /\ d1 \in Seq(Byte) /\ w1 \in Seq(Byte) /\ x1 \in Seq(Byte) /\ z1 \in Seq(Byte)
      /\ d1 # <<>> /\ Len(x1) \in Byte
      /\ d1 \o w1 = Sealed(x1) \o z1
  BY DEF RecordNext
<1>1. 1 <= Len(d1) /\ Len(d1) \in Nat
  BY <1>0
<1>2. Take(d1 \o w1, 1) = Take(d1, 1) /\ Drop(d1 \o w1, 1) = Drop(d1, 1) \o w1
  BY <1>0, <1>1, FrontOf
<1>3. /\ Sealed(x1) \in Seq(Byte) /\ 1 <= Len(Sealed(x1))
      /\ Take(Sealed(x1), 1) = <<Len(x1)>> /\ Drop(Sealed(x1), 1) = x1
  <2>1. Len(x1) \in Nat
    BY <1>0
  <2> QED
    BY <1>0, <2>1, SealedIs
<1>4. /\ Take(Sealed(x1) \o z1, 1) = Take(Sealed(x1), 1)
      /\ Drop(Sealed(x1) \o z1, 1) = Drop(Sealed(x1), 1) \o z1
  <2>1. Sealed(x1) \in Seq(Byte) /\ 1 <= Len(Sealed(x1)) /\ 1 \in Nat
    BY <1>3
  <2> QED
    BY <1>0, <2>1, FrontOf
<1> QED
  BY <1>0, <1>2, <1>3, <1>4

\* A text is cut off what follows it.
LEMMA WholeFront ==
  ASSUME NEW p \in Seq(Byte), NEW q \in Seq(Byte)
  PROVE  Take(p \o q, Len(p)) = p /\ Drop(p \o q, Len(p)) = q
<1> DEFINE n == Len(p)
<1>1. n \in Nat /\ n <= Len(p) /\ Len(p) <= n
  OBVIOUS
<1> HIDE DEF n
<1>2. Take(p \o q, n) = Take(p, n) /\ Drop(p \o q, n) = Drop(p, n) \o q
  BY <1>1, FrontOf
<1>3. Take(p, n) = p /\ Drop(p, n) = <<>>
  BY <1>1, AllTaken
<1>4. <<>> \o q = q
  BY Joined
<1> QED
  BY <1>2, <1>3, <1>4 DEF n

\* As much of b is read as has arrived.
LEMMA BodyRead ==
  ASSUME NEW b \in Seq(Byte), NEW z \in Seq(Byte), NEW d \in Seq(Byte), NEW w \in Seq(Byte),
         d \o w = b \o z
  PROVE  \E c \in Seq(Byte) :
           /\ Take(d, Len(b)) \o c = b
           /\ Drop(d, Len(b)) \o w = c \o z
           /\ Len(c) = Len(b) - Len(Take(d, Len(b)))
           /\ Len(Take(d, Len(b))) <= Len(b)
           /\ Len(Take(d, Len(b))) < Len(b) => Drop(d, Len(b)) = <<>>
<1>1. Len(b) \in Nat /\ Len(d) \in Nat
  OBVIOUS
<1>2. CASE Len(b) <= Len(d)
  <2>1. /\ Take(d \o w, Len(b)) = Take(d, Len(b))
        /\ Drop(d \o w, Len(b)) = Drop(d, Len(b)) \o w
    BY <1>1, <1>2, FrontOf
  <2>2. Take(b \o z, Len(b)) = b /\ Drop(b \o z, Len(b)) = z
    BY WholeFront
  <2>3. <<>> \o z = z
    BY Joined
  <2>4. Take(d, Len(b)) = b /\ Drop(d, Len(b)) \o w = <<>> \o z
    BY <2>1, <2>2, <2>3
  <2>5. b \o <<>> = b
    BY Joined
  <2>6. Len(<<>>) = Len(b) - Len(b) /\ Len(b) <= Len(b) /\ ~(Len(b) < Len(b))
    BY <1>1, EmptyText
  <2> QED
    BY <2>4, <2>5, <2>6, EmptyText
<1>3. CASE ~(Len(b) <= Len(d))
  <2>1. Len(d) <= Len(b) /\ Len(d) < Len(b)
    BY <1>1, <1>3
  <2>2. Take(d, Len(b)) = d /\ Drop(d, Len(b)) = <<>>
    BY <1>1, <2>1, AllTaken
  <2>3. /\ Take(b \o z, Len(d)) = Take(b, Len(d))
        /\ Drop(b \o z, Len(d)) = Drop(b, Len(d)) \o z
    BY <1>1, <2>1, FrontOf
  <2>4. Take(d \o w, Len(d)) = d /\ Drop(d \o w, Len(d)) = w
    BY WholeFront
  <2> DEFINE c == Drop(b, Len(d))
  <2>5. c \in Seq(Byte) /\ Len(c) = Len(b) - Len(d)
    <3>1. c \in Seq(Byte) /\ Len(c) = IF Len(d) <= Len(b) THEN Len(b) - Len(d) ELSE 0
      BY <1>1, Dropped
    <3> QED
      BY <2>1, <3>1
  <2>6. d \o c = b
    <3>1. Take(b, Len(d)) \o c = b
      BY <1>1, CutInTwo
    <3> QED
      BY <2>3, <2>4, <3>1
  <2>7. <<>> \o w = c \o z
    <3>1. <<>> \o w = w
      BY Joined
    <3> QED
      BY <2>3, <2>4, <3>1
  <2> HIDE DEF c
  <2> QED
    BY <2>1, <2>2, <2>5, <2>6, <2>7
<1> QED
  BY <1>2, <1>3

\* What is still to come: the rest of a record and two more.
ToCome(arrived, missing, b, u, v) ==
  /\ b \in Seq(Byte) /\ u \in Seq(Byte) /\ v \in Seq(Byte)
  /\ Len(u) \in Byte /\ Len(v) \in Byte
  /\ Len(b) = missing
  /\ arrived = b \o (Seal(u) \o Seal(v))

TextOf(b, u, v) == b \o (u \o v)

\* d is read from the start of a record on.
Begins(d, w, b, u, v) ==
  /\ d \in Seq(Byte) /\ w \in Seq(Byte) /\ d # <<>>
  /\ ToCome(d \o w, 0, b, u, v)

\* The record that is read next.
LEMMA RecordBegun ==
  ASSUME NEW d, NEW w, NEW b, NEW u, NEW v, Begins(d, w, b, u, v)
  PROVE  \E x, y, z :
           /\ ToCome(Drop(d, 1) \o w, Len(x), x, y, z)
           /\ Take(d, 1) = <<Len(x)>> /\ Len(x) > 0
           /\ TextOf(x, y, z) = TextOf(b, u, v)
<1>0. /\ b \in Seq(Byte) /\ u \in Seq(Byte) /\ v \in Seq(Byte)
      /\ Len(u) \in Byte /\ Len(v) \in Byte /\ Len(b) = 0
      /\ d \o w = b \o (Seal(u) \o Seal(v))
      /\ d \in Seq(Byte) /\ w \in Seq(Byte) /\ d # <<>>
  BY DEF Begins, ToCome
<1>1. b = <<>>
  BY <1>0, NoText
<1>2. /\ Seal(u) \in Seq(Byte) /\ Seal(v) \in Seq(Byte)
      /\ (Seal(u) = <<>> <=> u = <<>>) /\ (Seal(v) = <<>> <=> v = <<>>)
  BY <1>0, SealIs
<1>3. Seal(u) \o Seal(v) \in Seq(Byte) /\ u \o v \in Seq(Byte)
  BY <1>0, <1>2, Joined
<1>4. d \o w = Seal(u) \o Seal(v) /\ TextOf(b, u, v) = u \o v
  <2>1. /\ <<>> \o (Seal(u) \o Seal(v)) = Seal(u) \o Seal(v)
        /\ <<>> \o (u \o v) = u \o v
    BY <1>3, Joined
  <2> QED
    BY <1>0, <1>1, <2>1 DEF TextOf
<1>5. Seal(<<>>) = <<>> /\ 0 \in Byte
  BY DEF Seal, Byte
<1>6. CASE u # <<>>
  <2>1. Seal(u) = Sealed(u)
    BY <1>6 DEF Seal
  <2>2. Take(d, 1) = <<Len(u)>> /\ Drop(d, 1) \o w = u \o Seal(v)
    <3>1. u \in Seq(Byte) /\ Len(u) \in Byte /\ Seal(v) \in Seq(Byte)
      BY <1>0, <1>2
    <3> DEFINE z == Seal(v)
    <3>2. d \o w = Sealed(u) \o z /\ z \in Seq(Byte)
      BY <1>4, <2>1, <3>1
    <3> HIDE DEF z
    <3>3. RecordNext(d, w, u, z)
      BY <1>0, <3>1, <3>2 DEF RecordNext
    <3>4. Take(d, 1) = <<Len(u)>> /\ Drop(d, 1) \o w = u \o z
      BY <3>3, LengthRead
    <3> QED
      BY <3>4 DEF z
  <2>3. Seal(v) \o Seal(<<>>) = Seal(v) /\ v \o <<>> = v
    BY <1>0, <1>2, <1>5, Joined
  <2>4. Len(u) > 0
    <3>1. Len(u) \in Nat /\ Len(u) # 0
      BY <1>0, <1>6, NoText
    <3> QED
      BY <3>1
  <2>5. ToCome(Drop(d, 1) \o w, Len(u), u, v, <<>>)
    BY <1>0, <1>5, <2>2, <2>3, EmptyText DEF ToCome
  <2>6. TextOf(u, v, <<>>) = TextOf(b, u, v)
    BY <1>4, <2>3 DEF TextOf
  <2> QED
    BY <2>2, <2>4, <2>5, <2>6
<1>7. CASE u = <<>> /\ v # <<>>
  <2>1. Seal(v) = Sealed(v) /\ Seal(u) = <<>>
    BY <1>5, <1>7 DEF Seal
  <2>2. <<>> \o Seal(v) = Seal(v) /\ Sealed(v) \o <<>> = Sealed(v) /\ u \o v = v
    <3>1. Sealed(v) \in Seq(Byte)
      BY <1>2, <2>1
    <3>2. <<>> \o Seal(v) = Seal(v) /\ Sealed(v) \o <<>> = Sealed(v)
      BY <1>2, <3>1, Joined
    <3>3. <<>> \o v = v
      BY <1>0, Joined
    <3> QED
      BY <1>7, <3>2, <3>3
  <2>3. d \o w = Sealed(v) \o <<>>
    BY <1>4, <2>1, <2>2
  <2>4. Take(d, 1) = <<Len(v)>> /\ Drop(d, 1) \o w = v \o <<>>
    <3>1. RecordNext(d, w, v, <<>>)
      BY <1>0, <2>3, EmptyText DEF RecordNext
    <3> QED
      BY <3>1, LengthRead
  <2>5. <<>> \o <<>> = <<>> /\ v \o <<>> = v
    BY <1>0, EmptyText, Joined
  <2>6. Len(v) > 0
    <3>1. Len(v) \in Nat /\ Len(v) # 0
      BY <1>0, <1>7, NoText
    <3> QED
      BY <3>1
  <2>7. ToCome(Drop(d, 1) \o w, Len(v), v, <<>>, <<>>)
    BY <1>0, <1>5, <2>4, <2>5, EmptyText DEF ToCome
  <2>8. TextOf(v, <<>>, <<>>) = TextOf(b, u, v)
    BY <1>4, <2>2, <2>5 DEF TextOf
  <2> QED
    BY <2>4, <2>6, <2>7, <2>8
<1>8. CASE u = <<>> /\ v = <<>>
  <2>1. d \o w = <<>> \o <<>>
    BY <1>4, <1>5, <1>8
  <2>2. Len(d) + Len(w) = 0 /\ Len(d) \in Nat /\ Len(w) \in Nat
    <3>1. Len(d \o w) = Len(d) + Len(w) /\ Len(d) \in Nat /\ Len(w) \in Nat
      BY <1>0, Joined
    <3>2. <<>> \o <<>> = <<>>
      BY EmptyText, Joined
    <3> QED
      BY <2>1, <3>1, <3>2, EmptyText
  <2> QED
    BY <1>0, <2>2, NoText
<1> QED
  BY <1>6, <1>7, <1>8

\* left and ssl are what such a turn makes of s.
Moved(s, left, ssl2, w, text) ==
  /\ left \in Seq(Byte) /\ ssl2 \in SslState
  /\ ssl2.missing = 0 => ssl2.part = <<>>
  /\ s.plain = <<>> /\ ssl2.plain = <<>> => left = <<>>
  /\ \E x, y, z :
       /\ ToCome(left \o w, ssl2.missing, x, y, z)
       /\ (s.plain \o s.part) \o text = (ssl2.plain \o ssl2.part) \o TextOf(x, y, z)

\* d is read next, in the state s of SSL, and no byte is lost so far.
Readable(s, d, w, b, u, v) ==
  /\ s \in SslState /\ d \in Seq(Byte) /\ w \in Seq(Byte)
  /\ ToCome(d \o w, s.missing, b, u, v)
  /\ s.missing = 0 => s.part = <<>>

\* One turn of SSL takes the text on, and loses none of it.
LEMMA RecordRead ==
  ASSUME NEW s, NEW d, NEW w, NEW b, NEW u, NEW v, Readable(s, d, w, b, u, v)
  PROVE  Moved(s, RecordTaken(s, d).left, RecordTaken(s, d).ssl, w, TextOf(b, u, v))
<1> DEFINE head == IF s.missing = 0 THEN sslsocket_read(d, 1) ELSE sslsocket_read(d, 0)
           missing == IF head.returned = <<>> THEN s.missing ELSE head.returned[1]
           left == head.left
           returned == Take(left, missing)
           behind == Drop(left, missing)
           part == s.part \o returned
           whole == missing > 0 /\ Len(returned) = missing
           ssl2 == IF whole THEN [missing |-> 0, part |-> <<>>, plain |-> s.plain \o part]
                   ELSE [missing |-> missing - Len(returned), part |-> part, plain |-> s.plain]
<1>0. /\ s.missing \in Nat /\ s.part \in Seq(Byte) /\ s.plain \in Seq(Byte)
      /\ d \in Seq(Byte) /\ w \in Seq(Byte)
      /\ ToCome(d \o w, s.missing, b, u, v)
      /\ s.missing = 0 => s.part = <<>>
  BY DEF Readable, SslState
<1>1. RecordTaken(s, d) = [left |-> behind, ssl |-> ssl2]
  BY DEF RecordTaken, sslsocket_read
<1> HIDE DEF ssl2, whole, part, behind, returned
\* The length.
<1>2. /\ left \in Seq(Byte) /\ missing \in Nat
      /\ missing = 0 => left = <<>> /\ s.missing = 0
      /\ \E x, y, z : /\ ToCome(left \o w, missing, x, y, z)
                      /\ TextOf(x, y, z) = TextOf(b, u, v)
  <2>1. CASE s.missing = 0 /\ d = <<>>
    <3>1. Take(d, 1) = <<>> /\ Drop(d, 1) = <<>>
      <4>1. d \in Seq(Byte) /\ 1 \in Nat /\ Len(d) <= 1
        BY <1>0, <2>1, EmptyText
      <4>2. Take(d, 1) = d /\ Drop(d, 1) = <<>>
        BY <4>1, AllTaken
      <4> QED
        BY <2>1, <4>2
    <3>2. head.returned = <<>> /\ left = d
      BY <2>1, <3>1 DEF sslsocket_read
    <3>3. missing = s.missing
      BY <3>2
    <3> QED
      BY <1>0, <2>1, <3>2, <3>3
  <2>2. CASE s.missing = 0 /\ d # <<>>
    <3>1. PICK x, y, z :
            /\ ToCome(Drop(d, 1) \o w, Len(x), x, y, z)
            /\ Take(d, 1) = <<Len(x)>> /\ Len(x) > 0
            /\ TextOf(x, y, z) = TextOf(b, u, v)
      <4>1. Begins(d, w, b, u, v)
        BY <1>0, <2>2 DEF Begins
      <4> QED
        BY <4>1, RecordBegun
    <3>2. head.returned = <<Len(x)>> /\ left = Drop(d, 1)
      BY <2>2, <3>1 DEF sslsocket_read
    <3>3. <<Len(x)>> # <<>> /\ <<Len(x)>>[1] = Len(x)
      OBVIOUS
    <3>4. missing = Len(x)
      BY <3>2, <3>3
    <3>5. Len(x) \in Nat
      <4>1. x \in Seq(Byte)
        BY <3>1 DEF ToCome
      <4> QED
        BY <4>1
    <3>6. Drop(d, 1) \in Seq(Byte)
      BY <1>0, Dropped
    <3> HIDE DEF missing, left, head
    <3>7. missing # 0 /\ missing \in Nat /\ left \in Seq(Byte)
      BY <3>1, <3>2, <3>4, <3>5, <3>6
    <3>8. ToCome(left \o w, missing, x, y, z) /\ TextOf(x, y, z) = TextOf(b, u, v)
      BY <3>1, <3>2, <3>4
    <3> QED
      BY <3>7, <3>8
  <2>3. CASE s.missing # 0
    <3>1. Take(d, 0) = <<>> /\ Drop(d, 0) = d
      <4>1. Take(d, 0) \in Seq(Byte) /\ Len(Take(d, 0)) = 0
        <5>1. 0 \in Nat /\ 0 <= Len(d)
          BY <1>0
        <5>2. Least(0, Len(d)) = 0
          BY <1>0, <5>1 DEF Least
        <5> QED
          BY <1>0, <5>1, <5>2, Taken
      <4>2. Take(d, 0) = <<>>
        BY <4>1, NoText
      <4>3. Take(d, 0) \o Drop(d, 0) = d /\ Drop(d, 0) \in Seq(Byte)
        <5>1. 0 \in Nat
          OBVIOUS
        <5> QED
          BY <1>0, <5>1, CutInTwo, Dropped
      <4>4. <<>> \o Drop(d, 0) = Drop(d, 0)
        BY <4>3, Joined
      <4> QED
        BY <4>2, <4>3, <4>4
    <3>2. head.returned = <<>> /\ left = d
      BY <2>3, <3>1 DEF sslsocket_read
    <3>3. missing = s.missing
      BY <3>2
    <3> QED
      BY <1>0, <2>3, <3>2, <3>3
  <2> QED
    BY <2>1, <2>2, <2>3
<1> HIDE DEF missing, left, head
\* The bytes.
<1>3. PICK x, y, z : ToCome(left \o w, missing, x, y, z) /\ TextOf(x, y, z) = TextOf(b, u, v)
  BY <1>2
<1>4. /\ x \in Seq(Byte) /\ y \in Seq(Byte) /\ z \in Seq(Byte)
      /\ Len(y) \in Byte /\ Len(z) \in Byte
      /\ Len(x) = missing
      /\ left \o w = x \o (Seal(y) \o Seal(z))
  BY <1>3 DEF ToCome
<1> DEFINE later == Seal(y) \o Seal(z)
           text == y \o z
<1>5. later \in Seq(Byte) /\ text \in Seq(Byte)
  <2>1. Seal(y) \in Seq(Byte) /\ Seal(z) \in Seq(Byte)
    BY <1>4, SealIs
  <2> QED
    BY <1>4, <2>1, Joined
<1>6. left \o w = x \o later
  BY <1>4
<1> HIDE DEF later, text
<1>7. PICK c \in Seq(Byte) :
        /\ returned \o c = x
        /\ behind \o w = c \o later
        /\ Len(c) = missing - Len(returned)
        /\ Len(returned) <= missing
        /\ Len(returned) < missing => behind = <<>>
  <2>1. \E c \in Seq(Byte) :
          /\ Take(left, Len(x)) \o c = x
          /\ Drop(left, Len(x)) \o w = c \o later
          /\ Len(c) = Len(x) - Len(Take(left, Len(x)))
          /\ Len(Take(left, Len(x))) <= Len(x)
          /\ Len(Take(left, Len(x))) < Len(x) => Drop(left, Len(x)) = <<>>
    <3>1. /\ x \in Seq(Byte) /\ later \in Seq(Byte) /\ left \in Seq(Byte) /\ w \in Seq(Byte)
          /\ left \o w = x \o later
      BY <1>0, <1>2, <1>4, <1>5, <1>6
    <3> QED
      BY <3>1, BodyRead, Zenon
  <2> QED
    BY <1>4, <2>1 DEF returned, behind
<1>8. returned \in Seq(Byte) /\ behind \in Seq(Byte) /\ Len(returned) \in Nat
  <2>1. returned \in Seq(Byte) /\ behind \in Seq(Byte)
    BY <1>2, Taken, Dropped DEF returned, behind
  <2> QED
    BY <2>1
<1>9. missing = 0 => behind = <<>>
  <2> SUFFICES ASSUME missing = 0 PROVE behind = <<>>
    OBVIOUS
  <2>1. left \in Seq(Byte) /\ left = <<>> /\ 0 \in Nat /\ Len(left) <= 0
    BY <1>2
  <2>2. Drop(left, 0) = <<>>
    BY <2>1, AllTaken
  <2> QED
    BY <2>2 DEF behind
<1>10. part \in Seq(Byte) /\ s.plain \o part \in Seq(Byte) /\ s.plain \o s.part \in Seq(Byte)
  <2>1. part \in Seq(Byte) /\ s.plain \o s.part \in Seq(Byte)
    BY <1>0, <1>8, Joined DEF part
  <2> QED
    BY <1>0, <2>1, Joined
<1>11. (s.plain \o s.part) \o TextOf(b, u, v) = (s.plain \o part) \o (c \o text)
  <2>1. TextOf(b, u, v) = (returned \o c) \o text
    BY <1>3, <1>7 DEF TextOf, text
  <2>2. (returned \o c) \o text = returned \o (c \o text)
    <3>1. returned \in Seq(Byte) /\ c \in Seq(Byte) /\ text \in Seq(Byte)
      BY <1>5, <1>8
    <3> QED
      BY <3>1, Regrouped, Zenon
  <2>3. c \o text \in Seq(Byte)
    BY <1>5, Joined
  <2>4. (s.plain \o s.part) \o (returned \o (c \o text))
          = ((s.plain \o s.part) \o returned) \o (c \o text)
    <3> DEFINE p == s.plain \o s.part
               q == c \o text
    <3>1. p \in Seq(Byte) /\ q \in Seq(Byte)
      BY <1>10, <2>3
    <3> HIDE DEF p, q
    <3>2. p \in Seq(Byte) /\ returned \in Seq(Byte) /\ q \in Seq(Byte)
      BY <1>8, <3>1
    <3>3. p \o (returned \o q) = (p \o returned) \o q
      BY <3>2, Regrouped, Zenon
    <3> QED
      BY <3>3 DEF p, q
  <2>5. (s.plain \o s.part) \o returned = s.plain \o part
    <3>1. s.plain \in Seq(Byte) /\ s.part \in Seq(Byte) /\ returned \in Seq(Byte)
      BY <1>0, <1>8
    <3> QED
      BY <3>1, Regrouped, Zenon DEF part
  <2> QED
    BY <2>1, <2>2, <2>4, <2>5
<1>12. ToCome(behind \o w, missing - Len(returned), c, y, z) /\ TextOf(c, y, z) = c \o text
  BY <1>4, <1>7 DEF ToCome, TextOf, later, text
<1>13. CASE whole
  <2>1. ssl2 = [missing |-> 0, part |-> <<>>, plain |-> s.plain \o part]
    BY <1>13 DEF ssl2
  <2>2. ssl2.missing = 0 /\ ssl2.part = <<>> /\ ssl2.plain = s.plain \o part
    BY <2>1
  <2>3. ssl2 \in SslState
    <3>1. 0 \in Nat
      OBVIOUS
    <3> QED
      BY <1>10, <2>1, <3>1, EmptyText DEF SslState
  <2>4. (s.plain \o part) \o <<>> = s.plain \o part
    BY <1>10, Joined
  <2>5. missing - Len(returned) = 0
    BY <1>2, <1>13 DEF whole
  <2>6. s.plain \o part # <<>>
    <3>1. Len(part) = Len(s.part) + Len(returned) /\ Len(s.part) \in Nat
      BY <1>0, <1>8, Joined DEF part
    <3>2. Len(s.plain \o part) = Len(s.plain) + Len(part) /\ Len(s.plain) \in Nat
      BY <1>0, <1>10, Joined
    <3>3. Len(returned) > 0
      BY <1>13 DEF whole
    <3>4. Len(part) > 0
      BY <1>8, <3>1, <3>3
    <3>5. Len(s.plain \o part) # 0
      BY <3>2, <3>4
    <3> QED
      BY <3>5, EmptyText
  <2>7. /\ ToCome(behind \o w, ssl2.missing, c, y, z)
        /\ (s.plain \o s.part) \o TextOf(b, u, v) = (ssl2.plain \o ssl2.part) \o TextOf(c, y, z)
    BY <1>11, <1>12, <2>2, <2>4, <2>5
  <2>8. Moved(s, behind, ssl2, w, TextOf(b, u, v))
    BY <1>8, <2>2, <2>3, <2>6, <2>7 DEF Moved
  <2> QED
    BY <1>1, <2>8
<1>14. CASE ~whole
  <2>1. ssl2 = [missing |-> missing - Len(returned), part |-> part, plain |-> s.plain]
    BY <1>14 DEF ssl2
  <2>2. ssl2.missing = missing - Len(returned) /\ ssl2.part = part /\ ssl2.plain = s.plain
    BY <2>1
  <2>3. missing - Len(returned) \in Nat
    BY <1>2, <1>7, <1>8
  <2>4. ssl2 \in SslState
    BY <1>0, <1>10, <2>1, <2>3 DEF SslState
  <2>5. Len(returned) < missing \/ missing = 0
    BY <1>2, <1>7, <1>8, <1>14 DEF whole
  <2>6. behind = <<>>
    BY <1>7, <1>9, <2>5
  <2>7. ASSUME missing - Len(returned) = 0 PROVE part = <<>>
    <3>1. missing = 0 /\ Len(returned) = 0
      BY <1>2, <1>7, <1>8, <2>5, <2>7
    <3>2. s.part = <<>> /\ returned = <<>>
      BY <1>0, <1>2, <1>8, <3>1, NoText
    <3>3. <<>> \o <<>> = <<>>
      BY EmptyText, Joined
    <3> QED
      BY <3>2, <3>3 DEF part
  <2>8. /\ ToCome(behind \o w, ssl2.missing, c, y, z)
        /\ (s.plain \o s.part) \o TextOf(b, u, v) = (ssl2.plain \o ssl2.part) \o TextOf(c, y, z)
    BY <1>11, <1>12, <2>2
  <2>9. Moved(s, behind, ssl2, w, TextOf(b, u, v))
    <3>1. ssl2.missing = 0 => ssl2.part = <<>>
      BY <2>2, <2>7
    <3> QED
      BY <1>8, <2>4, <2>6, <2>8, <3>1 DEF Moved
  <2> QED
    BY <1>1, <2>9
<1> QED
  BY <1>13, <1>14

-------------------------------------------------------------------------------
(* The invariant. *)

Command == [line : Seq(Byte), is : [word : Seq(Nat), lineoff : Nat]]

LineTypes ==
  /\ {secure, inData, broke, stopped} \subseteq BOOLEAN
  /\ sent \in Seq(Byte) /\ wire \in Seq(Byte) /\ tmpdata \in Seq(Byte) /\ indata \in Seq(Byte)
  /\ ssl \in SslState
  /\ lines \in ManyTexts
  /\ commands \in Seq(Command)
  /\ reading \in {"idle", "decrypting", "lines"}

\* A line ends where it should and is no longer than it may be.
IsLine(l) ==
  /\ Len(l) \in 1..MaxLine
  /\ EndsLine(l, Len(l)) \/ Len(l) = MaxLine
  /\ \A n \in 1..Len(l)-1 : ~EndsLine(l, n)

LinesInv == \A j \in 1..Len(lines) : IsLine(lines[j])

CommandsInv == \A j \in 1..Len(commands) : IsRead(commands[j].line, commands[j].is)

ReadText == FlattenSeq(lines) \o indata

\* In the clear SSL has nothing, and what was read and what is on the wire is what
\* was sent.
PlainInv ==
  ~secure =>
    /\ ssl = NoRecord /\ tmpdata = <<>>
    /\ reading # "decrypting"
    /\ (FlattenSeq(lines) \o indata) \o wire = sent

\* Under TLS what has arrived and what has not are the rest of a record and at
\* most two more, and their text is what has still to be read.
SecureInv ==
  secure =>
    /\ ssl.missing = 0 => ssl.part = <<>>
    /\ \E b, u, v :
         /\ ToCome(tmpdata \o wire, ssl.missing, b, u, v)
         /\ ((FlattenSeq(lines) \o indata) \o (ssl.plain \o ssl.part)) \o TextOf(b, u, v) = sent

\* SSL is read until it has nothing to give out.
SslInv == reading # "decrypting" /\ ~stopped => ssl.plain = <<>> /\ tmpdata = <<>>

WaitInv ==
  reading = "idle" /\ ~stopped /\ ~broke =>
    \A n \in 1..Len(indata) : ~EndsLine(indata, n) /\ n < MaxLine

LineInv ==
  /\ LineTypes
  /\ LinesInv
  /\ CommandsInv
  /\ PlainInv
  /\ SecureInv
  /\ SslInv
  /\ WaitInv

-------------------------------------------------------------------------------
(* At first. *)

LEMMA EmptyFlat == <<>> \in ManyTexts /\ FlattenSeq(<<>>) = <<>>
<1>1. <<>> \in ManyTexts /\ Len(<<>>) = 0
  BY DEF ManyTexts
<1> QED
  BY <1>1, FlattenIs

LEMMA InitLines == ReaderInit => LineInv
<1> SUFFICES ASSUME ReaderInit PROVE LineInv
  OBVIOUS
<1>1. /\ tmpdata = <<>> /\ ssl = NoRecord /\ indata = <<>> /\ lines = <<>> /\ commands = <<>>
      /\ inData = FALSE /\ reading = "idle" /\ broke = FALSE /\ stopped = FALSE
  BY DEF ReaderInit
<1>2. NoRecord \in SslState /\ NoRecord.missing = 0 /\ NoRecord.part = <<>> /\ NoRecord.plain = <<>>
  BY EmptyText DEF NoRecord, SslState
<1>3. <<>> \in Seq(Command) /\ Len(<<>>) = 0
  OBVIOUS
<1>4. LinesInv /\ CommandsInv /\ SslInv /\ WaitInv
  <2>1. \A j : j \notin 1..0
    OBVIOUS
  <2> QED
    BY <1>1, <1>2, <1>3, <2>1 DEF LinesInv, CommandsInv, SslInv, WaitInv
<1>5. (FlattenSeq(lines) \o indata) = <<>>
  BY <1>1, EmptyFlat, EmptyText, Joined
<1>6. CASE secure = FALSE /\ sent \in PlainSent /\ wire = sent
  <2>1. sent \in Seq(Byte)
    BY <1>6, LineReaderAssumption
  <2>2. LineTypes
    BY <1>1, <1>2, <1>3, <1>6, <2>1, EmptyText, EmptyFlat DEF LineTypes
  <2>3. <<>> \o wire = sent
    BY <1>6, <2>1, Joined
  <2>4. PlainInv
    BY <1>1, <1>5, <2>3 DEF PlainInv
  <2>5. SecureInv
    BY <1>6 DEF SecureInv
  <2> QED
    BY <1>4, <2>2, <2>4, <2>5 DEF LineInv
<1>7. ASSUME NEW s \in SecureSent, NEW cut \in 0..Len(s) - 1, secure = TRUE, sent = s,
             wire = (IF cut = 0 THEN <<>> ELSE Sealed(SubSeq(s, 1, cut)))
                    \o Sealed(SubSeq(s, cut + 1, Len(s)))
      PROVE  LineInv
  <2>1. s \in Seq(Byte) /\ Len(s) \in Byte
    BY LineReaderAssumption
  <2>2. Len(s) \in 0..255 /\ cut \in Nat /\ cut < Len(s)
    BY <2>1 DEF Byte
  <2> DEFINE u == Take(s, cut)
             v == Drop(s, cut)
  <2>3. Least(cut, Len(s)) = cut
    BY <2>2 DEF Least
  <2>4. u \in Seq(Byte) /\ Len(u) = cut
    BY <2>1, <2>2, <2>3, Taken
  <2>5. v \in Seq(Byte) /\ Len(v) = Len(s) - cut
    <3>1. v \in Seq(Byte) /\ Len(v) = IF cut <= Len(s) THEN Len(s) - cut ELSE 0
      BY <2>1, <2>2, Dropped
    <3> QED
      BY <2>2, <3>1
  <2>6. u = SubSeq(s, 1, cut) /\ v = SubSeq(s, cut + 1, Len(s)) /\ u \o v = s
    BY <2>1, <2>2, <2>3, CutInTwo DEF Take, Drop
  <2> HIDE DEF u, v
  <2>7. Len(u) \in Byte /\ Len(v) \in Byte
    <3>0. \A a \in 0..255, c \in Nat : c < a => c \in 0..255 /\ a - c \in 0..255
      OBVIOUS
    <3>1. cut \in 0..255 /\ Len(s) - cut \in 0..255
      BY <2>2, <3>0
    <3>2. \A n \in 0..255 : n \in Byte
      BY DEF Byte
    <3> QED
      BY <2>4, <2>5, <3>1, <3>2
  <2>8. wire = Seal(u) \o Seal(v)
    <3>1. u = <<>> <=> cut = 0
      BY <2>4, NoText
    <3>2. v # <<>>
      <4>1. Len(v) # 0
        BY <2>2, <2>5
      <4> QED
        BY <2>5, <4>1, NoText
    <3> QED
      BY <1>7, <2>6, <3>1, <3>2 DEF Seal
  <2>9. Seal(u) \in Seq(Byte) /\ Seal(v) \in Seq(Byte)
    BY <2>4, <2>5, <2>7, SealIs
  <2>10. wire \in Seq(Byte)
    BY <2>8, <2>9, Joined
  <2>11. LineTypes
    BY <1>1, <1>2, <1>3, <1>7, <2>1, <2>10, EmptyText, EmptyFlat DEF LineTypes
  <2>12. PlainInv
    BY <1>7 DEF PlainInv
  <2>13. ToCome(tmpdata \o wire, ssl.missing, <<>>, u, v)
    <3>1. tmpdata \o wire = <<>> \o (Seal(u) \o Seal(v))
      BY <1>1, <2>8
    <3>2. ssl.missing = 0
      BY <1>1, <1>2
    <3> QED
      BY <2>4, <2>5, <2>7, <3>1, <3>2, EmptyText DEF ToCome
  <2>14. ((FlattenSeq(lines) \o indata) \o (ssl.plain \o ssl.part)) \o TextOf(<<>>, u, v) = sent
    <3>1. (FlattenSeq(lines) \o indata) = <<>> /\ ssl.plain = <<>> /\ ssl.part = <<>>
      BY <1>1, <1>2, <1>5
    <3>2. <<>> \o <<>> = <<>> /\ <<>> \o s = s
      BY <2>1, EmptyText, Joined
    <3>3. TextOf(<<>>, u, v) = s
      BY <2>6, <3>2 DEF TextOf
    <3>4. ((FlattenSeq(lines) \o indata) \o (ssl.plain \o ssl.part)) = <<>>
      BY <3>1, <3>2
    <3> QED
      BY <1>7, <3>2, <3>3, <3>4
  <2>15. SecureInv
    <3>1. ssl.part = <<>>
      BY <1>1, <1>2
    <3> QED
      BY <2>13, <2>14, <3>1 DEF SecureInv
  <2> QED
    BY <1>4, <2>11, <2>12, <2>15 DEF LineInv
<1> QED
  BY <1>6, <1>7 DEF ReaderInit

-------------------------------------------------------------------------------
(* Arrival. *)

LEMMA TextArrives == LineInv /\ DataArrives => LineInv'
<1> SUFFICES ASSUME LineInv, DataArrives PROVE LineInv'
  OBVIOUS
<1>0. LineTypes /\ LinesInv /\ CommandsInv /\ PlainInv /\ SecureInv /\ SslInv
  BY DEF LineInv
<1>1. PICK n \in 1..Len(wire) :
        /\ wire' = Drop(wire, n)
        /\ ArrivesSealed(Take(wire, n)) \/ ArrivesPlain(Take(wire, n))
  BY DEF DataArrives
<1>2. /\ reading = "idle" /\ ~stopped /\ broke' = FALSE
      /\ UNCHANGED <<secure, sent, ssl, lines, commands, inData, stopped>>
  BY DEF DataArrives
<1> DEFINE came == Take(wire, n)
           rest == Drop(wire, n)
<1>3. wire \in Seq(Byte) /\ n \in Nat
  BY <1>0 DEF LineTypes
<1>4. came \in Seq(Byte) /\ rest \in Seq(Byte) /\ came \o rest = wire
  BY <1>3, Taken, Dropped, CutInTwo
<1>5. wire' = rest
  BY <1>1
<1> HIDE DEF came, rest
<1>6. LinesInv' /\ CommandsInv'
  BY <1>0, <1>2 DEF LinesInv, CommandsInv
<1>7. CASE ArrivesSealed(Take(wire, n))
  <2>1. /\ secure /\ tmpdata' = tmpdata \o came /\ reading' = "decrypting" /\ indata' = indata
    BY <1>7 DEF ArrivesSealed, came
  <2>2. tmpdata \in Seq(Byte) /\ tmpdata \o came \in Seq(Byte)
    BY <1>0, <1>4, Joined DEF LineTypes
  <2>3. tmpdata' \o wire' = tmpdata \o wire
    <3>1. tmpdata \in Seq(Byte) /\ came \in Seq(Byte) /\ rest \in Seq(Byte)
      BY <1>4, <2>2
    <3>2. (tmpdata \o came) \o rest = tmpdata \o (came \o rest)
      BY <3>1, Regrouped, Zenon
    <3> QED
      BY <1>4, <1>5, <2>1, <3>2
  <2>4. LineTypes'
    BY <1>0, <1>2, <1>4, <1>5, <2>1, <2>2 DEF LineTypes
  <2>5. SecureInv'
    BY <1>0, <1>2, <2>1, <2>3 DEF SecureInv
  <2>6. PlainInv' /\ SslInv' /\ WaitInv'
    BY <1>2, <2>1 DEF PlainInv, SslInv, WaitInv
  <2> QED
    BY <1>6, <2>4, <2>5, <2>6 DEF LineInv
<1>8. CASE ArrivesPlain(Take(wire, n))
  <2>1. ~secure /\ indata' = indata \o came /\ reading' = "lines" /\ tmpdata' = tmpdata
    BY <1>8 DEF ArrivesPlain, came
  <2>2. indata \in Seq(Byte) /\ indata \o came \in Seq(Byte)
    BY <1>0, <1>4, Joined DEF LineTypes
  <2>3. FlattenSeq(lines) \in Seq(Byte)
    <3>1. lines \in ManyTexts
      BY <1>0 DEF LineTypes
    <3> QED
      BY <3>1, EmptyText, FlattenAppend
  <2>4. (FlattenSeq(lines) \o (indata \o came)) \o rest = (FlattenSeq(lines) \o indata) \o wire
    <3> DEFINE f == FlattenSeq(lines)
    <3> HIDE DEF f
    <3>1. f \in Seq(Byte) /\ indata \in Seq(Byte) /\ came \in Seq(Byte) /\ rest \in Seq(Byte)
      BY <1>4, <2>2, <2>3 DEF f
    <3>2. f \o (indata \o came) = (f \o indata) \o came
      BY <3>1, Regrouped, Zenon
    <3>3. f \o indata \in Seq(Byte)
      BY <3>1, Joined
    <3>4. ((f \o indata) \o came) \o rest = (f \o indata) \o (came \o rest)
      BY <3>1, <3>3, Regrouped, Zenon
    <3> QED
      BY <1>4, <3>2, <3>4 DEF f
  <2>5. LineTypes'
    BY <1>0, <1>2, <1>4, <1>5, <2>1, <2>2 DEF LineTypes
  <2>6. PlainInv'
    BY <1>0, <1>2, <1>5, <2>1, <2>4 DEF PlainInv
  <2>7. SecureInv' /\ SslInv' /\ WaitInv'
    BY <1>0, <1>2, <2>1 DEF SecureInv, SslInv, WaitInv
  <2> QED
    BY <1>6, <2>5, <2>6, <2>7 DEF LineInv
<1> QED
  BY <1>1, <1>7, <1>8

-------------------------------------------------------------------------------
(* SSL. *)

LEMMA FlatTyped ==
  ASSUME LineTypes
  PROVE  FlattenSeq(lines) \in Seq(Byte) /\ FlattenSeq(lines) \o indata \in Seq(Byte)
<1>1. lines \in ManyTexts /\ indata \in Seq(Byte)
  BY DEF LineTypes
<1>2. FlattenSeq(lines) \in Seq(Byte)
  BY <1>1, EmptyText, FlattenAppend
<1> QED
  BY <1>1, <1>2, Joined

LEMMA SslReads == LineInv /\ SslRead => LineInv'
<1> SUFFICES ASSUME LineInv, SslRead PROVE LineInv'
  OBVIOUS
<1>0. LineTypes /\ LinesInv /\ CommandsInv /\ PlainInv /\ SecureInv /\ SslInv
  BY DEF LineInv
<1> DEFINE r == IF ssl.plain = <<>> THEN RecordTaken(ssl, tmpdata)
                ELSE [left |-> tmpdata, ssl |-> ssl]
           left == r.left
           taken == r.ssl
           processed == Take(taken.plain, ReadSize)
           behind == Drop(taken.plain, ReadSize)
<1>1. /\ reading = "decrypting"
      /\ tmpdata' = left
      /\ ssl' = [taken EXCEPT !.plain = behind]
      /\ indata' = indata \o processed
      /\ reading' = ReadOn(processed)
      /\ UNCHANGED <<secure, sent, wire, lines, commands, inData, broke, stopped>>
  BY DEF SslRead
<1>2. /\ tmpdata \in Seq(Byte) /\ wire \in Seq(Byte) /\ indata \in Seq(Byte) /\ ssl \in SslState
      /\ ssl.plain \in Seq(Byte) /\ ssl.part \in Seq(Byte) /\ ssl.missing \in Nat
      /\ secure \in BOOLEAN
  BY <1>0 DEF LineTypes, SslState
<1>3. secure
  BY <1>0, <1>1, <1>2 DEF PlainInv
<1>4. PICK b, u, v :
        /\ ToCome(tmpdata \o wire, ssl.missing, b, u, v)
        /\ ((FlattenSeq(lines) \o indata) \o (ssl.plain \o ssl.part)) \o TextOf(b, u, v) = sent
  BY <1>0, <1>3 DEF SecureInv
<1>5. ssl.missing = 0 => ssl.part = <<>>
  BY <1>0, <1>3 DEF SecureInv
<1> DEFINE text == TextOf(b, u, v)
<1>6. Moved(ssl, left, taken, wire, text)
  <2>1. CASE ssl.plain = <<>>
    <3>1. r = RecordTaken(ssl, tmpdata)
      BY <2>1
    <3>2. Moved(ssl, RecordTaken(ssl, tmpdata).left, RecordTaken(ssl, tmpdata).ssl, wire, text)
      <4>1. Readable(ssl, tmpdata, wire, b, u, v)
        BY <1>2, <1>4, <1>5 DEF Readable
      <4> QED
        BY <4>1, RecordRead DEF text
    <3> QED
      BY <3>1, <3>2
  <2>2. CASE ssl.plain # <<>>
    <3>1. left = tmpdata /\ taken = ssl
      BY <2>2
    <3> HIDE DEF left, taken
    <3> QED
      BY <1>2, <1>4, <1>5, <2>2, <3>1 DEF Moved
  <2> QED
    BY <2>1, <2>2
<1>7. text \in Seq(Byte)
  <2>1. b \in Seq(Byte) /\ u \in Seq(Byte) /\ v \in Seq(Byte)
    BY <1>4 DEF ToCome
  <2>2. u \o v \in Seq(Byte)
    BY <2>1, Joined
  <2>3. b \o (u \o v) \in Seq(Byte)
    BY <2>1, <2>2, Joined
  <2> QED
    BY <2>3 DEF TextOf
<1> HIDE DEF r, left, taken, text
<1>8. /\ left \in Seq(Byte) /\ taken \in SslState
      /\ taken.missing = 0 => taken.part = <<>>
      /\ ssl.plain = <<>> /\ taken.plain = <<>> => left = <<>>
  BY <1>6 DEF Moved
<1>9. PICK x, y, z :
        /\ ToCome(left \o wire, taken.missing, x, y, z)
        /\ (ssl.plain \o ssl.part) \o text = (taken.plain \o taken.part) \o TextOf(x, y, z)
  BY <1>6 DEF Moved
<1>10. taken.plain \in Seq(Byte) /\ taken.part \in Seq(Byte) /\ taken.missing \in Nat
  BY <1>8 DEF SslState
<1>11. processed \in Seq(Byte) /\ behind \in Seq(Byte) /\ processed \o behind = taken.plain
  <2>1. ReadSize \in Nat
    BY Limits
  <2> QED
    BY <1>10, <2>1, Taken, Dropped, CutInTwo
<1>12. ssl' \in SslState /\ ssl'.missing = taken.missing /\ ssl'.part = taken.part /\ ssl'.plain = behind
  <2>1. ssl' = [missing |-> taken.missing, part |-> taken.part, plain |-> behind]
    BY <1>1, <1>8 DEF SslState
  <2> HIDE DEF behind
  <2> QED
    BY <1>10, <1>11, <2>1 DEF SslState
<1>13. processed = <<>> => taken.plain = <<>> /\ behind = <<>> /\ left = <<>>
  <2> SUFFICES ASSUME processed = <<>> PROVE taken.plain = <<>> /\ behind = <<>> /\ left = <<>>
    OBVIOUS
  <2>1. taken.plain = <<>>
    <3>1. Len(processed) = Least(ReadSize, Len(taken.plain)) /\ Len(taken.plain) \in Nat
      BY <1>10, Limits, Taken
    <3>2. Len(processed) = 0
      BY EmptyText
    <3>3. Len(taken.plain) = 0
      BY <3>1, <3>2, Limits DEF Least
    <3> QED
      BY <1>10, <3>3, NoText
  <2>2. behind = <<>>
    <3>1. Len(taken.plain) <= ReadSize /\ ReadSize \in Nat
      BY <2>1, EmptyText, Limits
    <3> QED
      BY <1>10, <3>1, AllTaken
  <2>3. ssl.plain = <<>>
    <3> SUFFICES ASSUME ssl.plain # <<>> PROVE FALSE
      OBVIOUS
    <3>1. taken = ssl
      BY DEF taken, r
    <3> QED
      BY <2>1, <3>1
  <2> QED
    BY <1>8, <2>1, <2>2, <2>3
<1> HIDE DEF processed, behind
<1>14. reading' = IF processed = <<>> THEN "lines" ELSE "decrypting"
  BY <1>1 DEF ReadOn
<1>15. FlattenSeq(lines) \in Seq(Byte) /\ FlattenSeq(lines) \o indata \in Seq(Byte)
  BY <1>0, FlatTyped
<1>16. ((FlattenSeq(lines) \o indata') \o (ssl'.plain \o ssl'.part)) \o TextOf(x, y, z) = sent
  <2> DEFINE f == FlattenSeq(lines)
             g == TextOf(x, y, z)
             part == taken.part
  <2>1. /\ f \in Seq(Byte) /\ f \o indata \in Seq(Byte) /\ indata \in Seq(Byte)
        /\ g \in Seq(Byte) /\ part \in Seq(Byte)
    <3>1. x \in Seq(Byte) /\ y \in Seq(Byte) /\ z \in Seq(Byte)
      BY <1>9 DEF ToCome
    <3>2. y \o z \in Seq(Byte)
      BY <3>1, Joined
    <3>3. x \o (y \o z) \in Seq(Byte)
      BY <3>1, <3>2, Joined
    <3> QED
      BY <1>2, <1>10, <1>15, <3>3 DEF TextOf
  <2> HIDE DEF f, g, part
  <2>2. f \o (indata \o processed) = (f \o indata) \o processed
    <3>1. f \in Seq(Byte) /\ indata \in Seq(Byte) /\ processed \in Seq(Byte)
      BY <1>11, <2>1
    <3> QED
      BY <3>1, Regrouped, Zenon
  <2>3. behind \o part \in Seq(Byte)
    BY <1>11, <2>1, Joined
  <2>4. ((f \o indata) \o processed) \o (behind \o part)
          = (f \o indata) \o (processed \o (behind \o part))
    <3>1. f \o indata \in Seq(Byte) /\ processed \in Seq(Byte) /\ behind \o part \in Seq(Byte)
      BY <1>11, <2>1, <2>3
    <3> QED
      BY <3>1, Regrouped, Zenon
  <2>5. processed \o (behind \o part) = taken.plain \o part
    <3>1. processed \in Seq(Byte) /\ behind \in Seq(Byte) /\ part \in Seq(Byte)
      BY <1>11, <2>1
    <3>2. processed \o (behind \o part) = (processed \o behind) \o part
      BY <3>1, Regrouped, Zenon
    <3> QED
      BY <1>11, <3>2
  <2>6. taken.plain \o part \in Seq(Byte)
    BY <1>10, <2>1, Joined
  <2>7. ((f \o indata) \o (taken.plain \o part)) \o g = (f \o indata) \o ((taken.plain \o part) \o g)
    <3>1. f \o indata \in Seq(Byte) /\ taken.plain \o part \in Seq(Byte) /\ g \in Seq(Byte)
      BY <2>1, <2>6
    <3> QED
      BY <3>1, Regrouped, Zenon
  <2>8. (taken.plain \o part) \o g = (ssl.plain \o ssl.part) \o text
    BY <1>9 DEF g, part
  <2>9. (f \o indata) \o ((ssl.plain \o ssl.part) \o text) = sent
    <3>1. ssl.plain \o ssl.part \in Seq(Byte)
      BY <1>2, Joined
    <3>2. f \o indata \in Seq(Byte) /\ ssl.plain \o ssl.part \in Seq(Byte) /\ text \in Seq(Byte)
      BY <1>7, <2>1, <3>1
    <3>3. (f \o indata) \o ((ssl.plain \o ssl.part) \o text)
            = ((f \o indata) \o (ssl.plain \o ssl.part)) \o text
      BY <3>2, Regrouped, Zenon
    <3> QED
      BY <1>4, <3>3 DEF f, text
  <2>10. ((f \o (indata \o processed)) \o (behind \o part)) \o g = sent
    BY <2>2, <2>4, <2>5, <2>7, <2>8, <2>9
  <2> QED
    BY <1>1, <1>12, <2>10 DEF f, g, part
<1>17. LineTypes'
  <2>1. indata' \in Seq(Byte) /\ tmpdata' \in Seq(Byte) /\ ssl' \in SslState
    BY <1>1, <1>2, <1>8, <1>11, <1>12, Joined
  <2>2. reading' \in {"idle", "decrypting", "lines"}
    BY <1>14
  <2> QED
    BY <1>0, <1>1, <2>1, <2>2 DEF LineTypes
<1>18. SecureInv'
  <2>1. ssl'.missing = 0 => ssl'.part = <<>>
    BY <1>8, <1>12
  <2>2. ToCome(tmpdata' \o wire', ssl'.missing, x, y, z)
    BY <1>1, <1>9, <1>12
  <2>3. ((FlattenSeq(lines') \o indata') \o (ssl'.plain \o ssl'.part)) \o TextOf(x, y, z) = sent'
    BY <1>1, <1>16
  <2> QED
    BY <2>1, <2>2, <2>3 DEF SecureInv
<1>19. SslInv'
  BY <1>1, <1>12, <1>13, <1>14 DEF SslInv
<1>20. PlainInv' /\ WaitInv' /\ LinesInv' /\ CommandsInv'
  <2>1. reading' # "idle"
    BY <1>14
  <2> QED
    BY <1>0, <1>1, <1>3, <2>1 DEF PlainInv, WaitInv, LinesInv, CommandsInv
<1> QED
  BY <1>17, <1>18, <1>19, <1>20 DEF LineInv

LEMMA SslReadsNoMore == LineInv /\ SslReadEnds => LineInv'
<1> SUFFICES ASSUME LineInv, SslReadEnds PROVE LineInv'
  OBVIOUS
<1>1. /\ LineTypes /\ LinesInv /\ CommandsInv /\ PlainInv /\ SecureInv
      /\ reading = "decrypting" /\ stopped' = TRUE /\ reading' = "lines"
      /\ UNCHANGED <<secure, sent, wire, tmpdata, ssl, indata, lines, commands, inData, broke>>
  BY DEF LineInv, SslReadEnds
<1>2. LineTypes'
  BY <1>1 DEF LineTypes
<1>3. LinesInv' /\ CommandsInv' /\ PlainInv'
  BY <1>1 DEF LinesInv, CommandsInv, PlainInv
<1>4. SecureInv'
  BY <1>1 DEF SecureInv
<1>5. SslInv' /\ WaitInv'
  BY <1>1 DEF SslInv, WaitInv
<1> QED
  BY <1>2, <1>3, <1>4, <1>5 DEF LineInv

-------------------------------------------------------------------------------
(* Lines. *)

LEMMA OneLineMore ==
  ASSUME NEW q \in ManyTexts, NEW l \in Seq(Byte), \A j \in 1..Len(q) : IsLine(q[j]), IsLine(l)
  PROVE  /\ Append(q, l) \in ManyTexts
         /\ \A j \in 1..Len(Append(q, l)) : IsLine(Append(q, l)[j])
<1>1. /\ Append(q, l) \in ManyTexts /\ Len(q) \in Nat /\ Len(Append(q, l)) = Len(q) + 1
      /\ Append(q, l)[Len(q) + 1] = l
      /\ \A j \in 1..Len(q) : Append(q, l)[j] = q[j]
  BY DEF ManyTexts
<1>2. \A j \in 1..Len(q) + 1 : j \in 1..Len(q) \/ j = Len(q) + 1
  BY <1>1
<1> QED
  BY <1>1, <1>2

LEMMA OneCommandMore ==
  ASSUME NEW q \in Seq(Command), NEW c \in Command,
         \A j \in 1..Len(q) : IsRead(q[j].line, q[j].is), IsRead(c.line, c.is)
  PROVE  /\ Append(q, c) \in Seq(Command)
         /\ \A j \in 1..Len(Append(q, c)) : IsRead(Append(q, c)[j].line, Append(q, c)[j].is)
<1>1. /\ Append(q, c) \in Seq(Command) /\ Len(q) \in Nat /\ Len(Append(q, c)) = Len(q) + 1
      /\ Append(q, c)[Len(q) + 1] = c
      /\ \A j \in 1..Len(q) : Append(q, c)[j] = q[j]
  OBVIOUS
<1>2. \A j \in 1..Len(q) + 1 : j \in 1..Len(q) \/ j = Len(q) + 1
  BY <1>1
<1> QED
  BY <1>1, <1>2

LEMMA LineTaken == LineInv /\ TakeLine => LineInv'
<1> SUFFICES ASSUME LineInv, TakeLine PROVE LineInv'
  OBVIOUS
<1>0. LineTypes /\ LinesInv /\ CommandsInv /\ PlainInv /\ SecureInv /\ SslInv
  BY DEF LineInv
<1> DEFINE n == Min(LineEnds(indata))
           line == Take(indata, n)
           rest == Drop(indata, n)
           command == CommandOf(line)
<1>1. /\ reading = "lines" /\ LineEnds(indata) # {}
      /\ lines' = Append(lines, line)
      /\ indata' = rest
      /\ \/ /\ inData
            /\ inData' = (line # DotLine)
            /\ UNCHANGED <<commands, reading, broke>>
         \/ /\ ~inData /\ command.word # <<>>
            /\ commands' = Append(commands, [line |-> line, is |-> command])
            /\ inData' = (command.word = DataWord)
            /\ UNCHANGED <<reading, broke>>
         \/ /\ ~inData /\ command.word = <<>>
            /\ reading' = "idle"
            /\ broke' = TRUE
            /\ UNCHANGED <<commands, inData>>
      /\ UNCHANGED <<secure, sent, wire, tmpdata, ssl, stopped>>
  BY DEF TakeLine, IndataAfter
<1>2. /\ indata \in Seq(Byte) /\ wire \in Seq(Byte) /\ lines \in ManyTexts /\ commands \in Seq(Command)
      /\ inData \in BOOLEAN /\ broke \in BOOLEAN
      /\ ssl.plain \in Seq(Byte) /\ ssl.part \in Seq(Byte)
  BY <1>0 DEF LineTypes, SslState
<1>3. /\ n \in 1..MaxLine /\ line \in Seq(Byte) /\ Len(line) = n
      /\ rest \in Seq(Byte) /\ line \o rest = indata
      /\ EndsLine(line, n) \/ n = MaxLine
      /\ \A m \in 1..n - 1 : ~EndsLine(line, m)
  BY <1>1, <1>2, LineOff
<1> HIDE DEF n, line, rest
<1>4. IsLine(line)
  BY <1>3 DEF IsLine
<1>5. lines' \in ManyTexts /\ LinesInv'
  <2>1. /\ Append(lines, line) \in ManyTexts
        /\ \A j \in 1..Len(Append(lines, line)) : IsLine(Append(lines, line)[j])
    BY <1>0, <1>2, <1>3, <1>4, OneLineMore DEF LinesInv
  <2> QED
    BY <1>1, <2>1 DEF LinesInv
<1>6. commands' \in Seq(Command) /\ CommandsInv'
  <2>1. CASE commands' = commands
    BY <1>0, <1>2, <2>1 DEF CommandsInv
  <2>2. CASE command.word # <<>> /\ commands' = Append(commands, [line |-> line, is |-> command])
    <3>1. IsRead(line, command) /\ command \in [word : Seq(Nat), lineoff : Nat]
      BY <1>3, <2>2, WordIsRead
    <3> HIDE DEF command
    <3> DEFINE c == [line |-> line, is |-> command]
    <3>2. c \in Command /\ c.line = line /\ c.is = command
      BY <1>3, <3>1 DEF Command
    <3> HIDE DEF c
    <3>3. IsRead(c.line, c.is)
      BY <3>1, <3>2
    <3>4. /\ Append(commands, c) \in Seq(Command)
          /\ \A j \in 1..Len(Append(commands, c)) :
               IsRead(Append(commands, c)[j].line, Append(commands, c)[j].is)
      BY <1>0, <1>2, <3>2, <3>3, OneCommandMore DEF CommandsInv
    <3>5. commands' = Append(commands, c)
      BY <2>2 DEF c
    <3> QED
      BY <3>4, <3>5 DEF CommandsInv
  <2> QED
    BY <1>1, <2>1, <2>2
<1>7. inData' \in BOOLEAN /\ broke' \in BOOLEAN /\ reading' \in {"idle", "lines"}
      /\ (reading' = "idle" => broke')
  BY <1>1, <1>2
<1> HIDE DEF command
<1>8. LineTypes'
  BY <1>0, <1>1, <1>3, <1>5, <1>6, <1>7 DEF LineTypes
\* No text is lost.
<1>9. FlattenSeq(lines') \o indata' = FlattenSeq(lines) \o indata
  <2>1. FlattenSeq(lines) \in Seq(Byte) /\ FlattenSeq(Append(lines, line)) = FlattenSeq(lines) \o line
    BY <1>2, <1>3, FlattenAppend
  <2> DEFINE f == FlattenSeq(lines)
  <2> HIDE DEF f
  <2>2. f \in Seq(Byte) /\ line \in Seq(Byte) /\ rest \in Seq(Byte)
    BY <1>3, <2>1 DEF f
  <2>3. (f \o line) \o rest = f \o (line \o rest)
    BY <2>2, Regrouped, Zenon
  <2> QED
    BY <1>1, <1>3, <2>1, <2>3 DEF f
<1>10. PlainInv'
  BY <1>0, <1>1, <1>7, <1>9 DEF PlainInv
<1>11. SecureInv'
  BY <1>0, <1>1, <1>9 DEF SecureInv
<1>12. SslInv' /\ WaitInv'
  BY <1>0, <1>1, <1>7 DEF SslInv, WaitInv
<1> QED
  BY <1>5, <1>6, <1>8, <1>10, <1>11, <1>12 DEF LineInv

LEMMA NoLineMore == LineInv /\ LinesTaken => LineInv'
<1> SUFFICES ASSUME LineInv, LinesTaken PROVE LineInv'
  OBVIOUS
<1>1. /\ LineTypes /\ LinesInv /\ CommandsInv /\ PlainInv /\ SecureInv /\ SslInv
      /\ reading = "lines" /\ LineEnds(indata) = {} /\ reading' = "idle"
      /\ UNCHANGED <<secure, sent, wire, tmpdata, ssl, indata, lines, commands, inData, broke,
                     stopped>>
  BY DEF LineInv, LinesTaken
<1>2. LineTypes'
  BY <1>1 DEF LineTypes
<1>3. LinesInv' /\ CommandsInv' /\ PlainInv'
  BY <1>1 DEF LinesInv, CommandsInv, PlainInv
<1>4. SecureInv'
  BY <1>1 DEF SecureInv
<1>5. \A n \in 1..Len(indata) : ~EndsLine(indata, n) /\ n < MaxLine
  <2>1. indata \in Seq(Byte)
    BY <1>1 DEF LineTypes
  <2> QED
    BY <1>1, <2>1, NoLineLeft
<1>6. SslInv' /\ WaitInv'
  BY <1>1, <1>5 DEF SslInv, WaitInv
<1> QED
  BY <1>2, <1>3, <1>4, <1>6 DEF LineInv

LEMMA LineStutters == LineInv /\ UNCHANGED readerVars => LineInv'
<1> SUFFICES ASSUME LineInv, UNCHANGED readerVars PROVE LineInv'
  OBVIOUS
<1>1. /\ LineTypes /\ LinesInv /\ CommandsInv /\ PlainInv /\ SecureInv /\ SslInv /\ WaitInv
      /\ UNCHANGED <<secure, sent, wire, tmpdata, ssl, indata, lines, commands, inData, reading,
                     broke, stopped>>
  BY DEF LineInv, readerVars
<1>2. LineTypes'
  BY <1>1 DEF LineTypes
<1>3. LinesInv' /\ CommandsInv' /\ PlainInv'
  BY <1>1 DEF LinesInv, CommandsInv, PlainInv
<1>4. SecureInv'
  BY <1>1 DEF SecureInv
<1>5. SslInv' /\ WaitInv'
  BY <1>1 DEF SslInv, WaitInv
<1> QED
  BY <1>2, <1>3, <1>4, <1>5 DEF LineInv

LEMMA LinesKept == ReaderSpec => []LineInv
<1>1. LineInv /\ [ReaderNext]_readerVars => LineInv'
  BY TextArrives, SslReads, SslReadsNoMore, LineTaken, NoLineMore, LineStutters DEF ReaderNext
<1> QED
  BY <1>1, InitLines, PTL DEF ReaderSpec

-------------------------------------------------------------------------------
(* The results. *)

LEMMA PrefixOf ==
  ASSUME NEW p \in Seq(Byte), NEW q \in Seq(Byte)
  PROVE  IsPrefix(p, p \o q)
<1>1. /\ p \o q \in Seq(Byte) /\ Len(p \o q) = Len(p) + Len(q)
      /\ Len(p) \in Nat /\ Len(q) \in Nat
  BY Joined
<1>2. Len(p) <= Len(p \o q)
  BY <1>1
<1>3. Take(p \o q, Len(p)) = Take(p, Len(p))
  <2>1. Len(p) \in Nat /\ Len(p) <= Len(p)
    BY <1>1
  <2> QED
    BY <2>1, FrontOf
<1>4. Least(Len(p), Len(p \o q)) = Len(p) /\ Least(Len(p), Len(p)) = Len(p)
  BY <1>1, <1>2 DEF Least
<1> QED
  BY <1>2, <1>3, <1>4 DEF IsPrefix, Take

\* What is empty is so in each of its parts.
LEMMA NothingToCome ==
  ASSUME NEW m, NEW b, NEW u, NEW v, ToCome(<<>>, m, b, u, v)
  PROVE  TextOf(b, u, v) = <<>>
<1>1. /\ b \in Seq(Byte) /\ u \in Seq(Byte) /\ v \in Seq(Byte)
      /\ Len(u) \in Byte /\ Len(v) \in Byte
      /\ <<>> = b \o (Seal(u) \o Seal(v))
  BY DEF ToCome
<1>2. /\ Seal(u) \in Seq(Byte) /\ Seal(v) \in Seq(Byte)
      /\ (Seal(u) = <<>> <=> u = <<>>) /\ (Seal(v) = <<>> <=> v = <<>>)
  BY <1>1, SealIs
<1> DEFINE a == Seal(u)
           c == Seal(v)
<1> HIDE DEF a, c
<1>3. a \in Seq(Byte) /\ c \in Seq(Byte)
  BY <1>2 DEF a, c
<1>4. a \o c \in Seq(Byte) /\ Len(a \o c) = Len(a) + Len(c) /\ Len(a) \in Nat /\ Len(c) \in Nat
  BY <1>3, Joined
<1>5. Len(b \o (a \o c)) = Len(b) + Len(a \o c) /\ Len(b) \in Nat
  BY <1>1, <1>4, Joined
<1>6. Len(b \o (a \o c)) = 0
  BY <1>1, EmptyText DEF a, c
<1>7. Len(b) = 0 /\ Len(a) = 0 /\ Len(c) = 0
  BY <1>4, <1>5, <1>6
<1>8. b = <<>> /\ a = <<>> /\ c = <<>>
  BY <1>1, <1>3, <1>7, NoText
<1>9. u = <<>> /\ v = <<>>
  BY <1>2, <1>8 DEF a, c
<1>10. <<>> \o <<>> = <<>>
  BY EmptyText, Joined
<1> QED
  BY <1>8, <1>9, <1>10 DEF TextOf

LEMMA TextIsKept == LineInv => NothingIsLost
<1> SUFFICES ASSUME LineInv PROVE NothingIsLost
  OBVIOUS
<1>0. LineTypes /\ PlainInv /\ SecureInv
  BY DEF LineInv
<1> DEFINE f == FlattenSeq(lines)
           plain == ((f \o indata) \o ssl.plain) \o ssl.part
<1>1. /\ f \in Seq(Byte) /\ f \o indata \in Seq(Byte)
      /\ ssl.plain \in Seq(Byte) /\ ssl.part \in Seq(Byte) /\ wire \in Seq(Byte)
      /\ secure \in BOOLEAN
  BY <1>0, FlatTyped DEF LineTypes, SslState
<1> HIDE DEF f
<1>2. (f \o indata) \o ssl.plain \in Seq(Byte)
  BY <1>1, Joined
<1>3. plain \in Seq(Byte)
  BY <1>1, <1>2, Joined
<1>4. plain = (f \o indata) \o (ssl.plain \o ssl.part)
  <2>1. f \o indata \in Seq(Byte) /\ ssl.plain \in Seq(Byte) /\ ssl.part \in Seq(Byte)
    BY <1>1
  <2> QED
    BY <2>1, Regrouped, Zenon
<1> HIDE DEF plain
<1>5. CASE ~secure
  <2>1. ssl.plain = <<>> /\ ssl.part = <<>>
    BY <1>0, <1>5 DEF PlainInv, NoRecord
  <2>2. plain = f \o indata
    <3>1. <<>> \o <<>> = <<>> /\ (f \o indata) \o <<>> = f \o indata
      BY <1>1, EmptyText, Joined
    <3> QED
      BY <1>4, <2>1, <3>1
  <2>3. plain \o wire = sent
    BY <1>0, <1>5, <2>2 DEF PlainInv, f
  <2>4. IsPrefix(plain, sent)
    BY <1>1, <1>3, <2>3, PrefixOf
  <2>5. wire = <<>> => plain = sent
    BY <1>3, <2>3, Joined
  <2> QED
    BY <2>3, <2>4, <2>5 DEF NothingIsLost, plain, f
<1>6. CASE secure
  <2>1. PICK b, u, v :
          /\ ToCome(tmpdata \o wire, ssl.missing, b, u, v)
          /\ plain \o TextOf(b, u, v) = sent
    BY <1>0, <1>4, <1>6 DEF SecureInv, f
  <2>2. TextOf(b, u, v) \in Seq(Byte)
    <3>1. b \in Seq(Byte) /\ u \in Seq(Byte) /\ v \in Seq(Byte)
      BY <2>1 DEF ToCome
    <3>2. u \o v \in Seq(Byte)
      BY <3>1, Joined
    <3>3. b \o (u \o v) \in Seq(Byte)
      BY <3>1, <3>2, Joined
    <3> QED
      BY <3>3 DEF TextOf
  <2>3. IsPrefix(plain, sent)
    BY <1>3, <2>1, <2>2, PrefixOf
  <2>4. ASSUME wire = <<>>, tmpdata = <<>> PROVE plain = sent
    <3>1. tmpdata \o wire = <<>>
      BY <2>4, EmptyText, Joined
    <3>2. TextOf(b, u, v) = <<>>
      BY <2>1, <3>1, NothingToCome
    <3> QED
      BY <1>3, <2>1, <3>2, Joined
  <2> QED
    BY <1>6, <2>3, <2>4 DEF NothingIsLost, plain, f
<1> QED
  BY <1>1, <1>5, <1>6

\* The state of the line loop keeps its types, and no line is longer than
\* EMAILZ_MAX_LINE_SIZE (emailz_socket_handle_read).
THEOREM ReaderTyped == ReaderSpec => []ReaderTypeOK
<1>1. LineInv => ReaderTypeOK
  <2> SUFFICES ASSUME LineInv PROVE ReaderTypeOK
    OBVIOUS
  <2>1. LineTypes /\ LinesInv
    BY DEF LineInv
  <2>2. DOMAIN lines = 1..Len(lines) /\ \A j \in 1..Len(lines) : lines[j] \in Seq(Byte)
    BY <2>1 DEF LineTypes, ManyTexts
  <2>3. \A j \in DOMAIN lines : lines[j] \in Seq(Byte) /\ Len(lines[j]) \in 1..MaxLine
    BY <2>1, <2>2 DEF LinesInv, IsLine
  <2> QED
    BY <2>1, <2>3 DEF ReaderTypeOK, LineTypes, SslState
<1> QED
  BY <1>1, LinesKept, PTL

\* What reaches the session is what was sent, for texts of any length, cut into
\* arrivals, records and reads of any size: no byte is lost, doubled or reordered,
\* a line ends where it should and waits for nothing, and each command has its
\* word and argument (emailz_socket_handle_read).
THEOREM LinesAlwaysReach == ReaderSpec => []LinesReachSession
<1>1. LineInv => LinesReachSession
  <2> SUFFICES ASSUME LineInv PROVE LinesReachSession
    OBVIOUS
  <2>1. LineTypes /\ LinesInv /\ CommandsInv /\ SslInv /\ WaitInv
    BY DEF LineInv
  <2>2. DOMAIN lines = 1..Len(lines) /\ DOMAIN commands = 1..Len(commands)
    BY <2>1 DEF LineTypes, ManyTexts
  <2>3. LinesAreExact
    BY <2>1, <2>2 DEF LinesAreExact, LinesInv, IsLine
  <2>4. NoLineWaits
    BY <2>1 DEF NoLineWaits, SslInv, WaitInv
  <2>5. CommandIsRead
    BY <2>1, <2>2 DEF CommandIsRead, CommandsInv, IsRead
  <2>6. NothingIsLost
    BY TextIsKept
  <2> QED
    BY <2>3, <2>4, <2>5, <2>6 DEF LinesReachSession
<1> QED
  BY <1>1, LinesKept, PTL

-------------------------------------------------------------------------------
(* The headers of a mail. *)

Here == Len(dataLines)

\* The line ends the headers.
EndsHeaders(i) ==
  \/ dataLines[i].kind \in {"blank", "plain"}
  \/ dataLines[i].kind = "folded" /\ Owner(i) = "nil"

Own(h) == {i \in HeaderLines : dataLines[i].kind \in {"named", "folded"} /\ Owner(i) = h}

OfFits(h) ==
  LET of == headers[h].of
  IN  /\ \A i \in DOMAIN of : \A k \in 1..i-1 : of[k] < of[i]
      /\ {of[i] : i \in DOMAIN of} = Own(h)

\* While the headers last every line is one of theirs, the last header owns the
\* last line, and a header with an array has two lines at least.
InHeadersInv ==
  isInHeaders =>
    /\ HeaderLines = 1..Here
    /\ \A i \in 1..Here : ~EndsHeaders(i)
    /\ IF lastHeader = "nil" THEN ~raised => Here = 0
       ELSE Here > 0 /\ Owner(Here) = lastHeader
    /\ \A h \in Header :
         /\ headers[h].is = "string" => \E i \in 1..Here : Owner(i) = h
         /\ headers[h].is = "array" => \E i, k \in 1..Here : i # k /\ Owner(i) = h /\ Owner(k) = h

EndedInv == ~isInHeaders => \E i \in 1..Here : EndsHeaders(i)

HeaderValue == [is : {"nil", "string", "array"}, of : Seq(Nat)]

TypesInv ==
  /\ dataLines \in Seq(DataLine)
  /\ isInHeaders \in BOOLEAN /\ raised \in BOOLEAN
  /\ lastHeader \in Header \cup {"nil"}
  /\ headers \in [Header -> HeaderValue]
  /\ Here <= MaxDataLines
  /\ data \in Seq(Nat)
  /\ dataSize \in Nat /\ dataSize <= Here

MailInv == TypesInv /\ InHeadersInv /\ EndedInv /\ MailIsRead

-------------------------------------------------------------------------------
\* A line more.
OneMore(line) == dataLines' = Append(dataLines, line)

LEMMA LineAdded ==
  ASSUME TypesInv, NEW line \in DataLine, OneMore(line)
  PROVE  /\ Here \in Nat /\ Here' = Here + 1
         /\ DOMAIN dataLines = 1..Here /\ DOMAIN dataLines' = 1..Here + 1
         /\ \A i \in 1..Here : dataLines'[i] = dataLines[i]
         /\ dataLines'[Here + 1] = line
         /\ dataLines' \in Seq(DataLine)
BY DEF TypesInv, OneMore, Here

Naming(i) == {k \in 1..i : NamesHeader(k)}

LastOf(S) == CHOOSE k \in S : \A m \in S : m <= k

OwnerOf(q, S) == IF S = {} THEN "nil" ELSE q[LastOf(S)].name

LEMMA OwnerIs ==
  ASSUME NEW i
  PROVE  Owner(i) = OwnerOf(dataLines, Naming(i)) /\ Owner(i)' = OwnerOf(dataLines', Naming(i)')
BY DEF Owner, Naming, LastOf, OwnerOf

LEMMA LastIs ==
  ASSUME NEW n \in Nat, NEW S \in SUBSET (1..n), S # {}
  PROVE  LastOf(S) \in S /\ \A m \in S : m <= LastOf(S)
<1>1. S \in SUBSET (0..n)
  OBVIOUS
<1> QED
  BY <1>1, Greatest DEF LastOf

\* It changes nothing about those before.
LEMMA OwnersStay ==
  ASSUME TypesInv, NEW line \in DataLine, OneMore(line), NEW i \in 1..Here
  PROVE  /\ NamesHeader(i)' <=> NamesHeader(i)
         /\ Naming(i)' = Naming(i)
         /\ Owner(i)' = Owner(i)
         /\ EndsHeaders(i)' <=> EndsHeaders(i)
<1>1. \A k \in 1..Here : dataLines'[k] = dataLines[k]
  BY LineAdded
<1>2. Here \in Nat /\ i \in Nat /\ i <= Here
  BY LineAdded
<1>3. \A k \in 1..i : NamesHeader(k)' <=> NamesHeader(k)
  <2> SUFFICES ASSUME NEW k \in 1..i PROVE NamesHeader(k)' <=> NamesHeader(k)
    OBVIOUS
  <2>1. k \in 1..Here /\ \A m \in 1..k-1 : m \in 1..Here
    BY <1>2
  <2> QED
    BY <1>1, <2>1 DEF NamesHeader
<1>4. Naming(i)' = Naming(i)
  BY <1>3 DEF Naming
<1>5. NamesHeader(i)' <=> NamesHeader(i)
  BY <1>2, <1>3
<1>6. Owner(i)' = Owner(i)
  <2>1. Naming(i) \in SUBSET (1..i)
    BY DEF Naming
  <2>2. Naming(i) # {} => LastOf(Naming(i)) \in 1..Here
    <3> SUFFICES ASSUME Naming(i) # {} PROVE LastOf(Naming(i)) \in 1..Here
      OBVIOUS
    <3>1. LastOf(Naming(i)) \in Naming(i)
      BY <1>2, <2>1, LastIs
    <3> QED
      BY <1>2, <2>1, <3>1
  <2> QED
    BY <1>1, <1>4, <2>2, OwnerIs DEF OwnerOf
<1>7. EndsHeaders(i)' <=> EndsHeaders(i)
  BY <1>1, <1>2, <1>6 DEF EndsHeaders
<1> QED
  BY <1>4, <1>5, <1>6, <1>7

\* Of the new line, n.
LEMMA NamingNext ==
  ASSUME TypesInv, NEW line \in DataLine, OneMore(line), NEW n, n = Here + 1, NEW p, p = Here
  PROVE  /\ NamesHeader(n)' => Naming(n)' = Naming(p) \cup {n}
         /\ ~NamesHeader(n)' => Naming(n)' = Naming(p)
<1>1. p \in Nat /\ n \in Nat
  BY LineAdded
<1>2. \A k \in 1..p : NamesHeader(k)' <=> NamesHeader(k)
  BY OwnersStay
<1>3. 1..n = 1..p \cup {n}
  BY <1>1
<1> QED
  BY <1>2, <1>3 DEF Naming

LEMMA OwnerNext ==
  ASSUME TypesInv, "nil" \notin Header, NEW line \in DataLine, OneMore(line),
         NEW n, n = Here + 1, NEW p, p = Here
  PROVE  /\ line.kind = "named" => Owner(n)' = line.name
         /\ p = 0 /\ line.name # "nil" => Owner(n)' = line.name
         /\ p = 0 /\ line.name = "nil" => Owner(n)' = "nil"
         /\ line.kind # "named" /\ p > 0 /\ Owner(p) # "nil" => Owner(n)' = Owner(p)
<1>1. /\ p \in Nat /\ n \in Nat /\ n = p + 1 /\ dataLines'[n] = line
      /\ \A k \in 1..p : dataLines'[k] = dataLines[k]
  BY LineAdded
<1>2. /\ NamesHeader(n)' => Naming(n)' = Naming(p) \cup {n}
      /\ ~NamesHeader(n)' => Naming(n)' = Naming(p)
  BY NamingNext
<1>3. Naming(p) \in SUBSET (1..p) /\ Naming(p) \cup {n} \in SUBSET (1..n)
  BY <1>1 DEF Naming
<1>4. LastOf(Naming(p) \cup {n}) = n
  <2>1. /\ LastOf(Naming(p) \cup {n}) \in Naming(p) \cup {n}
        /\ \A m \in Naming(p) \cup {n} : m <= LastOf(Naming(p) \cup {n})
    BY <1>1, <1>3, LastIs
  <2>2. n <= LastOf(Naming(p) \cup {n}) /\ LastOf(Naming(p) \cup {n}) \in 1..n
    BY <1>3, <2>1
  <2> QED
    BY <1>1, <2>2
<1>5. ASSUME NamesHeader(n)' PROVE Owner(n)' = line.name
  <2>1. Naming(n)' = Naming(p) \cup {n}
    BY <1>2, <1>5
  <2>2. LastOf(Naming(n)') = n /\ Naming(n)' # {}
    BY <1>4, <2>1
  <2>3. Owner(n)' = OwnerOf(dataLines', Naming(n)')
    BY OwnerIs
  <2>4. Owner(n)' = dataLines'[n].name
    BY <2>2, <2>3 DEF OwnerOf
  <2> QED
    BY <1>1, <2>4
<1>0. NamesHeader(n)' <=> \/ line.kind = "named"
                          \/ line.name # "nil" /\ \A k \in 1..n-1 : dataLines'[k].name = "nil"
  <2>1. dataLines'[n] = line
    BY <1>1
  <2> QED
    BY <2>1, Zenon DEF NamesHeader
<1>6. line.kind = "named" => NamesHeader(n)'
  BY <1>0
<1>7. p = 0 /\ line.name # "nil" => NamesHeader(n)'
  <2>1. p = 0 => 1..n-1 = {}
    BY <1>1
  <2> QED
    BY <1>0, <2>1
<1>8. ASSUME p = 0, line.name = "nil" PROVE Owner(n)' = "nil"
  <2>1. CASE line.kind = "named"
    BY <1>5, <1>6, <1>8, <2>1
  <2>2. CASE line.kind # "named"
    <3>1. ~NamesHeader(n)'
      BY <1>0, <1>8, <2>2
    <3>2. Naming(n)' = {}
      BY <1>1, <1>2, <1>3, <1>8, <3>1
    <3> QED
      BY <3>2, OwnerIs DEF OwnerOf
  <2> QED
    BY <2>1, <2>2
<1>9. ASSUME line.kind # "named", p > 0, Owner(p) # "nil" PROVE Owner(n)' = Owner(p)
  <2>1. Naming(p) # {} /\ Owner(p) = dataLines[LastOf(Naming(p))].name
    BY <1>9, OwnerIs DEF OwnerOf
  <2>2. LastOf(Naming(p)) \in Naming(p)
    BY <1>1, <1>3, <2>1, LastIs
  <2>3. PICK k \in 1..p : k = LastOf(Naming(p))
    BY <1>3, <2>2
  <2>4. dataLines'[k].name # "nil" /\ k \in 1..n-1
    BY <1>1, <1>9, <2>1, <2>3
  <2>5. ~NamesHeader(n)'
    BY <1>0, <1>9, <2>4
  <2>6. Naming(n)' = Naming(p)
    BY <1>2, <2>5
  <2>7. dataLines'[LastOf(Naming(p))] = dataLines[LastOf(Naming(p))]
    BY <1>1, <2>3
  <2> QED
    BY <2>1, <2>6, <2>7, OwnerIs DEF OwnerOf
<1> QED
  BY <1>5, <1>6, <1>7, <1>8, <1>9

-------------------------------------------------------------------------------
\* How the lines of the headers grow.
LEMMA LinesEnded ==
  ASSUME TypesInv, NEW line \in DataLine, OneMore(line), NEW n, n = Here + 1,
         (\E i \in 1..Here : EndsHeaders(i)) \/ EndsHeaders(n)'
  PROVE  HeaderLines' = HeaderLines
<1>1. /\ Here \in Nat /\ n \in Nat /\ DOMAIN dataLines = 1..Here /\ DOMAIN dataLines' = 1..n
      /\ 1..n = 1..Here \cup {n}
  BY LineAdded
<1>2. \A i \in 1..Here : EndsHeaders(i)' <=> EndsHeaders(i)
  BY OwnersStay
<1>3. /\ HeaderLines = {i \in 1..Here : \A e \in {k \in 1..Here : EndsHeaders(k)} : i < e}
      /\ HeaderLines' = {i \in 1..n : \A e \in {k \in 1..n : EndsHeaders(k)'} : i < e}
  BY <1>1 DEF HeaderLines, EndsHeaders
<1>4. \E e \in 1..n : EndsHeaders(e)' /\ e <= n
  BY <1>1, <1>2
<1>5. ASSUME NEW i \in HeaderLines' PROVE i \in HeaderLines
  <2>1. i \in 1..n /\ \A e \in 1..n : EndsHeaders(e)' => i < e
    BY <1>3
  <2>2. i # n
    BY <1>1, <1>4, <2>1
  <2>3. i \in 1..Here /\ \A e \in 1..Here : EndsHeaders(e) => i < e
    BY <1>1, <1>2, <2>1, <2>2
  <2> QED
    BY <1>3, <2>3
<1>6. ASSUME NEW i \in HeaderLines PROVE i \in HeaderLines'
  <2>1. i \in 1..Here /\ \A e \in 1..Here : EndsHeaders(e) => i < e
    BY <1>3
  <2>2. i \in 1..n /\ i < n
    BY <1>1, <2>1
  <2>3. \A e \in 1..n : EndsHeaders(e)' => i < e
    BY <1>1, <1>2, <2>1, <2>2
  <2> QED
    BY <1>3, <2>2, <2>3
<1> QED
  BY <1>5, <1>6

LEMMA LinesGoOn ==
  ASSUME TypesInv, NEW line \in DataLine, OneMore(line), NEW n, n = Here + 1,
         \A i \in 1..Here : ~EndsHeaders(i), ~EndsHeaders(n)'
  PROVE  HeaderLines' = 1..n /\ \A i \in 1..n : ~EndsHeaders(i)'
<1>1. /\ Here \in Nat /\ DOMAIN dataLines' = 1..n /\ 1..n = 1..Here \cup {n}
  BY LineAdded
<1>2. \A i \in 1..n : ~EndsHeaders(i)'
  BY <1>1, OwnersStay
<1>3. HeaderLines' = {i \in 1..n : \A e \in {k \in 1..n : EndsHeaders(k)'} : i < e}
  BY <1>1 DEF HeaderLines, EndsHeaders
<1> QED
  BY <1>2, <1>3

LEMMA OwnEnded ==
  ASSUME TypesInv, NEW line \in DataLine, OneMore(line), NEW n, n = Here + 1,
         (\E i \in 1..Here : EndsHeaders(i)) \/ EndsHeaders(n)', NEW h
  PROVE  Own(h)' = Own(h)
<1>1. HeaderLines' = HeaderLines /\ HeaderLines \subseteq 1..Here
  BY LinesEnded, LineAdded DEF HeaderLines
<1>2. \A i \in 1..Here : Owner(i)' = Owner(i) /\ dataLines'[i] = dataLines[i]
  BY OwnersStay, LineAdded
<1> QED
  BY <1>1, <1>2 DEF Own

LEMMA OwnGoesOn ==
  ASSUME TypesInv, NEW line \in DataLine, OneMore(line), NEW n, n = Here + 1,
         \A i \in 1..Here : ~EndsHeaders(i), ~EndsHeaders(n)', HeaderLines = 1..Here, NEW h
  PROVE  /\ line.kind \in {"named", "folded"} /\ Owner(n)' = h => Own(h)' = Own(h) \cup {n}
         /\ ~(line.kind \in {"named", "folded"} /\ Owner(n)' = h) => Own(h)' = Own(h)
         /\ Own(h) \subseteq 1..Here
<1>1. HeaderLines' = 1..n
  BY LinesGoOn
<1>2. \A i \in 1..Here : Owner(i)' = Owner(i) /\ dataLines'[i] = dataLines[i]
  BY OwnersStay, LineAdded
<1>3. Here \in Nat /\ 1..n = 1..Here \cup {n} /\ dataLines'[n] = line
  BY LineAdded
<1>4. Own(h)' = {i \in 1..n : dataLines'[i].kind \in {"named", "folded"} /\ Owner(i)' = h}
  BY <1>1 DEF Own
<1>5. Own(h) = {i \in 1..Here : dataLines[i].kind \in {"named", "folded"} /\ Owner(i) = h}
  BY DEF Own
<1> QED
  BY <1>2, <1>3, <1>4, <1>5

\* What holds of the types and of the data in every step.
LEMMA DataStep ==
  ASSUME HeaderAssumption, TypesInv, DataIsKept, NEW line \in DataLine, HandleData(line)
  PROVE  /\ DataIsKept'
         /\ Here' <= MaxDataLines /\ data' \in Seq(Nat) /\ dataSize' \in Nat /\ dataSize' <= Here'
<1> DEFINE n == Here + 1
<1>1. OneMore(line) /\ ~raised /\ Here < MaxDataLines /\ data' = Append(data, n)
      /\ dataSize' = (IF raised' THEN dataSize ELSE dataSize + Size(line))
  BY DEF HandleData, OneMore, Here
<1>2. /\ Here \in Nat /\ Here' = n /\ DOMAIN dataLines = 1..Here /\ DOMAIN dataLines' = 1..n
      /\ \A i \in 1..Here : dataLines'[i] = dataLines[i]
      /\ dataLines'[n] = line
  BY <1>1, LineAdded
<1>3. data \in Seq(Nat) /\ dataSize \in Nat /\ dataSize <= Here /\ MaxDataLines \in Nat
  BY HeaderAssumption DEF TypesInv
<1>4. Size(line) \in 0..1
  BY DEF Size
<1>5. Here' <= MaxDataLines /\ data' \in Seq(Nat) /\ dataSize' \in Nat /\ dataSize' <= Here'
  BY <1>1, <1>2, <1>3, <1>4
<1>6. data = [i \in 1..Here |-> i]
  BY <1>2 DEF DataIsKept
<1>7. data' = [i \in 1..n |-> i]
  <2>1. Len(data) = Here
    BY <1>2, <1>3, <1>6
  <2> QED
    BY <1>1, <1>2, <1>3, <1>6, <2>1
<1> DEFINE D == {i \in 1..Here : dataLines[i].kind # "undecodable"}
           DD == {i \in 1..n : dataLines'[i].kind # "undecodable"}
<1>8. dataSize = Cardinality(D)
  BY <1>1, <1>2 DEF DataIsKept
<1>9. IsFiniteSet(D) /\ n \notin D
  <2>1. D \subseteq 1..Here /\ IsFiniteSet(1..Here)
    BY <1>2, FS_Interval
  <2> QED
    BY <1>2, <2>1, FS_Subset
<1>10. DD = IF line.kind = "undecodable" THEN D ELSE D \cup {n}
  BY <1>2
<1> HIDE DEF D, DD
<1>11. Cardinality(DD) = dataSize + Size(line)
  <2>1. Cardinality(D \cup {n}) = Cardinality(D) + 1
    BY <1>9, FS_AddElement
  <2> QED
    BY <1>3, <1>8, <1>10, <2>1 DEF Size
<1>12. ~raised' => dataSize' = Cardinality(DD)
  BY <1>1, <1>11
<1>13. DataIsKept'
  BY <1>2, <1>7, <1>12 DEF DataIsKept, DD
<1> QED
  BY <1>5, <1>13

LEMMA ExactIs ==
  /\ HeadersAreExact <=> \A h \in Header : OfFits(h)
  /\ HeadersAreExact' <=> \A h \in Header : OfFits(h)'
BY DEF HeadersAreExact, OfFits, Own

-------------------------------------------------------------------------------
\* A line behind the headers, or one that ends them.
LEMMA StepEnds ==
  ASSUME HeaderAssumption, MailInv, NEW line \in DataLine, HandleData(line), NEW n, n = Here + 1,
         (\E i \in 1..Here : EndsHeaders(i)) \/ EndsHeaders(n)',
         UNCHANGED <<headers, lastHeader, raised>>, isInHeaders' = FALSE
  PROVE  MailInv'
<1>1. TypesInv /\ OneMore(line) /\ ~raised
  BY DEF MailInv, HandleData, OneMore
<1>2. Here' = n /\ Here \in Nat /\ n \in 1..n /\ dataLines' \in Seq(DataLine)
  BY <1>1, LineAdded
<1>3. /\ DataIsKept'
      /\ Here' <= MaxDataLines /\ data' \in Seq(Nat) /\ dataSize' \in Nat /\ dataSize' <= Here'
  BY <1>1, DataStep DEF MailInv, MailIsRead
<1>4. TypesInv'
  BY <1>1, <1>2, <1>3 DEF TypesInv
<1>5. \A h \in Header : OfFits(h)'
  <2> SUFFICES ASSUME NEW h \in Header PROVE OfFits(h)'
    OBVIOUS
  <2>1. Own(h)' = Own(h)
    BY <1>1, OwnEnded
  <2>2. OfFits(h)
    BY ExactIs DEF MailInv, MailIsRead
  <2> QED
    BY <2>1, <2>2 DEF OfFits
<1>6. EndedInv' /\ InHeadersInv'
  <2>1. \E i \in 1..n : EndsHeaders(i)'
    <3>1. CASE \E i \in 1..Here : EndsHeaders(i)
      <4>1. PICK i \in 1..Here : EndsHeaders(i)
        BY <3>1
      <4>2. EndsHeaders(i)' /\ i \in 1..n
        BY <1>1, <1>2, <4>1, OwnersStay
      <4> QED
        BY <4>2
    <3>2. CASE EndsHeaders(n)'
      BY <1>2, <3>2
    <3> QED
      BY <3>1, <3>2
  <2> QED
    BY <1>2, <2>1 DEF EndedInv, InHeadersInv
<1>7. RaisesOnlyOnUndecodable'
  BY <1>1 DEF RaisesOnlyOnUndecodable
<1> QED
  BY <1>3, <1>4, <1>5, <1>6, <1>7, ExactIs DEF MailInv, MailIsRead

\* A line that is the value of a header, or a part of one.
LEMMA StepValued ==
  ASSUME HeaderAssumption, MailInv, NEW line \in DataLine, HandleData(line), NEW n, n = Here + 1,
         isInHeaders, NEW name \in Header, Valued(name, n),
         line.kind \in {"named", "folded"}, Owner(n)' = name
  PROVE  MailInv'
<1>1. /\ TypesInv /\ OneMore(line) /\ ~raised /\ raised' = raised /\ isInHeaders' = TRUE
      /\ headers' = [headers EXCEPT ![name] = ValueAdded(headers[name], n)]
      /\ lastHeader' = name /\ name # "nil"
  BY DEF MailInv, HandleData, OneMore, Valued, HeaderAssumption
<1>2. /\ Here' = n /\ Here \in Nat /\ n \in 1..n /\ n \in Nat /\ n > 0 /\ 1..n = 1..Here \cup {n}
      /\ dataLines' \in Seq(DataLine) /\ dataLines'[n] = line
  BY <1>1, LineAdded
<1>3. /\ DataIsKept'
      /\ Here' <= MaxDataLines /\ data' \in Seq(Nat) /\ dataSize' \in Nat /\ dataSize' <= Here'
  BY <1>1, DataStep DEF MailInv, MailIsRead
<1>4. /\ headers \in [Header -> HeaderValue] /\ headers[name] \in HeaderValue
      /\ headers[name].of \in Seq(Nat)
  BY <1>1 DEF TypesInv, HeaderValue
<1>5. /\ headers' \in [Header -> HeaderValue]
      /\ headers'[name] = [is |-> IF headers[name].is = "nil" THEN "string" ELSE "array",
                           of |-> Append(headers[name].of, n)]
      /\ \A h \in Header \ {name} : headers'[h] = headers[h]
  <2>1. ValueAdded(headers[name], n) \in HeaderValue
    BY <1>2, <1>4 DEF ValueAdded, HeaderValue
  <2> QED
    BY <1>1, <1>4, <2>1 DEF ValueAdded
<1>6. TypesInv'
  BY <1>1, <1>2, <1>3, <1>5 DEF TypesInv
<1>7. /\ HeaderLines = 1..Here
      /\ \A i \in 1..Here : ~EndsHeaders(i)
      /\ \A h \in Header :
           /\ headers[h].is = "string" => \E i \in 1..Here : Owner(i) = h
           /\ headers[h].is = "array" => \E i, k \in 1..Here : i # k /\ Owner(i) = h /\ Owner(k) = h
  BY DEF MailInv, InHeadersInv
<1>8. ~EndsHeaders(n)'
  BY <1>1, <1>2 DEF EndsHeaders
<1>9. HeaderLines' = 1..n /\ \A i \in 1..n : ~EndsHeaders(i)'
  BY <1>1, <1>7, <1>8, LinesGoOn
<1>10. \A h \in Header : OfFits(h)'
  <2> SUFFICES ASSUME NEW h \in Header PROVE OfFits(h)'
    OBVIOUS
  <2>1. /\ h = name => Own(h)' = Own(h) \cup {n}
        /\ h # name => Own(h)' = Own(h)
        /\ Own(h) \subseteq 1..Here
    BY <1>1, <1>7, <1>8, OwnGoesOn
  <2>2. OfFits(h)
    BY ExactIs DEF MailInv, MailIsRead
  <2>3. CASE h # name
    BY <1>5, <2>1, <2>2, <2>3 DEF OfFits
  <2>4. CASE h = name
    <3> DEFINE of == headers[name].of
    <3>1. /\ of \in Seq(Nat)
          /\ \A i \in DOMAIN of : \A k \in 1..i-1 : of[k] < of[i]
          /\ {of[i] : i \in DOMAIN of} = Own(h)
      BY <1>4, <2>2, <2>4 DEF OfFits
    <3>2. headers'[h].of = Append(of, n)
      BY <1>5, <2>4
    <3> HIDE DEF of
    <3>3. PICK m \in Nat : m = Len(of)
      BY <3>1
    <3>4. /\ DOMAIN of = 1..m /\ DOMAIN Append(of, n) = 1..m + 1
          /\ \A i \in 1..m : Append(of, n)[i] = of[i]
          /\ Append(of, n)[m + 1] = n
      BY <1>2, <3>1, <3>3
    <3>5. \A i \in 1..m : of[i] \in Nat /\ of[i] < n
      <4> SUFFICES ASSUME NEW i \in 1..m PROVE of[i] \in Nat /\ of[i] < n
        OBVIOUS
      <4>1. of[i] \in Own(h)
        BY <3>1, <3>4
      <4>2. of[i] \in 1..Here
        BY <2>1, <4>1
      <4> QED
        BY <1>2, <4>2
    <3>6. ASSUME NEW i \in 1..m + 1, NEW k \in 1..i-1 PROVE Append(of, n)[k] < Append(of, n)[i]
      <4>1. k \in 1..m
        BY <3>3
      <4>2. CASE i \in 1..m
        BY <3>1, <3>4, <4>1, <4>2
      <4>3. CASE i = m + 1
        BY <3>4, <3>5, <4>1, <4>3
      <4>4. i \in 1..m \/ i = m + 1
        BY <3>3
      <4> QED
        BY <4>2, <4>3, <4>4
    <3>7. {Append(of, n)[i] : i \in 1..m + 1} = {of[i] : i \in 1..m} \cup {n}
      <4>1. 1..m + 1 = 1..m \cup {m + 1}
        OBVIOUS
      <4> QED
        BY <3>4, <4>1
    <3>8. {Append(of, n)[i] : i \in DOMAIN Append(of, n)} = Own(h)'
      BY <2>1, <2>4, <3>1, <3>4, <3>7
    <3> QED
      BY <3>2, <3>4, <3>6, <3>8 DEF OfFits
  <2> QED
    BY <2>3, <2>4
<1>11. \A i \in 1..Here : Owner(i)' = Owner(i)
  BY <1>1, OwnersStay
<1>12. ASSUME NEW h \in Header
       PROVE  /\ headers'[h].is = "string" => \E i \in 1..n : Owner(i)' = h
              /\ headers'[h].is = "array" =>
                   \E i, k \in 1..n : i # k /\ Owner(i)' = h /\ Owner(k)' = h
  <2>1. /\ headers[h].is = "string" => \E i \in 1..Here : Owner(i)' = h
        /\ headers[h].is = "array" =>
             \E i, k \in 1..Here : i # k /\ Owner(i)' = h /\ Owner(k)' = h
    BY <1>7, <1>11
  <2>2. CASE h # name
    BY <1>2, <1>5, <2>1, <2>2
  <2>3. CASE h = name
    <3>1. headers[h].is \in {"nil", "string", "array"}
      BY <1>4, <2>3 DEF HeaderValue
    <3>2. headers'[h].is = IF headers[h].is = "nil" THEN "string" ELSE "array"
      BY <1>5, <2>3
    <3>3. headers'[h].is = "string" => \E i \in 1..n : Owner(i)' = h
      BY <1>2, <2>3
    <3>4. headers[h].is \in {"string", "array"} => \E i \in 1..Here : Owner(i)' = h
      BY <2>1
    <3>5. ASSUME headers'[h].is = "array"
          PROVE  \E i, k \in 1..n : i # k /\ Owner(i)' = h /\ Owner(k)' = h
      <4>1. headers[h].is \in {"string", "array"}
        BY <3>1, <3>2, <3>5
      <4>2. PICK i \in 1..Here : Owner(i)' = h
        BY <3>4, <4>1
      <4>3. i \in 1..n /\ i # n
        BY <1>2
      <4> QED
        BY <1>2, <2>3, <4>2, <4>3
    <3> QED
      BY <3>3, <3>5
  <2> QED
    BY <2>2, <2>3
<1>13. InHeadersInv' /\ EndedInv'
  BY <1>1, <1>2, <1>9, <1>12 DEF InHeadersInv, EndedInv
<1>14. RaisesOnlyOnUndecodable'
  BY <1>1 DEF RaisesOnlyOnUndecodable
<1> QED
  BY <1>3, <1>6, <1>10, <1>13, <1>14, ExactIs DEF MailInv, MailIsRead

\* A line that is not UTF-8.
LEMMA StepUndecodable ==
  ASSUME HeaderAssumption, MailInv, NEW line \in DataLine, HandleData(line), NEW n, n = Here + 1,
         isInHeaders, UndecodableLine(line)
  PROVE  MailInv'
<1>1. /\ TypesInv /\ OneMore(line) /\ ~raised /\ isInHeaders' = isInHeaders /\ isInHeaders = TRUE
      /\ lastHeader' = lastHeader /\ "nil" \notin Header
      /\ line.kind = "undecodable" /\ line.name = "nil"
  BY DEF MailInv, TypesInv, HandleData, OneMore, UndecodableLine, HeaderAssumption, DataLine
<1>2. /\ Here' = n /\ Here \in Nat /\ n \in 1..n /\ n \in Nat /\ n > 0 /\ 1..n = 1..Here \cup {n}
      /\ dataLines' \in Seq(DataLine) /\ dataLines'[n] = line
  BY <1>1, LineAdded
<1>3. /\ DataIsKept'
      /\ Here' <= MaxDataLines /\ data' \in Seq(Nat) /\ dataSize' \in Nat /\ dataSize' <= Here'
  BY <1>1, DataStep DEF MailInv, MailIsRead
<1>4. headers \in [Header -> HeaderValue] /\ lastHeader \in Header \cup {"nil"}
  BY <1>1 DEF TypesInv
<1>7. /\ HeaderLines = 1..Here
      /\ \A i \in 1..Here : ~EndsHeaders(i)
      /\ lastHeader = "nil" => Here = 0
      /\ lastHeader # "nil" => Here > 0 /\ Owner(Here) = lastHeader
      /\ \A h \in Header :
           /\ headers[h].is = "string" => \E i \in 1..Here : Owner(i) = h
           /\ headers[h].is = "array" => \E i, k \in 1..Here : i # k /\ Owner(i) = h /\ Owner(k) = h
  BY <1>1 DEF MailInv, InHeadersInv
<1>8. ~EndsHeaders(n)'
  BY <1>1, <1>2 DEF EndsHeaders
<1>9. HeaderLines' = 1..n /\ \A i \in 1..n : ~EndsHeaders(i)'
  BY <1>1, <1>7, <1>8, LinesGoOn
<1>10. Owner(n)' = lastHeader
  <2>1. PICK p : p = Here
    OBVIOUS
  <2>2. /\ p = 0 => Owner(n)' = "nil"
        /\ p > 0 /\ Owner(p) # "nil" => Owner(n)' = Owner(p)
    <3>1. /\ p = 0 /\ line.name = "nil" => Owner(n)' = "nil"
          /\ line.kind # "named" /\ p > 0 /\ Owner(p) # "nil" => Owner(n)' = Owner(p)
      BY <1>1, <2>1, OwnerNext
    <3> QED
      BY <1>1, <3>1
  <2> QED
    BY <1>7, <2>1, <2>2
<1>11. \A i \in 1..Here : Owner(i)' = Owner(i)
  BY <1>1, OwnersStay
<1>12. \A h : Own(h)' = Own(h)
  BY <1>1, <1>7, <1>8, OwnGoesOn
<1>13. \A h \in Header : OfFits(h)
  BY ExactIs DEF MailInv, MailIsRead
<1>14. CASE /\ lastHeader \in Holding("string")
            /\ headers' = [headers EXCEPT ![lastHeader].is = "array"]
            /\ UNCHANGED raised
  <2>1. lastHeader \in Header /\ headers[lastHeader].is = "string" /\ headers[lastHeader] \in HeaderValue
    BY <1>4, <1>14 DEF Holding
  <2>2. /\ headers' \in [Header -> HeaderValue]
        /\ headers'[lastHeader].is = "array"
        /\ \A h \in Header : headers'[h].of = headers[h].of
        /\ \A h \in Header \ {lastHeader} : headers'[h] = headers[h]
    <3>1. headers' = [headers EXCEPT ![lastHeader] = [headers[lastHeader] EXCEPT !.is = "array"]]
      BY <1>14
    <3>2. /\ [headers[lastHeader] EXCEPT !.is = "array"] \in HeaderValue
          /\ [headers[lastHeader] EXCEPT !.is = "array"].is = "array"
          /\ [headers[lastHeader] EXCEPT !.is = "array"].of = headers[lastHeader].of
      BY <2>1 DEF HeaderValue
    <3> QED
      BY <1>4, <2>1, <3>1, <3>2
  <2>3. TypesInv'
    BY <1>1, <1>2, <1>3, <1>4, <1>14, <2>2 DEF TypesInv
  <2>4. \A h \in Header : OfFits(h)'
    BY <1>12, <1>13, <2>2 DEF OfFits
  <2>5. ASSUME NEW h \in Header
        PROVE  /\ headers'[h].is = "string" => \E i \in 1..n : Owner(i)' = h
               /\ headers'[h].is = "array" =>
                    \E i, k \in 1..n : i # k /\ Owner(i)' = h /\ Owner(k)' = h
    <3>1. /\ headers[h].is = "string" => \E i \in 1..Here : Owner(i)' = h
          /\ headers[h].is = "array" =>
               \E i, k \in 1..Here : i # k /\ Owner(i)' = h /\ Owner(k)' = h
      BY <1>7, <1>11
    <3>2. CASE h # lastHeader
      BY <1>2, <2>2, <3>1, <3>2
    <3>3. CASE h = lastHeader
      <4>1. PICK i \in 1..Here : Owner(i)' = h
        BY <2>1, <3>1, <3>3
      <4>2. i \in 1..n /\ i # n
        BY <1>2
      <4>3. headers'[h].is = "array"
        BY <2>2, <3>3
      <4> QED
        BY <1>2, <1>10, <3>3, <4>1, <4>2, <4>3
    <3> QED
      BY <3>2, <3>3
  <2>6. InHeadersInv' /\ EndedInv'
    <3>1. lastHeader' # "nil" /\ Here' > 0 /\ Owner(n)' = lastHeader'
      BY <1>1, <1>2, <1>10, <2>1
    <3> QED
      BY <1>1, <1>2, <1>9, <2>5, <3>1 DEF InHeadersInv, EndedInv
  <2>7. RaisesOnlyOnUndecodable'
    BY <1>1, <1>14 DEF RaisesOnlyOnUndecodable
  <2> QED
    BY <1>3, <2>3, <2>4, <2>6, <2>7, ExactIs DEF MailInv, MailIsRead
<1>15. CASE /\ lastHeader \in Holding("array") \cup {"nil"}
            /\ raised' = TRUE
            /\ UNCHANGED headers
  <2>1. TypesInv'
    BY <1>1, <1>2, <1>3, <1>4, <1>15 DEF TypesInv
  <2>2. \A h \in Header : OfFits(h)'
    BY <1>12, <1>13, <1>15 DEF OfFits
  <2>3. ASSUME NEW h \in Header
        PROVE  /\ headers'[h].is = "string" => \E i \in 1..n : Owner(i)' = h
               /\ headers'[h].is = "array" =>
                    \E i, k \in 1..n : i # k /\ Owner(i)' = h /\ Owner(k)' = h
    <3>1. /\ headers[h].is = "string" => \E i \in 1..Here : Owner(i)' = h
          /\ headers[h].is = "array" =>
               \E i, k \in 1..Here : i # k /\ Owner(i)' = h /\ Owner(k)' = h
      BY <1>7, <1>11
    <3> QED
      BY <1>2, <1>15, <3>1
  <2>4. InHeadersInv' /\ EndedInv'
    <3>1. Here' > 0 /\ Owner(n)' = lastHeader'
      BY <1>1, <1>2, <1>10
    <3> QED
      BY <1>1, <1>2, <1>9, <1>15, <2>3, <3>1 DEF InHeadersInv, EndedInv
  <2>5. RaisesOnlyOnUndecodable'
    <3> DEFINE K == {k \in 1..n : Owner(k)' = lastHeader}
    <3>1. lastHeader # "nil" => Cardinality(K) > 2
      <4> SUFFICES ASSUME lastHeader # "nil" PROVE Cardinality(K) > 2
        OBVIOUS
      <4>1. lastHeader \in Header /\ headers[lastHeader].is = "array"
        BY <1>4, <1>15 DEF Holding
      <4>2. PICK i, k \in 1..Here : i # k /\ Owner(i) = lastHeader /\ Owner(k) = lastHeader
        BY <1>7, <4>1
      <4>3. /\ {i, k, n} \subseteq K /\ i # n /\ k # n
        BY <1>2, <1>10, <1>11, <4>2
      <4>4. Cardinality({i, k, n}) = 3
        <5>1. Cardinality({i}) = 1 /\ IsFiniteSet({i})
          BY FS_Singleton
        <5>2. k \notin {i} /\ n \notin {i} \cup {k} /\ {i, k, n} = ({i} \cup {k}) \cup {n}
          BY <4>2, <4>3
        <5>3. IsFiniteSet({i} \cup {k}) /\ Cardinality({i} \cup {k}) = 1 + 1
          BY <5>1, <5>2, FS_AddElement
        <5>4. Cardinality(({i} \cup {k}) \cup {n}) = 1 + 1 + 1
          BY <5>2, <5>3, FS_AddElement
        <5> QED
          BY <5>2, <5>4
      <4>5. IsFiniteSet(K)
        <5>1. K \subseteq 1..n /\ IsFiniteSet(1..n)
          BY <1>2, FS_Interval
        <5> QED
          BY <5>1, FS_Subset
      <4>6. Cardinality({i, k, n}) <= Cardinality(K) /\ Cardinality(K) \in Nat
        BY <4>3, <4>5, FS_Subset, FS_CardinalityType
      <4> QED
        BY <4>4, <4>6
    <3>2. n \in HeaderLines' /\ Len(dataLines') = n
      BY <1>2, <1>9 DEF Here
    <3> QED
      BY <1>1, <1>2, <1>10, <3>1, <3>2 DEF RaisesOnlyOnUndecodable
  <2> QED
    BY <1>3, <2>1, <2>2, <2>4, <2>5, ExactIs DEF MailInv, MailIsRead
<1> QED
  BY <1>14, <1>15 DEF UndecodableLine

-------------------------------------------------------------------------------
LEMMA InitMail ==
  HeaderAssumption /\ HeadersInit => MailInv
<1> SUFFICES ASSUME HeaderAssumption, HeadersInit PROVE MailInv
  OBVIOUS
<1>1. /\ dataLines = <<>> /\ Here = 0 /\ DOMAIN dataLines = {} /\ isInHeaders = TRUE
      /\ raised = FALSE /\ lastHeader = "nil" /\ headers = [h \in Header |-> NoValue]
      /\ data = <<>> /\ dataSize = 0
  BY DEF HeadersInit, Here
<1>2. TypesInv
  <2>1. NoValue \in HeaderValue
    BY DEF NoValue, HeaderValue
  <2>2. headers \in [Header -> HeaderValue]
    BY <1>1, <2>1
  <2>3. MaxDataLines \in Nat
    BY DEF HeaderAssumption
  <2>4. dataLines \in Seq(DataLine) /\ data \in Seq(Nat)
    BY <1>1
  <2>5. Here <= MaxDataLines /\ dataSize \in Nat /\ dataSize <= Here
    BY <1>1, <2>3
  <2>6. isInHeaders \in BOOLEAN /\ raised \in BOOLEAN /\ lastHeader \in Header \cup {"nil"}
    BY <1>1
  <2> QED
    BY <2>2, <2>4, <2>5, <2>6 DEF TypesInv
<1>3. HeaderLines = {} /\ \A h : Own(h) = {}
  BY <1>1 DEF HeaderLines, Own
<1>4. InHeadersInv /\ EndedInv
  BY <1>1, <1>3 DEF InHeadersInv, EndedInv, NoValue
<1>5. \A h \in Header : OfFits(h)
  BY <1>1, <1>3 DEF OfFits, NoValue
<1>6. DataIsKept
  <2>1. {i \in DOMAIN dataLines : dataLines[i].kind # "undecodable"} = {}
    BY <1>1
  <2>2. data = [i \in DOMAIN dataLines |-> i]
    BY <1>1
  <2> QED
    BY <1>1, <2>1, <2>2, FS_EmptySet DEF DataIsKept
<1>7. RaisesOnlyOnUndecodable
  BY <1>1 DEF RaisesOnlyOnUndecodable
<1> QED
  BY <1>2, <1>4, <1>5, <1>6, <1>7, ExactIs DEF MailInv, MailIsRead

LEMMA NextMail ==
  HeaderAssumption /\ MailInv /\ [HeadersNext]_headerVars => MailInv'
<1> SUFFICES ASSUME HeaderAssumption, MailInv, [HeadersNext]_headerVars PROVE MailInv'
  OBVIOUS
<1>1. CASE HeadersNext
  <2>1. PICK line \in DataLine : HandleData(line)
    BY <1>1 DEF HeadersNext
  <2>2. PICK n : n = Here + 1
    OBVIOUS
  <2>3. /\ TypesInv /\ OneMore(line) /\ ~raised /\ "nil" \notin Header
        /\ lastHeader \in Header \cup {"nil"} /\ isInHeaders \in BOOLEAN
    BY <2>1 DEF MailInv, TypesInv, HandleData, OneMore, HeaderAssumption
  <2>4. dataLines'[n] = line /\ Here \in Nat
    BY <2>2, <2>3, LineAdded
  <2>5. CASE ~isInHeaders
    <3>1. UNCHANGED <<headers, lastHeader, raised>> /\ isInHeaders' = FALSE
      BY <2>1, <2>3, <2>5 DEF HandleData
    <3>2. \E i \in 1..Here : EndsHeaders(i)
      BY <2>5 DEF MailInv, EndedInv
    <3> QED
      BY <2>1, <2>2, <3>1, <3>2, StepEnds
  <2>6. CASE isInHeaders
    <3>1. /\ lastHeader = "nil" => Here = 0
          /\ lastHeader # "nil" => Here > 0 /\ Owner(Here) = lastHeader
      BY <2>3, <2>6 DEF MailInv, InHeadersInv
    <3>2. PICK p : p = Here
      OBVIOUS
    <3>3. /\ line.kind = "named" => Owner(n)' = line.name
          /\ p = 0 /\ line.name # "nil" => Owner(n)' = line.name
          /\ p = 0 /\ line.name = "nil" /\ line.kind # "named" => Owner(n)' = "nil"
          /\ line.kind # "named" /\ p > 0 /\ Owner(p) # "nil" => Owner(n)' = Owner(p)
      BY <2>2, <2>3, <3>2, OwnerNext
    <3>4. BlankLine(line) \/ NamedLine(line, n) \/ FoldedLine(line, n)
            \/ PlainLine(line) \/ UndecodableLine(line)
      BY <2>1, <2>2, <2>6 DEF HandleData, Here
    <3>5. CASE BlankLine(line) \/ PlainLine(line)
      <4>1. EndsHeaders(n)'
        BY <2>4, <3>5 DEF EndsHeaders, BlankLine, PlainLine
      <4>2. UNCHANGED <<headers, lastHeader, raised>> /\ isInHeaders' = FALSE
        BY <3>5 DEF BlankLine, PlainLine
      <4> QED
        BY <2>1, <2>2, <4>1, <4>2, StepEnds
    <3>6. CASE NamedLine(line, n)
      <4>1. line.kind = "named" /\ Valued(line.name, n)
        BY <3>6 DEF NamedLine
      <4>2. line.name \in Header
        BY <4>1 DEF DataLine
      <4> QED
        BY <2>1, <2>2, <2>6, <3>3, <4>1, <4>2, StepValued
    <3>7. CASE FoldedLine(line, n)
      <4>1. line.kind = "folded" /\ line.name \in Header \cup {"nil"}
        BY <3>7 DEF FoldedLine, DataLine
      <4>2. CASE lastHeader # "nil" /\ Valued(lastHeader, n)
        <5>1. Owner(n)' = lastHeader /\ lastHeader \in Header
          BY <2>3, <3>1, <3>2, <3>3, <4>1, <4>2
        <5>2. PICK name \in Header : name = lastHeader
          BY <5>1
        <5>3. Valued(name, n) /\ Owner(n)' = name
          BY <4>2, <5>1, <5>2
        <5> QED
          BY <2>1, <2>2, <2>6, <4>1, <5>3, StepValued
      <4>3. CASE lastHeader = "nil" /\ line.name # "nil" /\ Valued(line.name, n)
        <5>1. Owner(n)' = line.name /\ line.name \in Header
          BY <3>1, <3>2, <3>3, <4>1, <4>3
        <5> QED
          BY <2>1, <2>2, <2>6, <4>1, <4>3, <5>1, StepValued
      <4>4. CASE /\ lastHeader = "nil" /\ line.name = "nil"
                 /\ isInHeaders' = FALSE
                 /\ UNCHANGED <<headers, lastHeader, raised>>
        <5>1. Owner(n)' = "nil"
          BY <3>1, <3>2, <3>3, <4>1, <4>4
        <5>2. EndsHeaders(n)'
          BY <2>4, <4>1, <5>1 DEF EndsHeaders
        <5> QED
          BY <2>1, <2>2, <4>4, <5>2, StepEnds
      <4> QED
        BY <3>7, <4>2, <4>3, <4>4 DEF FoldedLine
    <3>8. CASE UndecodableLine(line)
      BY <2>1, <2>2, <2>6, <3>8, StepUndecodable
    <3> QED
      BY <3>4, <3>5, <3>6, <3>7, <3>8
  <2> QED
    BY <2>3, <2>5, <2>6
<1>2. CASE UNCHANGED headerVars
  <2>1. /\ dataLines' = dataLines /\ isInHeaders' = isInHeaders /\ lastHeader' = lastHeader
        /\ headers' = headers /\ data' = data /\ dataSize' = dataSize /\ raised' = raised
    BY <1>2 DEF headerVars
  <2>0. /\ \A i : (NamesHeader(i)' <=> NamesHeader(i)) /\ Naming(i)' = Naming(i)
        /\ Here' = Here
    BY <2>1 DEF NamesHeader, Naming, Here
  <2>10. \A i : Owner(i)' = Owner(i)
    BY <2>0, <2>1, OwnerIs
  <2>11. \A i : EndsHeaders(i)' <=> EndsHeaders(i)
    BY <2>1, <2>10 DEF EndsHeaders
  <2>12. HeaderLines' = HeaderLines
    BY <2>1, <2>10 DEF HeaderLines
  <2>13. \A h : Own(h)' = Own(h)
    BY <2>1, <2>10, <2>12 DEF Own
  <2>14. TypesInv'
    BY <2>0, <2>1 DEF MailInv, TypesInv
  <2>15. InHeadersInv'
    BY <2>0, <2>1, <2>10, <2>11, <2>12 DEF MailInv, InHeadersInv
  <2>16. EndedInv'
    BY <2>0, <2>1, <2>11 DEF MailInv, EndedInv
  <2>2. TypesInv' /\ InHeadersInv' /\ EndedInv'
    BY <2>14, <2>15, <2>16
  <2>3. HeadersAreExact'
    <3>1. \A h \in Header : OfFits(h)
      BY ExactIs DEF MailInv, MailIsRead
    <3>2. \A h \in Header : OfFits(h)'
      BY <2>1, <2>13, <3>1 DEF OfFits
    <3> QED
      BY <3>2, ExactIs
  <2>4. RaisesOnlyOnUndecodable'
    BY <2>1, <2>10, <2>12 DEF MailInv, MailIsRead, RaisesOnlyOnUndecodable
  <2>5. DataIsKept'
    BY <2>1 DEF MailInv, MailIsRead, DataIsKept
  <2> QED
    BY <2>2, <2>3, <2>4, <2>5 DEF MailInv, MailIsRead
<1> QED
  BY <1>1, <1>2

LEMMA MailKept == HeadersSpec => []MailInv
BY InitMail, NextMail, HeaderAssumption, PTL DEF HeadersSpec

\* The state of the reading keeps its types, and what is counted of a mail never
\* exceeds its lines (handleData:withSocket:).
THEOREM HeadersTyped == HeadersSpec => []HeadersTypeOK
<1>1. ASSUME MailInv PROVE HeadersTypeOK
  <2>1. TypesInv /\ MaxDataLines \in Nat
    BY <1>1, HeaderAssumption DEF MailInv
  <2>2. \A h \in Header : headers[h] \in HeaderValue
    BY <2>1 DEF TypesInv
  <2>3. \A h \in Header : headers[h].is \in {"nil", "string", "array"} /\ headers[h].of \in Seq(Nat)
    BY <2>2 DEF HeaderValue
  <2>4. Here \in Nat
    BY <2>1 DEF TypesInv, Here
  <2>5. dataSize \in 0..MaxDataLines
    BY <2>1, <2>4 DEF TypesInv
  <2> QED
    BY <2>1, <2>3, <2>5 DEF TypesInv, HeadersTypeOK
<1> QED
  BY <1>1, MailKept, PTL

\* A mail of any length is read as it was sent: each of its headers holds its own
\* q, once and in order, its data are all q, and the process is lost only
\* to a header that is not UTF-8, where the property says (handleData:withSocket:).
THEOREM MailStaysRead == HeadersSpec => []MailIsRead
<1>1. MailInv => MailIsRead
  BY DEF MailInv
<1> QED
  BY <1>1, MailKept, PTL
================================================================================
