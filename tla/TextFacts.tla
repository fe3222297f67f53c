------------------------------ MODULE TextFacts ------------------------------
(***************************************************************************)
(* Facts on numbers, on texts as sequences of bytes, and on functions that *)
(* are defined turn by turn, which the proofs of several modules cite.     *)
(***************************************************************************)
EXTENDS Bytes, SequencesExt, WellFoundedInduction, TLAPS

-------------------------------------------------------------------------------
(* Numbers. *)

LEMMA LeastNat ==
  ASSUME NEW T, T \subseteq Nat, T # {}
  PROVE  \E n \in T : \A m \in T : n <= m
<1> DEFINE R == OpToRel(<, Nat)
<1>1. IsWellFoundedOn(R, Nat)
  BY NatLessThanWellFounded DEF OpToRel
<1>2. R = {ss \in Nat \X Nat : ss[1] < ss[2]}
  BY DEF OpToRel
<1> HIDE DEF R
<1>3. PICK n \in T : \A m \in T : ~ (<<m, n>> \in R)
  BY <1>1, WFMin
<1>4. \A m \in T : ~(m < n)
  BY <1>2, <1>3
<1> QED
  BY <1>3, <1>4

\* A set with zero and every successor holds every natural number.
LEMMA SetInduction ==
  ASSUME NEW S, 0 \in S, \A n \in Nat : n \in S => n + 1 \in S
  PROVE  Nat \subseteq S
<1> SUFFICES ASSUME Nat \ S # {} PROVE FALSE
  OBVIOUS
<1>1. PICK n \in Nat \ S : \A m \in Nat \ S : n <= m
  BY LeastNat
<1>2. n - 1 \in Nat /\ ~(n <= n - 1)
  BY <1>1
<1>3. n - 1 \in S
  BY <1>1, <1>2
<1> QED
  BY <1>1, <1>2, <1>3

\* Some numbers up to a bound have a greatest.
LEMMA Greatest ==
  ASSUME NEW n \in Nat, NEW S \in SUBSET (0..n), S # {}
  PROVE  \E k \in S : \A m \in S : m <= k
<1> DEFINE T == {n - k : k \in S}
<1>1. T # {} /\ T \in SUBSET Nat
  <2>1. \A k \in S : n - k \in Nat
    OBVIOUS
  <2> QED
    BY <2>1
<1>2. PICK t \in T : \A m \in T : t <= m
  BY <1>1, LeastNat
<1>3. PICK k \in S : t = n - k
  BY <1>2
<1>4. \A m \in S : n - k <= n - m
  BY <1>2, <1>3
<1> QED
  BY <1>4

-------------------------------------------------------------------------------
LEMMA Taken ==
  ASSUME NEW s \in Seq(Byte), NEW n \in Nat
  PROVE  /\ Take(s, n) \in Seq(Byte) /\ Len(Take(s, n)) = Least(n, Len(s))
         /\ \A i \in 1..Least(n, Len(s)) : Take(s, n)[i] = s[i]
         /\ Least(n, Len(s)) \in Nat /\ Least(n, Len(s)) <= n /\ Least(n, Len(s)) <= Len(s)
BY DEF Take, Least

LEMMA Dropped ==
  ASSUME NEW s \in Seq(Byte), NEW n \in Nat
  PROVE  /\ Drop(s, n) \in Seq(Byte)
         /\ Len(Drop(s, n)) = IF n <= Len(s) THEN Len(s) - n ELSE 0
         /\ \A i \in 1..Len(Drop(s, n)) : Drop(s, n)[i] = s[n + i]
BY DEF Drop

LEMMA SameText ==
  ASSUME NEW S, NEW s \in Seq(S), NEW t \in Seq(S), Len(s) = Len(t),
         \A i \in 1..Len(s) : s[i] = t[i]
  PROVE  s = t
OBVIOUS

LEMMA Joined ==
  ASSUME NEW s \in Seq(Byte), NEW t \in Seq(Byte)
  PROVE  /\ s \o t \in Seq(Byte) /\ Len(s \o t) = Len(s) + Len(t)
         /\ Len(s) \in Nat /\ Len(t) \in Nat
         /\ \A i \in 1..Len(s) : (s \o t)[i] = s[i]
         /\ \A i \in 1..Len(t) : (s \o t)[Len(s) + i] = t[i]
         /\ s \o <<>> = s /\ <<>> \o s = s
OBVIOUS

LEMMA HeadJoined ==
  ASSUME NEW s \in Seq(Byte), NEW t \in Seq(Byte), s # <<>>
  PROVE  s \o t \in Seq(Byte) /\ s \o t # <<>> /\ Head(s \o t) = Head(s)
<1>1. 1 \in 1..Len(s) /\ Len(s) \in Nat /\ Len(s) # 0
  OBVIOUS
<1>2. /\ s \o t \in Seq(Byte) /\ Len(s \o t) = Len(s) + Len(t)
      /\ Len(t) \in Nat /\ \A i \in 1..Len(s) : (s \o t)[i] = s[i]
  BY Joined
<1> DEFINE u == s \o t
<1> HIDE DEF u
<1>3. u \in Seq(Byte) /\ Len(u) # 0 /\ u[1] = s[1]
  BY <1>1, <1>2 DEF u
<1>4. Head(u) = u[1] /\ Head(s) = s[1] /\ u # <<>>
  BY <1>1, <1>3
<1> QED
  BY <1>3, <1>4 DEF u

LEMMA JoinedOf ==
  ASSUME NEW S, NEW s \in Seq(S), NEW t \in Seq(S)
  PROVE  s \o t \in Seq(S) /\ Len(s \o t) = Len(s) + Len(t)
OBVIOUS

LEMMA SeqInLarger ==
  ASSUME NEW S, NEW U, S \subseteq U, NEW s \in Seq(S)
  PROVE  s \in Seq(U)
<1>1. Len(s) \in Nat /\ s = [i \in 1..Len(s) |-> s[i]] /\ \A i \in 1..Len(s) : s[i] \in S
  OBVIOUS
<1>2. [i \in 1..Len(s) |-> s[i]] \in [1..Len(s) -> U]
  BY <1>1
<1> QED
  BY <1>1, <1>2

LEMMA Regrouped ==
  ASSUME NEW s1 \in Seq(Byte), NEW s2 \in Seq(Byte), NEW s3 \in Seq(Byte)
  PROVE  (s1 \o s2) \o s3 = s1 \o (s2 \o s3)
OBVIOUS

LEMMA CutInTwo ==
  ASSUME NEW s \in Seq(Byte), NEW n \in Nat
  PROVE  Take(s, n) \o Drop(s, n) = s
<1> DEFINE t == Take(s, n)
           d == Drop(s, n)
<1>1. /\ t \in Seq(Byte) /\ Len(t) = Least(n, Len(s))
      /\ \A i \in 1..Least(n, Len(s)) : t[i] = s[i]
  BY Taken
<1>2. /\ d \in Seq(Byte) /\ Len(d) = IF n <= Len(s) THEN Len(s) - n ELSE 0
      /\ \A i \in 1..Len(d) : d[i] = s[n + i]
  BY Dropped
<1> HIDE DEF t, d
<1>3. Len(s) \in Nat
  OBVIOUS
<1>4. Least(n, Len(s)) = IF n <= Len(s) THEN n ELSE Len(s)
  BY DEF Least
<1>5. /\ t \o d \in Seq(Byte) /\ Len(t \o d) = Len(t) + Len(d)
      /\ \A i \in 1..Len(t) : (t \o d)[i] = t[i]
      /\ \A i \in 1..Len(d) : (t \o d)[Len(t) + i] = d[i]
  BY <1>1, <1>2, Joined
<1>6. Len(t \o d) = Len(s)
  BY <1>1, <1>2, <1>3, <1>4, <1>5
<1>7. ASSUME NEW i \in 1..Len(s) PROVE (t \o d)[i] = s[i]
  <2>1. CASE i <= Len(t)
    <3>1. i \in 1..Len(t) /\ i \in 1..Least(n, Len(s))
      BY <1>1, <1>3, <1>4, <2>1
    <3> QED
      BY <1>1, <1>5, <3>1
  <2>2. CASE ~(i <= Len(t))
    <3>1. Len(t) = n /\ i - n \in 1..Len(d) /\ n + (i - n) = i
      BY <1>1, <1>2, <1>3, <1>4, <2>2
    <3> QED
      BY <1>2, <1>5, <3>1
  <2> QED
    BY <2>1, <2>2
<1>8. t \o d = s
  BY <1>5, <1>6, <1>7, SameText
<1> QED
  BY <1>8 DEF t, d

\* The text in front of s and behind it, and what is read off a text of two parts.
LEMMA FrontOf ==
  ASSUME NEW s \in Seq(Byte), NEW t \in Seq(Byte), NEW n \in Nat, n <= Len(s)
  PROVE  Take(s \o t, n) = Take(s, n) /\ Drop(s \o t, n) = Drop(s, n) \o t
<1>1. /\ s \o t \in Seq(Byte) /\ Len(s \o t) = Len(s) + Len(t)
      /\ Len(s) \in Nat /\ Len(t) \in Nat
      /\ \A i \in 1..Len(s) : (s \o t)[i] = s[i]
      /\ \A i \in 1..Len(t) : (s \o t)[Len(s) + i] = t[i]
  BY Joined
<1> DEFINE w == s \o t
<1> HIDE DEF w
<1>2. w \in Seq(Byte) /\ Least(n, Len(w)) = n /\ Least(n, Len(s)) = n
  BY <1>1 DEF w, Least
<1>3. Take(w, n) = Take(s, n)
  <2>1. Take(w, n) \in Seq(Byte) /\ Len(Take(w, n)) = n /\ \A i \in 1..n : Take(w, n)[i] = w[i]
    BY <1>2, Taken
  <2>2. Take(s, n) \in Seq(Byte) /\ Len(Take(s, n)) = n /\ \A i \in 1..n : Take(s, n)[i] = s[i]
    BY <1>2, Taken
  <2>3. \A i \in 1..n : i \in 1..Len(s) /\ w[i] = s[i]
    BY <1>1 DEF w
  <2> DEFINE a == Take(w, n)
             b == Take(s, n)
  <2> HIDE DEF a, b
  <2>4. a = b
    <3>1. a \in Seq(Byte) /\ b \in Seq(Byte) /\ Len(a) = Len(b) /\ \A i \in 1..Len(a) : a[i] = b[i]
      BY <2>1, <2>2, <2>3 DEF a, b
    <3> QED
      BY <3>1, SameText
  <2> QED
    BY <2>4 DEF a, b
<1>4. Drop(w, n) = Drop(s, n) \o t
  <2> DEFINE a == Drop(w, n)
             d == Drop(s, n)
  <2>1. a \in Seq(Byte) /\ Len(a) = Len(w) - n /\ \A i \in 1..Len(a) : a[i] = w[n + i]
    <3>1. n <= Len(w)
      BY <1>1 DEF w
    <3> QED
      BY <1>2, <3>1, Dropped
  <2>2. d \in Seq(Byte) /\ Len(d) = Len(s) - n /\ \A i \in 1..Len(d) : d[i] = s[n + i]
    BY Dropped
  <2> HIDE DEF a, d
  <2>3. /\ d \o t \in Seq(Byte) /\ Len(d \o t) = Len(d) + Len(t)
        /\ \A i \in 1..Len(d) : (d \o t)[i] = d[i]
        /\ \A i \in 1..Len(t) : (d \o t)[Len(d) + i] = t[i]
    BY <2>2, Joined
  <2>4. Len(a) = Len(d \o t)
    BY <1>1, <2>1, <2>2, <2>3 DEF w
  <2>5. ASSUME NEW i \in 1..Len(a) PROVE a[i] = (d \o t)[i]
    <3>1. CASE i <= Len(d)
      <4>1. i \in 1..Len(d) /\ n + i \in 1..Len(s)
        BY <1>1, <2>1, <2>2, <3>1 DEF w
      <4> QED
        BY <1>1, <2>1, <2>2, <2>3, <4>1 DEF w
    <3>2. CASE ~(i <= Len(d))
      <4>1. PICK j \in 1..Len(t) : i = Len(d) + j
        <5>1. i - Len(d) \in 1..Len(t) /\ i = Len(d) + (i - Len(d))
          BY <1>1, <2>1, <2>2, <3>2 DEF w
        <5> QED
          BY <5>1
      <4>2. n + i = Len(s) + j
        BY <1>1, <2>2, <4>1
      <4> QED
        BY <1>1, <2>1, <2>3, <4>1, <4>2 DEF w
    <3> QED
      BY <3>1, <3>2
  <2>6. a = d \o t
    BY <2>1, <2>3, <2>4, <2>5, SameText
  <2> QED
    BY <2>6 DEF a, d
<1> QED
  BY <1>3, <1>4 DEF w

-------------------------------------------------------------------------------
(* The lines put together. *)

ManyTexts == Seq(Seq(Byte))

\* f puts the first elements of q together, up to the m-th.
FlattenTo(q, m, f) == f = [i \in 1..m |-> IF i = 1 THEN q[i] ELSE f[i - 1] \o q[i]]

LEMMA FlattenAt ==
  ASSUME NEW q, NEW m \in Nat, NEW f, FlattenTo(q, m, f)
  PROVE  /\ m > 0 => f[1] = q[1]
         /\ \A i \in 1..m - 1 : f[i + 1] = f[i] \o q[i + 1]
<1>1. \A i \in 1..m : f[i] = IF i = 1 THEN q[i] ELSE f[i - 1] \o q[i]
  BY DEF FlattenTo
<1>2. m > 0 => 1 \in 1..m
  OBVIOUS
<1>3. \A i \in 1..m - 1 : i + 1 \in 1..m /\ i + 1 # 1 /\ (i + 1) - 1 = i
  OBVIOUS
<1>4. ASSUME NEW i \in 1..m - 1 PROVE f[i + 1] = f[i] \o q[i + 1]
  BY <1>1, <1>3
<1> QED
  BY <1>1, <1>2, <1>4

LEMMA FlattenExists ==
  ASSUME NEW q \in ManyTexts, NEW m \in 0..Len(q)
  PROVE  \E f \in [1..m -> Seq(Byte)] : FlattenTo(q, m, f)
<1> DEFINE S == {k \in Nat : k <= Len(q) => \E f \in [1..k -> Seq(Byte)] : FlattenTo(q, k, f)}
<1>1. 0 \in S
  <2> DEFINE f == [i \in 1..0 |-> <<>>]
  <2>1. f \in [1..0 -> Seq(Byte)] /\ FlattenTo(q, 0, f)
    BY DEF FlattenTo
  <2> QED
    BY <2>1
<1>2. ASSUME NEW k \in Nat, k \in S PROVE k + 1 \in S
  <2> SUFFICES ASSUME k + 1 <= Len(q)
               PROVE  \E f \in [1..k + 1 -> Seq(Byte)] : FlattenTo(q, k + 1, f)
    OBVIOUS
  <2>1. PICK f \in [1..k -> Seq(Byte)] : FlattenTo(q, k, f)
    BY <1>2
  <2>2. q[k + 1] \in Seq(Byte)
    BY DEF ManyTexts
  <2> DEFINE last == IF k = 0 THEN q[1] ELSE f[k] \o q[k + 1]
             g == [i \in 1..k + 1 |-> IF i = k + 1 THEN last ELSE f[i]]
  <2>3. last \in Seq(Byte)
    <3>1. CASE k = 0
      BY <2>2, <3>1
    <3>2. CASE k # 0
      <4>1. f[k] \in Seq(Byte)
        BY <2>1, <3>2
      <4>2. f[k] \o q[k + 1] \in Seq(Byte)
        BY <2>2, <4>1, Joined
      <4> QED
        BY <3>2, <4>2
    <3> QED
      BY <3>1, <3>2
  <2> HIDE DEF last
  <2>4. \A i \in 1..k + 1 : g[i] \in Seq(Byte)
    BY <2>1, <2>3
  <2>5. \A i \in 1..k : f[i] = IF i = 1 THEN q[i] ELSE f[i - 1] \o q[i]
    BY <2>1 DEF FlattenTo
  <2>6. ASSUME NEW i \in 1..k + 1
        PROVE  g[i] = IF i = 1 THEN q[i] ELSE g[i - 1] \o q[i]
    <3>1. CASE i = k + 1 /\ k = 0
      BY <3>1 DEF last
    <3>2. CASE i = k + 1 /\ k # 0
      <4>1. i # 1 /\ i - 1 = k /\ k # k + 1 /\ k \in 1..k + 1
        BY <3>2
      <4> QED
        BY <3>2, <4>1 DEF last
    <3>3. CASE i # k + 1
      <4>1. i \in 1..k /\ (i # 1 => i - 1 \in 1..k + 1 /\ i - 1 # k + 1)
        BY <3>3
      <4> QED
        BY <2>5, <3>3, <4>1
    <3> QED
      BY <3>1, <3>2, <3>3
  <2>7. g = [i \in 1..k + 1 |-> g[i]]
    OBVIOUS
  <2> HIDE DEF g
  <2>8. [i \in 1..k + 1 |-> g[i]] = [i \in 1..k + 1 |-> IF i = 1 THEN q[i] ELSE g[i - 1] \o q[i]]
    BY <2>6
  <2>9. FlattenTo(q, k + 1, g)
    BY <2>7, <2>8 DEF FlattenTo
  <2>10. g \in [1..k + 1 -> Seq(Byte)]
    BY <2>4, <2>7
  <2> QED
    BY <2>9, <2>10
<1>3. Nat \subseteq S
  BY <1>1, <1>2, SetInduction
<1> QED
  BY <1>3

LEMMA FlattenIs ==
  ASSUME NEW q \in ManyTexts
  PROVE  /\ Len(q) = 0 => FlattenSeq(q) = <<>>
         /\ Len(q) # 0 => \E f : FlattenTo(q, Len(q), f) /\ FlattenSeq(q) = f[Len(q)]
<1>1. Len(q) \in 0..Len(q)
  BY DEF ManyTexts
<1>2. \E f : FlattenTo(q, Len(q), f)
  BY <1>1, FlattenExists
<1> DEFINE f == CHOOSE f : f = [i \in 1..Len(q) |-> IF i = 1 THEN q[i] ELSE f[i - 1] \o q[i]]
<1>3. FlattenTo(q, Len(q), f)
  BY <1>2 DEF FlattenTo
<1>4. Len(q) # 0 => FlattenSeq(q) = f[Len(q)]
  BY DEF FlattenSeq
<1>5. Len(q) = 0 => FlattenSeq(q) = <<>>
  BY DEF FlattenSeq, ManyTexts
<1> QED
  BY <1>3, <1>4, <1>5

\* A line more.
LEMMA FlattenAppend ==
  ASSUME NEW q \in ManyTexts, NEW l \in Seq(Byte)
  PROVE  /\ FlattenSeq(q) \in Seq(Byte)
         /\ FlattenSeq(Append(q, l)) = FlattenSeq(q) \o l
<1> DEFINE n == Len(q)
           r == Append(q, l)
<1>1. /\ r \in ManyTexts /\ n \in Nat /\ Len(r) = n + 1 /\ r[n + 1] = l
      /\ \A i \in 1..n : r[i] = q[i] /\ q[i] \in Seq(Byte)
  BY DEF ManyTexts
<1> HIDE DEF n, r
<1>2. PICK g : FlattenTo(r, n + 1, g) /\ FlattenSeq(r) = g[n + 1]
  <2>1. Len(r) # 0
    BY <1>1
  <2> QED
    BY <1>1, <2>1, FlattenIs
<1>3. /\ g[1] = r[1] /\ \A i \in 1..n : g[i + 1] = g[i] \o r[i + 1]
  <2>1. n + 1 \in Nat /\ n + 1 > 0 /\ (n + 1) - 1 = n
    BY <1>1
  <2>2. /\ n + 1 > 0 => g[1] = r[1]
        /\ \A i \in 1..(n + 1) - 1 : g[i + 1] = g[i] \o r[i + 1]
    <3>1. n + 1 \in Nat /\ FlattenTo(r, n + 1, g)
      BY <1>2, <2>1
    <3> QED
      BY <3>1, FlattenAt
  <2> QED
    BY <2>1, <2>2
<1>4. CASE n = 0
  <2>1. FlattenSeq(q) = <<>>
    BY <1>4, FlattenIs DEF n
  <2>2. FlattenSeq(r) = l
    BY <1>1, <1>2, <1>3, <1>4
  <2>3. <<>> \o l = l /\ <<>> \in Seq(Byte)
    OBVIOUS
  <2> QED
    BY <2>1, <2>2, <2>3 DEF r
<1>5. CASE n # 0
  <2>1. PICK f : FlattenTo(q, n, f) /\ FlattenSeq(q) = f[n]
    BY <1>5, FlattenIs DEF n
  <2>2. f[1] = q[1] /\ \A i \in 1..n - 1 : f[i + 1] = f[i] \o q[i + 1]
    <3>1. n \in Nat /\ n > 0 /\ FlattenTo(q, n, f)
      BY <1>1, <1>5, <2>1
    <3>2. /\ n > 0 => f[1] = q[1]
          /\ \A i \in 1..n - 1 : f[i + 1] = f[i] \o q[i + 1]
      BY <3>1, FlattenAt
    <3> QED
      BY <3>1, <3>2
  <2> DEFINE S == {i \in Nat : i + 1 <= n => f[i + 1] = g[i + 1] /\ f[i + 1] \in Seq(Byte)}
  <2>3. 0 \in S
    <3>1. 1 \in 1..n
      BY <1>1, <1>5
    <3>2. f[1] = g[1] /\ f[1] \in Seq(Byte)
      BY <1>1, <1>3, <2>2, <3>1
    <3> QED
      BY <3>2
  <2>4. ASSUME NEW i \in Nat, i \in S PROVE i + 1 \in S
    <3> SUFFICES ASSUME (i + 1) + 1 <= n
                 PROVE  f[(i + 1) + 1] = g[(i + 1) + 1] /\ f[(i + 1) + 1] \in Seq(Byte)
      OBVIOUS
    <3>1. i + 1 <= n /\ i + 1 \in 1..n - 1 /\ i + 1 \in 1..n /\ (i + 1) + 1 \in 1..n
      BY <1>1
    <3>2. f[i + 1] = g[i + 1] /\ f[i + 1] \in Seq(Byte)
      BY <2>4, <3>1
    <3>3. /\ f[(i + 1) + 1] = f[i + 1] \o q[(i + 1) + 1]
          /\ g[(i + 1) + 1] = g[i + 1] \o r[(i + 1) + 1]
      BY <1>3, <2>2, <3>1
    <3>4. r[(i + 1) + 1] = q[(i + 1) + 1] /\ q[(i + 1) + 1] \in Seq(Byte)
      BY <1>1, <3>1
    <3>5. f[i + 1] \o q[(i + 1) + 1] \in Seq(Byte)
      BY <3>2, <3>4, Joined
    <3> QED
      BY <3>2, <3>3, <3>4, <3>5
  <2>5. Nat \subseteq S
    BY <2>3, <2>4, SetInduction
  <2>6. n - 1 \in S /\ (n - 1) + 1 = n /\ n \in 1..n
    BY <1>1, <1>5, <2>5
  <2>7. f[n] = g[n] /\ f[n] \in Seq(Byte)
    BY <2>6
  <2>8. g[n + 1] = g[n] \o l
    BY <1>1, <1>3, <2>6
  <2> QED
    BY <1>2, <2>1, <2>7, <2>8 DEF r
<1> QED
  BY <1>4, <1>5

-------------------------------------------------------------------------------
(* Functions defined turn by turn: f[n] from f[n - 1]. *)

TurnsTo(k, a, g, f) == f = [n \in 0..k |-> IF n = 0 THEN a ELSE g[<<n, f[n - 1]>>]]

\* What holds at the first turn, and at each if at the one before, holds at all.
LEMMA TurnByTurn ==
  ASSUME NEW k \in Nat, NEW f, NEW T, f[0] \in T[0],
         \A n \in 1..k : f[n - 1] \in T[n - 1] => f[n] \in T[n]
  PROVE  \A n \in 0..k : f[n] \in T[n]
<1> DEFINE S == {n \in Nat : n <= k => f[n] \in T[n]}
<1>1. 0 \in S
  OBVIOUS
<1>2. ASSUME NEW n \in Nat, n \in S PROVE n + 1 \in S
  <2> SUFFICES ASSUME n + 1 <= k PROVE f[n + 1] \in T[n + 1]
    OBVIOUS
  <2>1. n + 1 \in 1..k /\ (n + 1) - 1 = n /\ n <= k
    OBVIOUS
  <2>2. f[n] \in T[n]
    BY <1>2, <2>1
  <2>3. f[(n + 1) - 1] \in T[(n + 1) - 1] => f[n + 1] \in T[n + 1]
    BY <2>1
  <2> QED
    BY <2>1, <2>2, <2>3
<1>3. Nat \subseteq S
  BY <1>1, <1>2, SetInduction
<1> QED
  BY <1>3

\* There is such a function.
LEMMA TurnsExist ==
  ASSUME NEW k \in Nat, NEW a, NEW g
  PROVE  \E f : TurnsTo(k, a, g, f)
<1> DEFINE S == {n \in Nat : \E f : TurnsTo(n, a, g, f)}
<1>1. 0 \in S
  <2> DEFINE f == [n \in 0..0 |-> a]
  <2>1. TurnsTo(0, a, g, f)
    BY DEF TurnsTo
  <2> QED
    BY <2>1
<1>2. ASSUME NEW n \in Nat, n \in S PROVE n + 1 \in S
  <2>1. PICK f : TurnsTo(n, a, g, f)
    BY <1>2
  <2> DEFINE last == g[<<n + 1, f[n]>>]
             h == [i \in 0..n + 1 |-> IF i = n + 1 THEN last ELSE f[i]]
  <2>2. \A i \in 0..n : f[i] = IF i = 0 THEN a ELSE g[<<i, f[i - 1]>>]
    BY <2>1 DEF TurnsTo
  <2>3. ASSUME NEW i \in 0..n + 1
        PROVE  h[i] = IF i = 0 THEN a ELSE g[<<i, h[i - 1]>>]
    <3>1. CASE i = n + 1
      <4>1. i # 0 /\ i - 1 = n /\ n # n + 1 /\ n \in 0..n + 1
        BY <3>1
      <4>2. h[i] = last /\ h[n] = f[n]
        BY <3>1, <4>1
      <4> QED
        BY <3>1, <4>1, <4>2
    <3>2. CASE i # n + 1
      <4>1. i \in 0..n /\ (i # 0 => i - 1 \in 0..n + 1 /\ i - 1 # n + 1)
        BY <3>2
      <4>2. h[i] = f[i] /\ (i # 0 => h[i - 1] = f[i - 1])
        BY <4>1
      <4>3. f[i] = IF i = 0 THEN a ELSE g[<<i, f[i - 1]>>]
        BY <2>2, <4>1
      <4> QED
        BY <4>2, <4>3
    <3> QED
      BY <3>1, <3>2
  <2>4. h = [i \in 0..n + 1 |-> h[i]]
    OBVIOUS
  <2> HIDE DEF h
  <2>5. [i \in 0..n + 1 |-> h[i]] = [i \in 0..n + 1 |-> IF i = 0 THEN a ELSE g[<<i, h[i - 1]>>]]
    BY <2>3
  <2>6. TurnsTo(n + 1, a, g, h)
    BY <2>4, <2>5 DEF TurnsTo
  <2> QED
    BY <2>6
<1>3. Nat \subseteq S
  BY <1>1, <1>2, SetInduction
<1> QED
  BY <1>3

\* The first turn in a set and every other from it makes all turns of it.
LEMMA TurnsTyped ==
  ASSUME NEW k \in Nat, NEW a, NEW g, NEW T, a \in T[0],
         \A n \in 1..k : \A x \in T[n - 1] : g[<<n, x>>] \in T[n]
  PROVE  \E f : TurnsTo(k, a, g, f) /\ \A n \in 0..k : f[n] \in T[n]
<1>1. PICK f : TurnsTo(k, a, g, f)
  BY TurnsExist
<1>2. \A n \in 0..k : f[n] = IF n = 0 THEN a ELSE g[<<n, f[n - 1]>>]
  BY <1>1 DEF TurnsTo
<1>3. f[0] \in T[0]
  <2>1. 0 \in 0..k
    OBVIOUS
  <2>2. f[0] = a
    BY <1>2, <2>1, Zenon
  <2> QED
    BY <2>2
<1>4. ASSUME NEW n \in 1..k, f[n - 1] \in T[n - 1] PROVE f[n] \in T[n]
  <2>1. f[n] = g[<<n, f[n - 1]>>]
    BY <1>2
  <2> QED
    BY <1>4, <2>1
<1>5. \A n \in 0..k : f[n] \in T[n]
  BY <1>3, <1>4, TurnByTurn
<1> QED
  BY <1>1, <1>5

-------------------------------------------------------------------------------
(* Quotients. *)

LEMMA Quotient ==
  ASSUME NEW m \in Nat, NEW d \in Nat \ {0}
  PROVE  /\ m \div d \in Nat
         /\ (m \div d) * d <= m /\ m < ((m \div d) + 1) * d
         /\ ((m \div d) + 1) * d \in Nat
         /\ m >= d => m \div d >= 1
<1> DEFINE q == m \div d
<1>1. q \in Int /\ d * q <= m /\ m < d * (q + 1)
  OBVIOUS
<1> HIDE DEF q
<1>2. q >= 0
  BY <1>1
<1>3. d * q = q * d /\ d * (q + 1) = (q + 1) * d
  BY <1>1
<1>4. (q + 1) * d \in Nat
  BY <1>1, <1>2
<1>5. m >= d => q >= 1
  BY <1>1, <1>2
<1> QED
  BY <1>1, <1>2, <1>3, <1>4, <1>5 DEF q
==============================================================================
