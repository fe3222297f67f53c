--------------------------- MODULE SearchPageProofs ---------------------------
(***************************************************************************)
(* The invariants of SearchPage, for any number of addresses, inside each  *)
(* other or not, and of mails, any page and chunk sizes, any number of     *)
(* pages on the connection and of restarts.                                *)
(***************************************************************************)
EXTENDS SearchPage, FiniteSetTheorems, WellFoundedInduction, TLAPS

-------------------------------------------------------------------------------
(***************************************************************************)
(* Induction over the naturals, for a set, and the sums it gives.          *)
(***************************************************************************)
LEMMA LeastNat ==
  ASSUME NEW T, T \subseteq Nat, T # {}
  PROVE  \E n \in T : \A m \in T : n <= m
<1> DEFINE R == OpToRel(<, Nat)
<1>1. IsWellFoundedOn(R, Nat)
  BY NatLessThanWellFounded DEF OpToRel
<1>2. R = {ss \in Nat \X Nat : ss[1] < ss[2]}
  BY DEF OpToRel
<1> HIDE DEF R
<1>3. PICK n \in T : \A m \in T : ~ (<<m, n>> \in R)
  BY <1>1, WFMin
<1>4. \A m \in T : ~(m < n)
  BY <1>2, <1>3
<1> QED
  BY <1>3, <1>4

\* A set with zero and every successor holds every natural number.
LEMMA SetInduction ==
  ASSUME NEW S, 0 \in S, \A n \in Nat : n \in S => n + 1 \in S
  PROVE  Nat \subseteq S
<1> SUFFICES ASSUME Nat \ S # {} PROVE FALSE
  OBVIOUS
<1>1. PICK n \in Nat \ S : \A m \in Nat \ S : n <= m
  BY LeastNat
<1>2. n # 0 /\ n - 1 \in Nat
  BY <1>1
<1>3. n - 1 \in S
  BY <1>1, <1>2
<1> QED
  BY <1>1, <1>2, <1>3

\* f holds the sums of the first elements of s, up to m.
SumsTo(s, m, f) == f = [n \in 0..m |-> IF n = 0 THEN 0 ELSE f[n - 1] + s[n]]

\* The sums exist,
LEMMA SumsExist ==
  ASSUME NEW s \in Seq(Nat), NEW m \in 0..Len(s)
  PROVE  \E f \in [0..m -> Nat] : SumsTo(s, m, f)
<1> DEFINE S == {k \in Nat : k <= Len(s) => \E f \in [0..k -> Nat] : SumsTo(s, k, f)}
<1>1. 0 \in S
  <2> DEFINE f == [n \in 0..0 |-> 0]
  <2>1. f \in [0..0 -> Nat] /\ SumsTo(s, 0, f)
    BY DEF SumsTo
  <2> QED
    BY <2>1
<1>2. ASSUME NEW k \in Nat, k \in S PROVE k + 1 \in S
  <2> SUFFICES ASSUME k + 1 <= Len(s)
               PROVE  \E f \in [0..k + 1 -> Nat] : SumsTo(s, k + 1, f)
    OBVIOUS
  <2>1. PICK f \in [0..k -> Nat] : SumsTo(s, k, f)
    BY <1>2
  <2>2. s[k + 1] \in Nat
    OBVIOUS
  <2> DEFINE g == [n \in 0..k + 1 |-> IF n = k + 1 THEN f[k] + s[k + 1] ELSE f[n]]
  <2>3. \A n \in 0..k + 1 : g[n] \in Nat
    BY <2>1, <2>2
  <2>4. \A n \in 0..k : f[n] = IF n = 0 THEN 0 ELSE f[n - 1] + s[n]
    BY <2>1 DEF SumsTo
  <2>5. ASSUME NEW n \in 0..k + 1 PROVE g[n] = IF n = 0 THEN 0 ELSE g[n - 1] + s[n]
    <3>1. CASE n = k + 1
      <4>1. n # 0 /\ n - 1 = k /\ k # k + 1 /\ k \in 0..k + 1
        BY <3>1
      <4> QED
        BY <3>1, <4>1
    <3>2. CASE n # k + 1
      <4>1. n \in 0..k /\ (n # 0 => n - 1 \in 0..k + 1 /\ n - 1 # k + 1)
        BY <3>2
      <4> QED
        BY <2>4, <3>2, <4>1
    <3> QED
      BY <3>1, <3>2
  <2>6. g = [n \in 0..k + 1 |-> g[n]]
    OBVIOUS
  <2> HIDE DEF g
  <2>7. [n \in 0..k + 1 |-> g[n]] = [n \in 0..k + 1 |-> IF n = 0 THEN 0 ELSE g[n - 1] + s[n]]
    BY <2>5
  <2>8. SumsTo(s, k + 1, g)
    BY <2>6, <2>7 DEF SumsTo
  <2> QED
    BY <2>3, <2>6, <2>8
<1>3. Nat \subseteq S
  BY <1>1, <1>2, SetInduction
<1> QED
  BY <1>3

\* and are what their equation says.
LEMMA SumsAt ==
  ASSUME NEW s, NEW m \in Nat, NEW f, SumsTo(s, m, f)
  PROVE  f[0] = 0 /\ \A n \in 0..m - 1 : f[n + 1] = f[n] + s[n + 1]
<1>1. \A n \in 0..m : f[n] = IF n = 0 THEN 0 ELSE f[n - 1] + s[n]
  BY DEF SumsTo
<1>2. 0 \in 0..m
  OBVIOUS
<1>3. \A n \in 0..m - 1 : n + 1 \in 0..m /\ n + 1 # 0 /\ (n + 1) - 1 = n
  OBVIOUS
<1>4. f[0] = 0
  BY <1>1, <1>2
<1>5. ASSUME NEW n \in 0..m - 1 PROVE f[n + 1] = f[n] + s[n + 1]
  BY <1>1, <1>3
<1> QED
  BY <1>4, <1>5

\* f sums the first m elements of p, which are those of q behind its d-th, and
\* g the first k of q.
Shifted(p, q, m, k, d, f, g) ==
  /\ m \in Nat /\ k \in Nat /\ d \in Nat /\ d + m <= k
  /\ SumsTo(p, m, f) /\ SumsTo(q, k, g)
  /\ \A n \in 0..m : f[n] \in Nat
  /\ \A n \in 0..k : g[n] \in Nat
  /\ \A i \in 1..m : p[i] \in Nat /\ p[i] = q[d + i]

\* Then the sums of g are those of f and what is in front.
SumsBehind(m, d, f, g) == \A n \in 0..m : g[d + n] = g[d] + f[n]

LEMMA SumsShift ==
  ASSUME NEW p, NEW q, NEW m \in Nat, NEW k \in Nat, NEW d \in Nat, NEW f, NEW g,
         Shifted(p, q, m, k, d, f, g)
  PROVE  SumsBehind(m, d, f, g)
<1>0. /\ m \in Nat /\ k \in Nat /\ d \in Nat /\ d + m <= k
      /\ SumsTo(p, m, f) /\ SumsTo(q, k, g)
      /\ \A n \in 0..m : f[n] \in Nat
      /\ \A n \in 0..k : g[n] \in Nat
      /\ \A i \in 1..m : p[i] \in Nat /\ p[i] = q[d + i]
  BY DEF Shifted
<1>a. f[0] = 0 /\ \A n \in 0..m - 1 : f[n + 1] = f[n] + p[n + 1]
  BY <1>0, SumsAt
<1>b. \A n \in 0..k - 1 : g[n + 1] = g[n] + q[n + 1]
  BY <1>0, SumsAt
<1>c. g[d] \in Nat
  <2>1. d \in 0..k
    BY <1>0
  <2> QED
    BY <1>0, <2>1
<1> DEFINE S == {n \in Nat : n <= m => g[d + n] = g[d] + f[n]}
<1>1. 0 \in S
  <2>1. f[0] = 0 /\ d + 0 = d
    BY <1>0, <1>a
  <2> QED
    BY <1>c, <2>1
<1>2. ASSUME NEW n \in Nat, n \in S PROVE n + 1 \in S
  <2> SUFFICES ASSUME n + 1 <= m PROVE g[d + (n + 1)] = g[d] + f[n + 1]
    OBVIOUS
  <2>1. /\ n \in 0..m - 1 /\ n \in 0..m /\ d + n \in 0..k - 1 /\ n + 1 \in 1..m
        /\ d + (n + 1) = d + n + 1 /\ n <= m
    BY <1>0
  <2>2. f[n + 1] = f[n] + p[n + 1]
    BY <1>a, <2>1
  <2>3. g[d + n + 1] = g[d + n] + q[d + n + 1]
    BY <1>b, <2>1
  <2>4. g[d + n] = g[d] + f[n]
    BY <1>2, <2>1
  <2>5. p[n + 1] \in Nat /\ p[n + 1] = q[d + (n + 1)] /\ f[n] \in Nat
    BY <1>0, <2>1
  <2>6. g[d] + f[n] + p[n + 1] = g[d] + (f[n] + p[n + 1])
    BY <1>c, <2>5
  <2> QED
    BY <2>1, <2>2, <2>3, <2>4, <2>5, <2>6
<1>3. Nat \subseteq S
  BY <1>1, <1>2, SetInduction
<1> QED
  BY <1>0, <1>3 DEF SumsBehind

\* Total is the last of them:
LEMMA TotalSums ==
  ASSUME NEW s \in Seq(Nat)
  PROVE  \E f \in [0..Len(s) -> Nat] : SumsTo(s, Len(s), f) /\ Total(s) = f[Len(s)]
<1> DEFINE f == CHOOSE f : SumsTo(s, Len(s), f)
<1>1. PICK g \in [0..Len(s) -> Nat] : SumsTo(s, Len(s), g)
  BY SumsExist
<1>2. SumsTo(s, Len(s), f)
  BY <1>1
<1>3. Total(s) = f[Len(s)]
  BY DEF Total, SumsTo
<1> HIDE DEF f
<1>4. \A n \in 0..Len(s) : f[n] = g[n]
  <2> DEFINE S == {n \in Nat : n <= Len(s) => f[n] = g[n]}
  <2>1. 0 \in S
    BY <1>1, <1>2, SumsAt
  <2>2. ASSUME NEW n \in Nat, n \in S PROVE n + 1 \in S
    <3> SUFFICES ASSUME n + 1 <= Len(s) PROVE f[n + 1] = g[n + 1]
      OBVIOUS
    <3>1. n \in 0..Len(s) - 1 /\ f[n] = g[n]
      BY <2>2
    <3>2. f[n + 1] = f[n] + s[n + 1]
      BY <1>2, <3>1, SumsAt
    <3>3. g[n + 1] = g[n] + s[n + 1]
      BY <1>1, <3>1, SumsAt
    <3> QED
      BY <3>1, <3>2, <3>3
  <2>3. Nat \subseteq S
    BY <2>1, <2>2, SetInduction
  <2> QED
    BY <2>3
<1>5. f \in [0..Len(s) -> Nat]
  BY <1>1, <1>2, <1>4 DEF SumsTo
<1> QED
  BY <1>2, <1>3, <1>5

\* a number,
LEMMA TotalType ==
  ASSUME NEW s \in Seq(Nat)
  PROVE  Total(s) \in Nat
<1>1. Len(s) \in 0..Len(s)
  OBVIOUS
<1> QED
  BY <1>1, TotalSums

\* zero for no sizes,
LEMMA TotalEmpty == Total(<<>>) = 0
<1>1. <<>> \in Seq(Nat) /\ Len(<<>>) = 0
  OBVIOUS
<1>2. PICK f : SumsTo(<<>>, 0, f) /\ Total(<<>>) = f[0]
  BY <1>1, TotalSums
<1> QED
  BY <1>2, SumsAt

\* larger by its size for one more,
LEMMA TotalAppend ==
  ASSUME NEW s \in Seq(Nat), NEW size \in Nat
  PROVE  /\ Append(s, size) \in Seq(Nat)
         /\ Total(Append(s, size)) = Total(s) + size
<1> DEFINE longer == Append(s, size)
           m      == Len(s)
<1>1. /\ longer \in Seq(Nat) /\ Len(longer) = m + 1 /\ m \in Nat
      /\ \A i \in 1..m : s[i] \in Nat /\ s[i] = longer[0 + i]
      /\ longer[m + 1] = size
  OBVIOUS
<1> HIDE DEF longer
<1>2. PICK f \in [0..m -> Nat] : SumsTo(s, m, f) /\ Total(s) = f[m]
  BY TotalSums
<1>3. PICK g \in [0..m + 1 -> Nat] : SumsTo(longer, m + 1, g) /\ Total(longer) = g[m + 1]
  BY <1>1, TotalSums
<1>4. SumsBehind(m, 0, f, g)
  <2>1. m \in Nat /\ m + 1 \in Nat /\ 0 \in Nat /\ 0 + m <= m + 1
    BY <1>1
  <2>2. SumsTo(s, m, f) /\ SumsTo(longer, m + 1, g)
    BY <1>2, <1>3
  <2>3. (\A n \in 0..m : f[n] \in Nat) /\ \A n \in 0..m + 1 : g[n] \in Nat
    BY <1>2, <1>3
  <2>4. \A i \in 1..m : s[i] \in Nat /\ s[i] = longer[0 + i]
    BY <1>1
  <2>5. Shifted(s, longer, m, m + 1, 0, f, g)
    BY <2>1, <2>2, <2>3, <2>4 DEF Shifted
  <2> HIDE DEF m
  <2> QED
    BY <2>1, <2>5, SumsShift
<1>5. g[0] = 0 /\ g[m + 1] = g[m] + longer[m + 1]
  <2>1. m \in 0..(m + 1) - 1 /\ m + 1 \in Nat
    BY <1>1
  <2> QED
    BY <1>3, <2>1, SumsAt
<1>6. m \in 0..m /\ 0 + m = m /\ f[m] \in Nat
  BY <1>1, <1>2
<1>7. g[m] = f[m]
  BY <1>4, <1>5, <1>6 DEF SumsBehind
<1> QED
  BY <1>1, <1>2, <1>3, <1>5, <1>7 DEF longer

\* and smaller by the first without it.
LEMMA TotalTail ==
  ASSUME NEW s \in Seq(Nat), s # <<>>
  PROVE  /\ Tail(s) \in Seq(Nat) /\ s[1] \in Nat
         /\ Total(s) = s[1] + Total(Tail(s))
<1> DEFINE rest == Tail(s)
           m    == Len(s) - 1
<1>1. /\ rest \in Seq(Nat) /\ Len(rest) = m /\ m \in Nat /\ Len(s) = m + 1
      /\ \A i \in 1..m : rest[i] \in Nat /\ rest[i] = s[1 + i]
      /\ s[1] \in Nat
  OBVIOUS
<1> HIDE DEF rest
<1>2. PICK f \in [0..m -> Nat] : SumsTo(rest, m, f) /\ Total(rest) = f[m]
  BY <1>1, TotalSums
<1>3. PICK g \in [0..m + 1 -> Nat] : SumsTo(s, m + 1, g) /\ Total(s) = g[m + 1]
  BY <1>1, TotalSums
<1>4. SumsBehind(m, 1, f, g)
  <2>1. m \in Nat /\ m + 1 \in Nat /\ 1 \in Nat /\ 1 + m <= m + 1
    BY <1>1
  <2>2. SumsTo(rest, m, f) /\ SumsTo(s, m + 1, g)
    BY <1>2, <1>3
  <2>3. (\A n \in 0..m : f[n] \in Nat) /\ \A n \in 0..m + 1 : g[n] \in Nat
    BY <1>2, <1>3
  <2>4. \A i \in 1..m : rest[i] \in Nat /\ rest[i] = s[1 + i]
    BY <1>1
  <2>5. Shifted(rest, s, m, m + 1, 1, f, g)
    BY <2>1, <2>2, <2>3, <2>4 DEF Shifted
  <2> HIDE DEF m
  <2> QED
    BY <2>1, <2>5, SumsShift
<1>5. g[1] = s[1]
  <2>1. g[0] = 0 /\ g[0 + 1] = g[0] + s[0 + 1]
    <3>1. 0 \in 0..(m + 1) - 1 /\ m + 1 \in Nat
      BY <1>1
    <3> QED
      BY <1>3, <3>1, SumsAt
  <2>2. 0 + 1 = 1 /\ 0 + s[1] = s[1]
    BY <1>1
  <2> QED
    BY <2>1, <2>2
<1>6. m \in 0..m /\ 1 + m = m + 1
  BY <1>1
<1> QED
  BY <1>1, <1>2, <1>3, <1>4, <1>5, <1>6 DEF rest, SumsBehind

-------------------------------------------------------------------------------
(***************************************************************************)
(* The index.  A mail's keys are put in order: the sender after the        *)
(* subject, the size after the sender.                                     *)
(***************************************************************************)
InOrder(db) ==
  \A addr \in 1..NAddr, id \in Ids :
    /\ Has(db, addr, id, "sender") => Has(db, addr, id, "subject")
    /\ Has(db, addr, id, "size") => Has(db, addr, id, "sender")

\* The places of the inner addresses.
Slots == {Inner[b].at : b \in DOMAIN Inner}

\* The keys of mails and those of inner addresses have places of their own, and
\* the marker of an inner address is behind a key of that address.
KeysApart(db) ==
  \A k \in db :
    /\ k.addr \notin DOMAIN Inner
    /\ k.field # "marker" => k.id \in Ids
    /\ k.field \in {"subject", "sender", "size"} => k.id \notin Slots
    /\ k.field \in MarkerKinds => k.id \in Slots /\ Has(db, k.addr, k.id, "alien")

\* The mail being stored has the keys counted.
PutsCounted ==
  storing # NoMail =>
    /\ storing.id \notin Slots
    /\ storing.addr \notin DOMAIN Inner =>
         /\ storing.puts >= 1 => Has(mDb, storing.addr, storing.id, "subject")
         /\ storing.puts >= 2 => Has(mDb, storing.addr, storing.id, "sender")
    /\ storing.addr \in DOMAIN Inner /\ storing.puts >= 1 =>
         Has(mDb, Inner[storing.addr].of, Inner[storing.addr].at, "alien")

IndexInv ==
  /\ InOrder(mDb) /\ InOrder(search.snap)
  /\ KeysApart(mDb) /\ KeysApart(search.snap)
  /\ PutsCounted

-------------------------------------------------------------------------------
(***************************************************************************)
(* The buffer: the header, the rows, and then footers only.                *)
(***************************************************************************)
RowCount == response.mResultCount

Snapped == Walked(search.snap, search.addr)

\* The markers of inner addresses for which no row is made.
Phantoms == {id \in Ids : Has(search.snap, search.addr, id, "unlike")}

\* There is a row for each mail but the last, which may be such a marker.
CountInv ==
  /\ RowCount <= PageSize /\ RowCount <= response.emailCount
  /\ response.emailCount > PageSize => RowCount = PageSize
  /\ search.todo # {} /\ response.emailCount <= PageSize => RowCount = response.emailCount

BufferInv ==
  LET buffer == response.dataBuffer IN
  /\ CountInv
  /\ search.pc = "idle" => /\ response = NoResponse /\ conn = NoConn
                           /\ queue = <<>> /\ sent = 0 /\ ~failed
  /\ search.pc # "idle" => Len(buffer) >= RowCount + 1 /\ buffer[1] = HeadPiece
  /\ \A i \in 2..RowCount + 1 : buffer[i] \in Ids
  /\ \A i \in RowCount + 2..Len(buffer) : buffer[i] = FootPiece
  /\ search.pc \in {"queued", "mails"} /\ response.emailCount < PageSize =>
       Len(buffer) = RowCount + 1

\* Newest first; what is still to do, and what was dropped, is older than any row.
OrderInv ==
  LET buffer == response.dataBuffer IN
  /\ search.todo \subseteq Snapped
  /\ \A i, j \in 2..RowCount + 1 : i < j => buffer[j] < buffer[i]
  /\ \A i \in 2..RowCount + 1 : \A id \in search.todo : id < buffer[i]
  /\ \A i \in 2..RowCount + 1 : \A id \in Snapped \ Listed(2..RowCount + 1) : id < buffer[i]

\* No mail was dropped while the page had room, nor before the request.
WholeInv ==
  /\ search.pc # "queued" /\ response.emailCount <= PageSize =>
       Snapped \subseteq search.todo \cup Listed(2..RowCount + 1) \cup Phantoms
  /\ search.pc \in {"idle", "queued"} =>
       /\ search.snap = {} /\ search.todo = {}
       /\ response.emailCount = 0 /\ ~response.mIsDone
  /\ search.pc = "queued" => \A id \in search.asked : Whole(mDb, search.addr, id)
  /\ search.pc # "queued" =>
       \A id \in search.asked : Hidden(search.snap, search.addr, id) \/ id \in Snapped \ Phantoms
  /\ response.mIsDone => response.emailCount > PageSize \/ search.todo = {}
  /\ search.pc = "foot" => response.emailCount > PageSize
  /\ search.pc = "lastfoot" => search.todo = {}

\* A last chunk is behind all rows.
IsLast(q) == \E i \in DOMAIN q : q[i].tag = "last"

LastInv ==
  (conn.finished \/ IsLast(queue)) /\ ~conn.head /\ ~conn.behind =>
    response.mIsDone /\ sent >= RowCount + 1

-------------------------------------------------------------------------------
(***************************************************************************)
(* The write queue of a page that found it empty: bodies and marks take    *)
(* turns, and while the response is the connection's, its sizes are those  *)
(* of the bodies, in order.  No page leaves more sizes than bodies: an     *)
(* empty queue has none.                                                   *)
(***************************************************************************)
SizesOf(q) == [i \in DOMAIN q |-> q[i].size]

\* What a sequence of writes weighs, by their sizes or by which are bodies.
Weigh(w, q) == [i \in DOMAIN q |-> w[q[i]]]

SizeWeight == [t \in Tags |-> t.size]
BodyWeight == [t \in Tags |-> IF t.tag = "body" THEN 1 ELSE 0]

Bodies(q) == Total(Weigh(BodyWeight, q))

Paired(q, sizes, k) ==
  /\ Len(q) = 2 * Len(sizes) + k
  /\ k = 1 => q[1].tag # "body"
  /\ \A i \in 1..Len(sizes) :
       /\ q[2 * i - 1 + k].tag = "body" /\ q[2 * i - 1 + k].size = sizes[i]
       /\ q[2 * i + k].tag # "body"

Matched(c, q) ==
  /\ \E k \in {0, 1} : Paired(q, c.responseDataSizes, k)
  /\ Total(SizesOf(q)) = Total(c.responseDataSizes)

Fits(c, q) ==
  /\ c.current /\ ~c.behind => Matched(c, q)
  /\ ~c.behind => Total(SizesOf(q)) <= Chunk
  /\ ~c.closed => Len(c.responseDataSizes) <= Bodies(q)

QueueInv ==
  /\ Fits(conn, queue)
  /\ conn.current /\ ~conn.headers /\ ~conn.behind => queue = <<>>

PageInv ==
  /\ TypeOK /\ IndexInv /\ BufferInv /\ OrderInv /\ WholeInv /\ LastInv
  /\ QueueInv /\ RaisesOnlyOnTornOrPhantom

-------------------------------------------------------------------------------
(* The write queue. *)

LEMMA TagFields ==
  ASSUME NEW t \in Tags
  PROVE  /\ t.tag \in {"body", "more", "last"} /\ t.size \in Nat
         /\ t.tag # "body" => t.size = 0
BY DEF Tags

LEMMA WeighAre ==
  ASSUME NEW w \in [Tags -> Nat], NEW q \in Seq(Tags)
  PROVE  Weigh(w, q) \in Seq(Nat) /\ Len(Weigh(w, q)) = Len(q)
         /\ \A i \in 1..Len(q) : Weigh(w, q)[i] = w[q[i]]
<1>1. \A i \in 1..Len(q) : w[q[i]] \in Nat
  OBVIOUS
<1>2. Len(q) \in Nat /\ DOMAIN q = 1..Len(q)
  OBVIOUS
<1>3. Weigh(w, q) \in [1..Len(q) -> Nat]
  BY <1>1, <1>2 DEF Weigh
<1>4. Weigh(w, q) \in Seq(Nat) /\ Len(Weigh(w, q)) = Len(q)
  BY <1>2, <1>3
<1> QED
  BY <1>2, <1>4 DEF Weigh

LEMMA TagsTail ==
  ASSUME NEW q \in Seq(Tags), q # <<>>
  PROVE  /\ Tail(q) \in Seq(Tags) /\ Head(q) = q[1] /\ q[1] \in Tags
         /\ Len(q) \in Nat /\ Len(q) > 0 /\ Len(Tail(q)) = Len(q) - 1
         /\ \A i \in 1..Len(q) - 1 : Tail(q)[i] = q[i + 1]
OBVIOUS

\* The queue loses the weight of what is written,
LEMMA WeighTail ==
  ASSUME NEW w \in [Tags -> Nat], NEW q \in Seq(Tags), q # <<>>
  PROVE  /\ w[q[1]] \in Nat /\ Total(Weigh(w, Tail(q))) \in Nat
         /\ Total(Weigh(w, q)) = w[q[1]] + Total(Weigh(w, Tail(q)))
<1>1. /\ Tail(q) \in Seq(Tags) /\ q[1] \in Tags
      /\ Len(q) \in Nat /\ Len(q) > 0 /\ Len(Tail(q)) = Len(q) - 1
      /\ \A i \in 1..Len(q) - 1 : Tail(q)[i] = q[i + 1]
  BY TagsTail
<1> DEFINE s == Weigh(w, q)
           r == Weigh(w, Tail(q))
<1>2. s \in Seq(Nat) /\ Len(s) = Len(q) /\ \A i \in 1..Len(q) : s[i] = w[q[i]]
  BY WeighAre
<1>3. /\ r \in Seq(Nat) /\ Len(r) = Len(q) - 1
      /\ \A i \in 1..Len(q) - 1 : r[i] = w[Tail(q)[i]]
  BY <1>1, WeighAre
<1> HIDE DEF s, r
<1>4. s # <<>> /\ s[1] = w[q[1]]
  BY <1>1, <1>2
<1>5. /\ Tail(s) \in Seq(Nat) /\ Len(Tail(s)) = Len(q) - 1
      /\ \A i \in 1..Len(q) - 1 : Tail(s)[i] = s[i + 1]
  BY <1>1, <1>2, <1>4
<1> DEFINE t == Tail(s)
<1>6. ASSUME NEW i \in 1..Len(q) - 1 PROVE t[i] = r[i]
  <2>1. i + 1 \in 1..Len(q)
    BY <1>1
  <2>2. Tail(s)[i] = w[q[i + 1]]
    BY <1>2, <1>5, <2>1
  <2> QED
    BY <1>1, <1>3, <2>2
<1>7. t = r
  <2> DEFINE m == Len(q) - 1
  <2>1. m \in Nat
    BY <1>1
  <2>2. t \in Seq(Nat) /\ Len(t) = m
    BY <1>5
  <2>3. r \in Seq(Nat) /\ Len(r) = m
    BY <1>3
  <2>4. \A i \in 1..m : t[i] = r[i]
    BY <1>6
  <2> HIDE DEF t, m
  <2> QED
    BY <2>1, <2>2, <2>3, <2>4
<1>8. Total(s) = s[1] + Total(r) /\ s[1] \in Nat
  BY <1>2, <1>4, <1>7, TotalTail
<1>9. Total(r) \in Nat
  BY <1>3, TotalType
<1> QED
  BY <1>4, <1>8, <1>9 DEF s, r

\* and gains that of what is appended.
LEMMA WeighAppend ==
  ASSUME NEW w \in [Tags -> Nat], NEW q \in Seq(Tags), NEW t \in Tags
  PROVE  /\ Append(q, t) \in Seq(Tags)
         /\ Total(Weigh(w, Append(q, t))) = Total(Weigh(w, q)) + w[t]
<1> DEFINE s == Weigh(w, q)
           r == Weigh(w, Append(q, t))
<1>1. /\ Append(q, t) \in Seq(Tags) /\ Len(Append(q, t)) = Len(q) + 1 /\ Len(q) \in Nat
      /\ \A i \in 1..Len(q) : Append(q, t)[i] = q[i]
      /\ Append(q, t)[Len(q) + 1] = t
  OBVIOUS
<1>2. s \in Seq(Nat) /\ Len(s) = Len(q) /\ \A i \in 1..Len(q) : s[i] = w[q[i]]
  BY WeighAre
<1>3. /\ r \in Seq(Nat) /\ Len(r) = Len(q) + 1
      /\ \A i \in 1..Len(q) + 1 : r[i] = w[Append(q, t)[i]]
  BY <1>1, WeighAre
<1>4. w[t] \in Nat
  OBVIOUS
<1> HIDE DEF s, r
<1>5. /\ Append(s, w[t]) \in Seq(Nat) /\ Len(Append(s, w[t])) = Len(q) + 1
      /\ \A i \in 1..Len(q) : Append(s, w[t])[i] = s[i]
      /\ Append(s, w[t])[Len(q) + 1] = w[t]
  BY <1>1, <1>2, <1>4
<1>6. ASSUME NEW i \in 1..Len(q) + 1 PROVE Append(s, w[t])[i] = r[i]
  <2>1. CASE i = Len(q) + 1
    BY <1>1, <1>3, <1>5, <2>1
  <2>2. CASE i # Len(q) + 1
    <3>1. i \in 1..Len(q)
      BY <1>1, <2>2
    <3> QED
      BY <1>1, <1>2, <1>3, <1>5, <3>1
  <2> QED
    BY <2>1, <2>2
<1>7. Append(s, w[t]) = r
  BY <1>1, <1>3, <1>5, <1>6
<1>8. Total(Append(s, w[t])) = Total(s) + w[t]
  BY <1>2, <1>4, TotalAppend
<1> QED
  BY <1>1, <1>7, <1>8 DEF s, r

\* The two weights.
LEMMA WeightsAre ==
  /\ SizeWeight \in [Tags -> Nat] /\ BodyWeight \in [Tags -> Nat]
  /\ \A t \in Tags : /\ SizeWeight[t] = t.size
                     /\ t.tag = "body" => BodyWeight[t] = 1
                     /\ t.tag # "body" => BodyWeight[t] = 0
<1>1. \A t \in Tags : t.size \in Nat
  BY TagFields
<1> QED
  BY <1>1 DEF SizeWeight, BodyWeight

LEMMA SizesWeigh ==
  ASSUME NEW q \in Seq(Tags)
  PROVE  SizesOf(q) = Weigh(SizeWeight, q)
<1>1. \A i \in DOMAIN q : q[i] \in Tags
  OBVIOUS
<1>2. \A i \in DOMAIN q : SizeWeight[q[i]] = q[i].size
  BY <1>1, WeightsAre
<1> QED
  BY <1>2 DEF SizesOf, Weigh

LEMMA SizesTail ==
  ASSUME NEW q \in Seq(Tags), q # <<>>
  PROVE  /\ q[1].size \in Nat /\ Total(SizesOf(Tail(q))) \in Nat
         /\ Total(SizesOf(q)) = q[1].size + Total(SizesOf(Tail(q)))
<1>1. Tail(q) \in Seq(Tags) /\ q[1] \in Tags
  BY TagsTail
<1>2. SizesOf(q) = Weigh(SizeWeight, q) /\ SizesOf(Tail(q)) = Weigh(SizeWeight, Tail(q))
  BY <1>1, SizesWeigh
<1>3. SizeWeight[q[1]] = q[1].size /\ SizeWeight \in [Tags -> Nat]
  BY <1>1, WeightsAre
<1> QED
  BY <1>2, <1>3, WeighTail

LEMMA SizesAppend ==
  ASSUME NEW q \in Seq(Tags), NEW t \in Tags
  PROVE  /\ Append(q, t) \in Seq(Tags)
         /\ Total(SizesOf(Append(q, t))) = Total(SizesOf(q)) + t.size
<1>1. Append(q, t) \in Seq(Tags)
  OBVIOUS
<1>2. SizesOf(q) = Weigh(SizeWeight, q) /\ SizesOf(Append(q, t)) = Weigh(SizeWeight, Append(q, t))
  BY <1>1, SizesWeigh
<1>3. SizeWeight[t] = t.size /\ SizeWeight \in [Tags -> Nat]
  BY WeightsAre
<1> QED
  BY <1>1, <1>2, <1>3, WeighAppend

LEMMA SizesAre ==
  ASSUME NEW q \in Seq(Tags)
  PROVE  SizesOf(q) \in Seq(Nat) /\ Total(SizesOf(q)) \in Nat
<1>1. SizesOf(q) \in Seq(Nat)
  BY SizesWeigh, WeighAre, WeightsAre
<1> QED
  BY <1>1, TotalType

\* How many bodies there are.
LEMMA BodiesTail ==
  ASSUME NEW q \in Seq(Tags), q # <<>>
  PROVE  /\ Bodies(Tail(q)) \in Nat
         /\ q[1].tag = "body" => Bodies(q) = 1 + Bodies(Tail(q))
         /\ q[1].tag # "body" => Bodies(q) = Bodies(Tail(q))
<1>1. q[1] \in Tags /\ BodyWeight \in [Tags -> Nat]
      /\ (q[1].tag = "body" => BodyWeight[q[1]] = 1)
      /\ (q[1].tag # "body" => BodyWeight[q[1]] = 0)
  BY TagsTail, WeightsAre
<1>2. /\ Bodies(Tail(q)) \in Nat
      /\ Bodies(q) = BodyWeight[q[1]] + Bodies(Tail(q))
  BY <1>1, WeighTail DEF Bodies
<1> QED
  BY <1>1, <1>2

LEMMA BodiesAppend ==
  ASSUME NEW q \in Seq(Tags), NEW t \in Tags
  PROVE  /\ Bodies(q) \in Nat
         /\ t.tag = "body" => Bodies(Append(q, t)) = Bodies(q) + 1
         /\ t.tag # "body" => Bodies(Append(q, t)) = Bodies(q)
<1>1. BodyWeight \in [Tags -> Nat]
      /\ (t.tag = "body" => BodyWeight[t] = 1)
      /\ (t.tag # "body" => BodyWeight[t] = 0)
  BY WeightsAre
<1>2. Bodies(Append(q, t)) = Bodies(q) + BodyWeight[t]
  BY <1>1, WeighAppend DEF Bodies
<1>3. Bodies(q) \in Nat
  BY <1>1, WeighAre, TotalType DEF Bodies
<1> QED
  BY <1>1, <1>2, <1>3

LEMMA BodiesEmpty == Bodies(<<>>) = 0
<1>1. <<>> \in Seq(Tags)
  OBVIOUS
<1>2. Weigh(BodyWeight, <<>>) \in Seq(Nat) /\ Len(Weigh(BodyWeight, <<>>)) = 0
  BY <1>1, WeighAre, WeightsAre
<1>3. Weigh(BodyWeight, <<>>) = <<>>
  BY <1>2
<1> QED
  BY <1>3, TotalEmpty DEF Bodies

LEMMA SizesEmpty == Total(SizesOf(<<>>)) = 0 /\ <<>> \in Seq(Tags)
<1>1. <<>> \in Seq(Tags)
  OBVIOUS
<1>2. SizesOf(<<>>) \in Seq(Nat) /\ Len(SizesOf(<<>>)) = 0
  <2>1. SizesOf(<<>>) = Weigh(SizeWeight, <<>>) /\ SizeWeight \in [Tags -> Nat]
    BY <1>1, SizesWeigh, WeightsAre
  <2>2. Weigh(SizeWeight, <<>>) \in Seq(Nat) /\ Len(Weigh(SizeWeight, <<>>)) = Len(<<>>)
    BY <1>1, <2>1, WeighAre
  <2> QED
    BY <2>1, <2>2
<1>3. SizesOf(<<>>) = <<>>
  BY <1>2
<1> QED
  BY <1>1, <1>3, TotalEmpty

\* What is at the front: a body, with the first of the sizes,
LEMMA PairedBody ==
  ASSUME NEW q \in Seq(Tags), NEW sizes \in Seq(Nat), NEW k \in {0, 1},
         Paired(q, sizes, k), q # <<>>, q[1].tag = "body"
  PROVE  sizes # <<>> /\ q[1].size = sizes[1] /\ Paired(Tail(q), Tail(sizes), 1)
<1>1. /\ Len(q) \in Nat /\ Len(q) > 0 /\ Len(Tail(q)) = Len(q) - 1
      /\ \A i \in 1..Len(q) - 1 : Tail(q)[i] = q[i + 1]
  BY TagsTail
<1>2. k = 0 /\ Len(q) = 2 * Len(sizes) /\ Len(sizes) \in Nat
  BY DEF Paired
<1>3. 1 \in 1..Len(sizes) /\ sizes # <<>>
  BY <1>1, <1>2
<1>4. ASSUME NEW i \in 1..Len(sizes)
      PROVE  /\ q[2 * i - 1].tag = "body" /\ q[2 * i - 1].size = sizes[i]
             /\ q[2 * i].tag # "body"
  <2>1. 2 * i - 1 + 0 = 2 * i - 1 /\ 2 * i + 0 = 2 * i
    OBVIOUS
  <2> QED
    BY <1>2, <2>1 DEF Paired
<1>5. q[1].size = sizes[1] /\ q[2].tag # "body"
  <2>1. 2 * 1 - 1 = 1 /\ 2 * 1 = 2
    OBVIOUS
  <2> QED
    BY <1>3, <1>4, <2>1
<1>6. /\ Len(Tail(sizes)) = Len(sizes) - 1
      /\ \A i \in 1..Len(sizes) - 1 : Tail(sizes)[i] = sizes[i + 1]
  BY <1>3
<1>7. Len(Tail(q)) = 2 * Len(Tail(sizes)) + 1
  BY <1>1, <1>2, <1>6
<1>8. Tail(q)[1].tag # "body"
  <2>1. 1 \in 1..Len(q) - 1 /\ 1 + 1 = 2
    BY <1>2, <1>3
  <2> QED
    BY <1>1, <1>5, <2>1
<1>9. ASSUME NEW i \in 1..Len(Tail(sizes))
      PROVE  /\ Tail(q)[2 * i - 1 + 1].tag = "body" /\ Tail(q)[2 * i - 1 + 1].size = Tail(sizes)[i]
             /\ Tail(q)[2 * i + 1].tag # "body"
  <2>1. /\ i \in 1..Len(sizes) - 1 /\ i + 1 \in 1..Len(sizes)
        /\ 2 * i - 1 + 1 \in 1..Len(q) - 1 /\ 2 * i - 1 + 1 + 1 = 2 * (i + 1) - 1
        /\ 2 * i + 1 \in 1..Len(q) - 1 /\ 2 * i + 1 + 1 = 2 * (i + 1)
    BY <1>2, <1>6
  <2>2. Tail(q)[2 * i - 1 + 1] = q[2 * (i + 1) - 1] /\ Tail(q)[2 * i + 1] = q[2 * (i + 1)]
    BY <1>1, <2>1
  <2>3. Tail(sizes)[i] = sizes[i + 1]
    BY <1>6, <2>1
  <2> QED
    BY <1>4, <2>1, <2>2, <2>3
<1> QED
  BY <1>3, <1>5, <1>7, <1>8, <1>9 DEF Paired

\* or a mark.
LEMMA PairedMark ==
  ASSUME NEW q \in Seq(Tags), NEW sizes \in Seq(Nat), NEW k \in {0, 1},
         Paired(q, sizes, k), q # <<>>, q[1].tag # "body"
  PROVE  Paired(Tail(q), sizes, 0)
<1>1. /\ Len(q) \in Nat /\ Len(q) > 0 /\ Len(Tail(q)) = Len(q) - 1
      /\ \A i \in 1..Len(q) - 1 : Tail(q)[i] = q[i + 1]
  BY TagsTail
<1>2. Len(q) = 2 * Len(sizes) + k /\ Len(sizes) \in Nat
  BY DEF Paired
<1>3. k = 1
  <2> SUFFICES ASSUME k = 0 PROVE FALSE
    OBVIOUS
  <2>1. 1 \in 1..Len(sizes) /\ 2 * 1 - 1 + k = 1
    BY <1>1, <1>2
  <2> QED
    BY <2>1 DEF Paired
<1>4. PICK j \in {0, 1} : j = 0
  OBVIOUS
<1>5. ASSUME NEW i \in 1..Len(sizes)
      PROVE  /\ Tail(q)[2 * i - 1 + j].tag = "body" /\ Tail(q)[2 * i - 1 + j].size = sizes[i]
             /\ Tail(q)[2 * i + j].tag # "body"
  <2>1. /\ 2 * i - 1 + j \in 1..Len(q) - 1 /\ 2 * i - 1 + j + 1 = 2 * i - 1 + k
        /\ 2 * i + j \in 1..Len(q) - 1 /\ 2 * i + j + 1 = 2 * i + k
    BY <1>2, <1>3, <1>4
  <2>2. Tail(q)[2 * i - 1 + j] = q[2 * i - 1 + k] /\ Tail(q)[2 * i + j] = q[2 * i + k]
    BY <1>1, <2>1
  <2> QED
    BY <2>2 DEF Paired
<1>6. Len(Tail(q)) = 2 * Len(sizes) + j
  BY <1>1, <1>2, <1>3, <1>4
<1>7. j = 1 => Tail(q)[1].tag # "body"
  BY <1>4
<1>8. Paired(Tail(q), sizes, j)
  BY <1>5, <1>6, <1>7 DEF Paired
<1> QED
  BY <1>4, <1>8

\* A chunk is put behind.
LEMMA PairedChunk ==
  ASSUME NEW q \in Seq(Tags), NEW sizes \in Seq(Nat), NEW k \in {0, 1}, Paired(q, sizes, k),
         NEW body \in Tags, NEW mark \in Tags, body.tag = "body", mark.tag # "body"
  PROVE  Paired(Append(Append(q, body), mark), Append(sizes, body.size), k)
<1> DEFINE longer == Append(Append(q, body), mark)
           all    == Append(sizes, body.size)
           n      == Len(q)
           m      == Len(sizes)
<1>1. n = 2 * m + k /\ n \in Nat /\ m \in Nat
  BY DEF Paired
<1>2. /\ Len(longer) = n + 2 /\ longer[n + 1] = body /\ longer[n + 2] = mark
      /\ \A i \in 1..n : longer[i] = q[i]
  OBVIOUS
<1>3. Len(all) = m + 1 /\ all[m + 1] = body.size /\ \A i \in 1..m : all[i] = sizes[i]
  BY TagFields
<1> HIDE DEF longer, all
<1>4. Len(longer) = 2 * Len(all) + k
  BY <1>1, <1>2, <1>3
<1>5. k = 1 => longer[1].tag # "body"
  <2>1. k = 1 => 1 \in 1..n
    BY <1>1
  <2> QED
    BY <1>2, <2>1 DEF Paired
<1>6. ASSUME NEW i \in 1..Len(all)
      PROVE  /\ longer[2 * i - 1 + k].tag = "body" /\ longer[2 * i - 1 + k].size = all[i]
             /\ longer[2 * i + k].tag # "body"
  <2>1. CASE i = m + 1
    <3>1. 2 * i - 1 + k = n + 1 /\ 2 * i + k = n + 2
      BY <1>1, <2>1
    <3> QED
      BY <1>2, <1>3, <2>1, <3>1
  <2>2. CASE i # m + 1
    <3>1. i \in 1..m /\ 2 * i - 1 + k \in 1..n /\ 2 * i + k \in 1..n
      BY <1>1, <1>3, <2>2
    <3>2. longer[2 * i - 1 + k] = q[2 * i - 1 + k] /\ longer[2 * i + k] = q[2 * i + k]
      BY <1>2, <3>1
    <3>3. all[i] = sizes[i]
      BY <1>3, <3>1
    <3> QED
      BY <3>1, <3>2, <3>3 DEF Paired
  <2> QED
    BY <2>1, <2>2
<1> QED
  BY <1>4, <1>5, <1>6 DEF Paired, longer, all

-------------------------------------------------------------------------------
(***************************************************************************)
(* What the connection's queue does: the state it leaves, when c and q     *)
(* are the connection and the write queue its caller left.                 *)
(***************************************************************************)
SameRequest(c) == conn'.head = c.head /\ conn'.behind = c.behind

Sends(c, q) ==
  /\ conn' \in Conn /\ queue' \in Seq(Tags)
  /\ sent' \in 0..Len(response.dataBuffer) /\ sent' >= sent
  /\ conn'.current = c.current /\ conn'.headers = c.headers /\ conn'.finished = c.finished
  /\ SameRequest(c)
  /\ Fits(conn', queue')
  /\ IsLast(queue') => IsLast(q) \/ (response.mIsDone /\ sent' >= Len(response.dataBuffer))

LEMMA ConnFields ==
  ASSUME NEW c \in Conn
  PROVE  /\ c.current \in BOOLEAN /\ c.headers \in BOOLEAN /\ c.finished \in BOOLEAN
         /\ c.closed \in BOOLEAN /\ c.wakeups \in Nat /\ c.responseDataSizes \in Seq(Nat)
         /\ c.head \in BOOLEAN /\ c.behind \in BOOLEAN /\ c.requests \in 0..MaxRequests
BY DEF Conn

LEMMA ResponseFields ==
  ASSUME NEW r \in Response
  PROVE  /\ r.dataBuffer \in Seq(Piece) /\ r.mIsDone \in BOOLEAN /\ r.emailCount \in Nat
         /\ r.mResultCount \in Nat /\ r.connection \in BOOLEAN /\ Len(r.dataBuffer) \in Nat
<1>1. r.dataBuffer \in Seq(Piece)
  BY DEF Response
<1>2. Len(r.dataBuffer) \in Nat
  BY <1>1
<1> QED
  BY <1>1, <1>2 DEF Response

LEMMA SendsNothing ==
  ASSUME TypeOK, NEW c \in Conn, NEW q \in Seq(Tags), Fits(c, q),
         conn' = c, queue' = q, sent' = sent
  PROVE  Sends(c, q)
<1>1. sent \in 0..Len(response.dataBuffer) /\ sent >= sent
  BY DEF TypeOK
<1> QED
  BY <1>1 DEF Sends, SameRequest

LEMMA SendsChunk ==
  ASSUME TypeOK, NEW c \in Conn, NEW q \in Seq(Tags), NEW available \in Nat,
         Fits(c, q), ~c.behind => Total(SizesOf(q)) + available <= Chunk,
         SendChunk(available, c, q)
  PROVE  Sends(c, q)
<1> DEFINE left == Len(response.dataBuffer) - sent
           size == IF available < left THEN available ELSE left
           mark == IF IsDone(sent + size) THEN "last" ELSE "more"
           body == [tag |-> "body", size |-> size]
           end  == [tag |-> mark, size |-> 0]
<1>0. /\ Chunk \in Nat /\ Total(SizesOf(q)) \in Nat /\ Len(response.dataBuffer) \in Nat
      /\ sent \in 0..Len(response.dataBuffer) /\ c.responseDataSizes \in Seq(Nat)
      /\ response \in Response
  <2>1. SizesOf(q) \in Seq(Nat)
    BY SizesAre
  <2>2. response \in Response
    BY DEF TypeOK
  <2> QED
    BY <2>1, <2>2, TotalType, PageAssumption, ConnFields, ResponseFields DEF TypeOK
<1>1. size \in Nat /\ size <= available /\ sent + size \in 0..Len(response.dataBuffer)
  BY <1>0
<1>2. CASE size = 0
  <2>1. conn' = c /\ queue' = q /\ sent' = sent
    BY <1>2 DEF SendChunk
  <2> QED
    BY <2>1, SendsNothing
<1>3. CASE size # 0
  <2>1. /\ sent' = sent + size
        /\ conn' = [c EXCEPT !.responseDataSizes = Append(c.responseDataSizes, size)]
        /\ queue' = q \o <<body, end>>
    BY <1>3 DEF SendChunk
  <2>2. body \in Tags /\ end \in Tags /\ body.tag = "body" /\ end.tag # "body"
        /\ body.size = size /\ end.size = 0 /\ end.tag = mark
    BY <1>1 DEF Tags
  <2>3. mark = "last" => response.mIsDone /\ sent + size >= Len(response.dataBuffer)
    BY DEF IsDone
  <2> HIDE DEF size, body, end, mark
  <2>4. queue' = Append(Append(q, body), end)
    BY <2>1, <2>2
  <2>5. /\ Append(q, body) \in Seq(Tags) /\ queue' \in Seq(Tags)
        /\ Total(SizesOf(queue')) = Total(SizesOf(q)) + size + 0
    <3>1. /\ Append(q, body) \in Seq(Tags)
          /\ Total(SizesOf(Append(q, body))) = Total(SizesOf(q)) + size
      BY <2>2, SizesAppend
    <3>2. /\ queue' \in Seq(Tags)
          /\ Total(SizesOf(queue')) = Total(SizesOf(Append(q, body))) + 0
      BY <2>2, <2>4, <3>1, SizesAppend
    <3> QED
      BY <3>1, <3>2
  <2>6. /\ ~c.behind => Total(SizesOf(queue')) <= Chunk
        /\ Total(SizesOf(queue')) = Total(SizesOf(q)) + size
    BY <1>0, <1>1, <2>5
  <2>7. /\ Append(c.responseDataSizes, size) \in Seq(Nat)
        /\ Len(Append(c.responseDataSizes, size)) = Len(c.responseDataSizes) + 1
        /\ Total(Append(c.responseDataSizes, size)) = Total(c.responseDataSizes) + size
    BY <1>0, <1>1, TotalAppend
  <2>8. /\ conn' \in Conn /\ conn'.responseDataSizes = Append(c.responseDataSizes, size)
        /\ conn'.current = c.current /\ conn'.headers = c.headers /\ conn'.finished = c.finished
        /\ conn'.closed = c.closed /\ SameRequest(c)
    BY <2>1, <2>7 DEF Conn, SameRequest
  <2>9. ASSUME Matched(c, q) PROVE Matched(conn', queue')
    <3>1. PICK k \in {0, 1} : Paired(q, c.responseDataSizes, k)
      BY <2>9 DEF Matched
    <3>2. Paired(Append(Append(q, body), end), Append(c.responseDataSizes, body.size), k)
      BY <1>0, <2>2, <3>1, PairedChunk
    <3>3. Paired(queue', conn'.responseDataSizes, k)
      BY <2>2, <2>4, <2>8, <3>2
    <3>4. Total(SizesOf(q)) = Total(c.responseDataSizes)
      BY <2>9 DEF Matched
    <3> QED
      BY <2>6, <2>7, <2>8, <3>3, <3>4 DEF Matched
  <2>10. ASSUME IsLast(queue')
         PROVE  IsLast(q) \/ (response.mIsDone /\ sent' >= Len(response.dataBuffer))
    <3>1. PICK i \in DOMAIN queue' : queue'[i].tag = "last"
      BY <2>10 DEF IsLast
    <3>2. CASE i \in 1..Len(q)
      <4>1. queue'[i] = q[i] /\ i \in DOMAIN q
        BY <2>1, <2>2, <3>2
      <4> QED
        BY <3>1, <4>1 DEF IsLast
    <3>3. CASE i \notin 1..Len(q)
      <4>1. i = Len(q) + 1 \/ i = Len(q) + 2
        BY <2>1, <2>2, <3>1, <3>3
      <4>2. queue'[Len(q) + 1] = body /\ queue'[Len(q) + 2] = end
        BY <2>1, <2>2
      <4>3. end.tag = "last"
        BY <2>2, <3>1, <4>1, <4>2
      <4> QED
        BY <2>1, <2>2, <2>3, <4>3
    <3> QED
      BY <3>2, <3>3
  <2>11. sent' \in 0..Len(response.dataBuffer) /\ sent' >= sent
    BY <1>0, <1>1, <2>1
  <2>12. Bodies(queue') = Bodies(q) + 1 /\ Bodies(q) \in Nat
    <3>1. Bodies(Append(q, body)) = Bodies(q) + 1 /\ Bodies(q) \in Nat
      BY <2>2, BodiesAppend
    <3>2. Bodies(queue') = Bodies(Append(q, body))
      BY <2>2, <2>4, <2>5, BodiesAppend
    <3> QED
      BY <3>1, <3>2
  <2>13. ~c.closed => Len(conn'.responseDataSizes) <= Bodies(queue')
    <3>1. ~c.closed => Len(c.responseDataSizes) <= Bodies(q)
      BY DEF Fits
    <3>2. Len(c.responseDataSizes) \in Nat
      BY <1>0
    <3> QED
      BY <2>7, <2>8, <2>12, <3>1, <3>2
  <2>14. Fits(conn', queue')
    BY <2>6, <2>8, <2>9, <2>13 DEF Fits, SameRequest
  <2> QED
    BY <2>5, <2>8, <2>10, <2>11, <2>14 DEF Sends
<1> QED
  BY <1>2, <1>3

LEMMA Continues ==
  ASSUME TypeOK, NEW c \in Conn, NEW q \in Seq(Tags), Fits(c, q), Continue(c, q)
  PROVE  Sends(c, q)
<1>1. CASE c.current /\ WriteQueueSize(c) < Chunk
  <2>1. /\ ~c.behind => Total(SizesOf(q)) = WriteQueueSize(c)
        /\ WriteQueueSize(c) \in Nat /\ Chunk \in Nat
    <3>1. c.responseDataSizes \in Seq(Nat)
      BY ConnFields
    <3> QED
      BY <1>1, <3>1, TotalType, PageAssumption DEF Fits, Matched, WriteQueueSize
  <2>2. PICK available \in Nat : available = Chunk - WriteQueueSize(c)
    BY <1>1, <2>1
  <2>3. SendChunk(available, c, q)
    BY <1>1, <2>2 DEF Continue
  <2>4. ~c.behind => Total(SizesOf(q)) + available <= Chunk
    BY <2>1, <2>2
  <2> QED
    BY <2>3, <2>4, SendsChunk
<1>2. CASE ~(c.current /\ WriteQueueSize(c) < Chunk)
  BY <1>2, SendsNothing DEF Continue
<1> QED
  BY <1>1, <1>2

\* A step of the connection's queue leaves the search alone, and of its response
\* all but the reference to the connection.
SameResponse ==
  /\ response' \in Response
  /\ response'.dataBuffer = response.dataBuffer
  /\ response'.mIsDone = response.mIsDone
  /\ response'.emailCount = response.emailCount
  /\ response'.mResultCount = response.mResultCount

LEMMA QueueStepKeeps ==
  ASSUME PageInv, UNCHANGED <<mDb, storing, search, failed, kills>>, SameResponse,
         search.pc # "idle",
         conn' \in Conn, queue' \in Seq(Tags), sent' \in 0..Len(response.dataBuffer),
         sent' >= sent, SameRequest(conn), conn'.finished => conn.finished \/ IsLast(queue),
         IsLast(queue') => \/ IsLast(queue) \/ conn.head
                           \/ response.mIsDone /\ sent' >= Len(response.dataBuffer),
         QueueInv'
  PROVE  PageInv'
<1>1. TypeOK'
  BY DEF PageInv, TypeOK, IndexTypeOK, SameResponse
<1>2. IndexInv'
  BY DEF PageInv, IndexInv, PutsCounted, InOrder, KeysApart
<1>3. RowCount' = RowCount
  BY DEF RowCount, SameResponse
<1>4. BufferInv'
  <2>1. CountInv'
    BY <1>3 DEF PageInv, BufferInv, CountInv, SameResponse
  <2> QED
    BY <1>3, <2>1 DEF PageInv, BufferInv, SameResponse
<1>5. OrderInv'
  <2>1. Snapped' = Snapped /\ Listed(2..RowCount + 1)' = Listed(2..RowCount + 1)
    BY <1>3 DEF Snapped, Listed, SameResponse
  <2> QED
    BY <1>3, <2>1 DEF PageInv, OrderInv, SameResponse
<1>6. WholeInv'
  <2>1. /\ Snapped' = Snapped /\ Listed(2..RowCount + 1)' = Listed(2..RowCount + 1)
        /\ Phantoms' = Phantoms
    BY <1>3 DEF Snapped, Phantoms, Listed, SameResponse
  <2> QED
    BY <2>1 DEF PageInv, WholeInv, SameResponse
<1>7. LastInv'
  <2> SUFFICES ASSUME conn'.finished \/ IsLast(queue'), ~conn.head, ~conn.behind
               PROVE  response.mIsDone /\ sent' >= RowCount + 1
    BY <1>3 DEF LastInv, SameResponse, SameRequest
  <2>1. /\ Len(response.dataBuffer) >= RowCount + 1 /\ RowCount \in Nat
        /\ Len(response.dataBuffer) \in Nat /\ sent \in Nat /\ sent' \in Nat
    <3>1. response \in Response /\ sent \in 0..Len(response.dataBuffer)
      BY DEF PageInv, TypeOK
    <3>2. RowCount \in Nat /\ Len(response.dataBuffer) \in Nat
      BY <3>1, ResponseFields DEF RowCount
    <3> QED
      BY <3>1, <3>2 DEF PageInv, BufferInv
  <2>2. CASE conn.finished \/ IsLast(queue)
    <3>1. response.mIsDone /\ sent >= RowCount + 1
      BY <2>2 DEF PageInv, LastInv
    <3> QED
      BY <2>1, <3>1
  <2>3. CASE response.mIsDone /\ sent' >= Len(response.dataBuffer)
    BY <2>1, <2>3
  <2> QED
    BY <2>2, <2>3
<1>8. RaisesOnlyOnTornOrPhantom'
  BY DEF PageInv, RaisesOnlyOnTornOrPhantom
<1> QED
  BY <1>1, <1>2, <1>4, <1>5, <1>6, <1>7, <1>8 DEF PageInv

\* Before the request there is nothing to send.
LEMMA NotIdle ==
  ASSUME PageInv, conn.current \/ conn.wakeups > 0 \/ conn.requests > 0 \/ queue # <<>>
  PROVE  search.pc # "idle"
BY DEF PageInv, BufferInv, NoConn

\* The headers and the first chunk of a page,
LEMMA HeadersKeep ==
  ASSUME PageInv, SendHeaders, UNCHANGED kills
  PROVE  PageInv'
<1> DEFINE c == [conn EXCEPT !.headers = TRUE]
<1>1. conn \in Conn /\ TypeOK /\ queue \in Seq(Tags) /\ conn.current /\ ~conn.headers
  BY DEF PageInv, TypeOK, SendHeaders
<1>2. /\ c \in Conn /\ c.current = conn.current /\ c.headers /\ c.finished = conn.finished
      /\ c.responseDataSizes = conn.responseDataSizes /\ c.closed = conn.closed
      /\ c.head = conn.head /\ c.behind = conn.behind
  BY <1>1 DEF Conn
<1>3. ~conn.behind => queue = <<>>
  BY <1>1 DEF PageInv, QueueInv
<1>4. Fits(c, queue)
  BY <1>2 DEF PageInv, QueueInv, Fits, Matched
<1>5. \/ ~conn.head /\ SendChunk(Chunk, c, queue)
      \/ conn.head /\ conn' = c /\ queue' = Append(queue, LastMark) /\ sent' = sent
  BY DEF SendHeaders
<1> HIDE DEF c
<1>6. search.pc # "idle"
  BY <1>1, NotIdle
<1>7. UNCHANGED <<mDb, storing, search, failed, kills>> /\ SameResponse
  BY <1>1 DEF SendHeaders, indexVars, SameResponse, TypeOK
<1>8. CASE ~conn.head
  <2>1. Chunk \in Nat /\ (~c.behind => Total(SizesOf(queue)) + Chunk <= Chunk)
    BY <1>2, <1>3, SizesEmpty, PageAssumption
  <2>2. Sends(c, queue)
    BY <1>1, <1>2, <1>4, <1>5, <1>8, <2>1, SendsChunk
  <2>3. QueueInv' /\ SameRequest(conn)
    BY <1>2, <2>2 DEF Sends, QueueInv, SameRequest
  <2> QED
    BY <1>2, <1>6, <1>7, <2>2, <2>3, QueueStepKeeps DEF Sends
<1>9. CASE conn.head
  <2>1. conn' = c /\ queue' = Append(queue, LastMark) /\ sent' = sent
    BY <1>5, <1>9
  <2>2. LastMark \in Tags /\ LastMark.tag # "body" /\ LastMark.size = 0
    BY DEF LastMark, Tags
  <2>3. /\ queue' \in Seq(Tags) /\ Total(SizesOf(queue')) = Total(SizesOf(queue)) + 0
        /\ Total(SizesOf(queue)) \in Nat /\ Bodies(queue') = Bodies(queue)
    BY <1>1, <2>1, <2>2, SizesAppend, SizesAre, BodiesAppend
  <2>4. ~conn.behind => Matched(conn', queue')
    <3> SUFFICES ASSUME ~conn.behind PROVE Matched(conn', queue')
      OBVIOUS
    <3>1. queue = <<>> /\ Matched(c, queue)
      BY <1>1, <1>2, <1>3, <1>4 DEF Fits
    <3>2. PICK k \in {0, 1} : Paired(queue, c.responseDataSizes, k)
      BY <3>1 DEF Matched
    <3>3. c.responseDataSizes \in Seq(Nat) /\ Len(c.responseDataSizes) \in Nat
      BY <1>2, ConnFields
    <3>4. Len(c.responseDataSizes) = 0
      BY <3>1, <3>2, <3>3 DEF Paired
    <3>5. Len(queue') = 1 /\ queue'[1] = LastMark
      BY <2>1, <2>2, <3>1
    <3>6. Paired(queue', c.responseDataSizes, 1)
      BY <2>2, <3>4, <3>5 DEF Paired
    <3>7. Total(SizesOf(queue')) = Total(c.responseDataSizes)
      BY <2>3, <3>1 DEF Matched
    <3> QED
      BY <2>1, <3>6, <3>7 DEF Matched
  <2>5. QueueInv'
    <3>1. Fits(conn', queue')
      BY <1>2, <1>4, <2>1, <2>3, <2>4 DEF Fits
    <3> QED
      BY <1>2, <2>1, <3>1 DEF QueueInv
  <2>6. sent' \in 0..Len(response.dataBuffer) /\ sent' >= sent
    BY <1>1, <2>1 DEF TypeOK
  <2>7. SameRequest(conn) /\ conn'.finished = conn.finished /\ conn' \in Conn
    BY <1>2, <2>1 DEF SameRequest
  <2> QED
    BY <1>6, <1>7, <1>9, <2>3, <2>5, <2>6, <2>7, QueueStepKeeps
<1> QED
  BY <1>8, <1>9

\* a wake-up,
LEMMA WakeupKeeps ==
  ASSUME PageInv, HasAvailableData, UNCHANGED kills
  PROVE  PageInv'
<1> DEFINE c == [conn EXCEPT !.wakeups = conn.wakeups - 1]
<1>1. conn \in Conn /\ TypeOK /\ queue \in Seq(Tags) /\ conn.wakeups > 0
  BY DEF PageInv, TypeOK, HasAvailableData
<1>2. /\ c \in Conn /\ c.current = conn.current /\ c.headers = conn.headers
      /\ c.finished = conn.finished /\ c.responseDataSizes = conn.responseDataSizes
      /\ c.closed = conn.closed /\ c.head = conn.head /\ c.behind = conn.behind
  <2>1. conn.wakeups - 1 \in Nat
    BY <1>1 DEF Conn
  <2> QED
    BY <1>1, <2>1 DEF Conn
<1>3. Continue(c, queue)
  BY DEF HasAvailableData
<1> HIDE DEF c
<1>4. Fits(c, queue)
  BY <1>2 DEF PageInv, QueueInv, Fits, Matched
<1>5. Sends(c, queue)
  BY <1>1, <1>2, <1>3, <1>4, Continues
<1>6. search.pc # "idle"
  BY <1>1, NotIdle
<1>7. UNCHANGED <<mDb, storing, search, failed, kills>> /\ SameResponse
  BY <1>1 DEF HasAvailableData, indexVars, SameResponse, TypeOK
<1>8. conn'.current => conn'.headers
  BY <1>2, <1>5 DEF Sends, HasAvailableData, BetweenBlocks
<1>9. QueueInv' /\ SameRequest(conn)
  BY <1>2, <1>5, <1>8 DEF Sends, QueueInv, SameRequest
<1> QED
  BY <1>2, <1>5, <1>6, <1>7, <1>9, QueueStepKeeps DEF Sends

\* What the front of the queue leaves when it is written.
LEMMA LastOfTail ==
  ASSUME NEW q \in Seq(Tags), q # <<>>, IsLast(Tail(q))
  PROVE  IsLast(q)
<1>1. PICK i \in DOMAIN Tail(q) : Tail(q)[i].tag = "last"
  BY DEF IsLast
<1>2. i + 1 \in DOMAIN q /\ Tail(q)[i] = q[i + 1]
  BY <1>1
<1> QED
  BY <1>1, <1>2 DEF IsLast

LEMMA FrontIs ==
  ASSUME TypeOK, queue # <<>>
  PROVE  /\ queue \in Seq(Tags) /\ Head(queue) = queue[1] /\ Tail(queue) \in Seq(Tags)
         /\ queue[1] \in Tags
         /\ IsLast(Tail(queue)) => IsLast(queue)
<1>1. queue \in Seq(Tags)
  BY DEF TypeOK
<1> QED
  BY <1>1, TagsTail, LastOfTail

LEMMA TailFits ==
  ASSUME PageInv, queue # <<>>
  PROVE  ~conn.behind => Total(SizesOf(Tail(queue))) <= Chunk
<1>1. /\ queue \in Seq(Tags) /\ Chunk \in Nat
      /\ ~conn.behind => Total(SizesOf(queue)) <= Chunk
  BY PageAssumption DEF PageInv, TypeOK, QueueInv, Fits
<1>2. /\ queue[1].size \in Nat /\ Total(SizesOf(Tail(queue))) \in Nat
      /\ Total(SizesOf(queue)) = queue[1].size + Total(SizesOf(Tail(queue)))
  BY <1>1, SizesTail
<1> QED
  BY <1>1, <1>2

\* The size of the first body goes with the body, or with the end of a page.
LEMMA SizesLeft ==
  ASSUME PageInv, queue # <<>>
  PROVE  /\ ~conn.closed /\ queue[1].tag # "body" =>
              Len(conn.responseDataSizes) <= Bodies(Tail(queue))
         /\ ~conn.closed => Len(RestOf(conn.responseDataSizes)) <= Bodies(Tail(queue))
         /\ RestOf(conn.responseDataSizes) \in Seq(Nat)
<1> DEFINE sizes == conn.responseDataSizes
<1>1. queue \in Seq(Tags) /\ sizes \in Seq(Nat) /\ Len(sizes) \in Nat
      /\ (~conn.closed => Len(sizes) <= Bodies(queue))
  <2>1. conn \in Conn /\ queue \in Seq(Tags)
    BY DEF PageInv, TypeOK
  <2>2. sizes \in Seq(Nat)
    BY <2>1, ConnFields
  <2> QED
    BY <2>1, <2>2 DEF PageInv, QueueInv, Fits
<1>2. /\ Bodies(Tail(queue)) \in Nat
      /\ queue[1].tag = "body" => Bodies(queue) = 1 + Bodies(Tail(queue))
      /\ queue[1].tag # "body" => Bodies(queue) = Bodies(Tail(queue))
  BY <1>1, BodiesTail
<1>3. /\ RestOf(sizes) \in Seq(Nat)
      /\ sizes = <<>> => Len(RestOf(sizes)) = 0
      /\ sizes # <<>> => Len(RestOf(sizes)) = Len(sizes) - 1
  BY <1>1 DEF RestOf
<1> HIDE DEF sizes
<1>4. ~conn.closed => Len(RestOf(sizes)) <= Bodies(Tail(queue))
  <2>1. CASE sizes = <<>>
    BY <1>2, <1>3, <2>1
  <2>2. CASE sizes # <<>>
    BY <1>1, <1>2, <1>3, <2>2
  <2> QED
    BY <2>1, <2>2
<1> QED
  BY <1>1, <1>2, <1>3, <1>4 DEF sizes

\* the end of a chunk,
LEMMA ChunkWrittenKeeps ==
  ASSUME PageInv, BetweenBlocks, ChunkWritten, UNCHANGED kills
  PROVE  PageInv'
<1>1. TypeOK /\ conn \in Conn /\ queue # <<>> /\ Head(queue).tag = "more"
  BY DEF PageInv, TypeOK, ChunkWritten
<1>2. /\ queue \in Seq(Tags) /\ Tail(queue) \in Seq(Tags)
      /\ queue[1].tag # "body"
      /\ IsLast(Tail(queue)) => IsLast(queue)
  BY <1>1, FrontIs
<1>3. ~conn.behind => Total(SizesOf(Tail(queue))) <= Chunk
  BY <1>1, TailFits
<1>4. conn.current /\ ~conn.behind => Matched(conn, Tail(queue))
  <2> SUFFICES ASSUME conn.current, ~conn.behind PROVE Matched(conn, Tail(queue))
    OBVIOUS
  <2>1. Matched(conn, queue) /\ conn.responseDataSizes \in Seq(Nat)
    BY <1>1, ConnFields DEF PageInv, QueueInv, Fits
  <2>2. PICK k \in {0, 1} : Paired(queue, conn.responseDataSizes, k)
    BY <2>1 DEF Matched
  <2>3. Paired(Tail(queue), conn.responseDataSizes, 0)
    BY <1>1, <1>2, <2>1, <2>2, PairedMark
  <2>4. Total(SizesOf(Tail(queue))) = Total(SizesOf(queue))
    <3>1. queue[1].size = 0
      BY <1>1, <1>2, FrontIs, TagFields
    <3> QED
      BY <1>1, <1>2, <3>1, SizesTail
  <2> QED
    BY <2>1, <2>3, <2>4 DEF Matched
<1>5. Continue(conn, Tail(queue))
  BY DEF ChunkWritten
<1>6. Fits(conn, Tail(queue))
  BY <1>1, <1>2, <1>3, <1>4, SizesLeft DEF Fits
<1>7. Sends(conn, Tail(queue))
  BY <1>1, <1>2, <1>5, <1>6, Continues
<1>8. search.pc # "idle"
  BY <1>1, NotIdle
<1>9. UNCHANGED <<mDb, storing, search, failed, kills>> /\ SameResponse
  BY <1>1 DEF ChunkWritten, indexVars, SameResponse, TypeOK
<1>10. QueueInv' /\ SameRequest(conn)
  BY <1>7 DEF Sends, QueueInv, BetweenBlocks
<1> QED
  BY <1>2, <1>7, <1>8, <1>9, <1>10, QueueStepKeeps DEF Sends

\* a body,
LEMMA BodyWrittenKeeps ==
  ASSUME PageInv, BetweenBlocks, BodyWritten, UNCHANGED kills
  PROVE  PageInv'
<1>1. /\ TypeOK /\ conn \in Conn /\ queue # <<>> /\ Head(queue).tag = "body"
      /\ queue' = Tail(queue)
      /\ conn' = [conn EXCEPT !.responseDataSizes = RestOf(conn.responseDataSizes)]
  BY DEF PageInv, TypeOK, BodyWritten
<1>2. /\ queue \in Seq(Tags) /\ Tail(queue) \in Seq(Tags)
      /\ queue[1].tag = "body"
      /\ IsLast(Tail(queue)) => IsLast(queue)
  BY <1>1, FrontIs
<1>3. ~conn.behind => Total(SizesOf(Tail(queue))) <= Chunk
  BY <1>1, TailFits
<1>4. conn.responseDataSizes \in Seq(Nat)
  BY <1>1, ConnFields
<1>5. /\ RestOf(conn.responseDataSizes) \in Seq(Nat)
      /\ ~conn.closed => Len(RestOf(conn.responseDataSizes)) <= Bodies(Tail(queue))
  BY <1>1, SizesLeft
<1>6. /\ conn' \in Conn /\ conn'.current = conn.current /\ conn'.headers = conn.headers
      /\ conn'.finished = conn.finished /\ conn'.closed = conn.closed /\ SameRequest(conn)
      /\ conn'.responseDataSizes = RestOf(conn.responseDataSizes)
  BY <1>1, <1>5 DEF Conn, SameRequest
<1>7. conn'.current /\ ~conn.behind => Matched(conn', queue')
  <2> SUFFICES ASSUME conn.current, ~conn.behind PROVE Matched(conn', Tail(queue))
    BY <1>1, <1>6
  <2>1. Matched(conn, queue)
    BY DEF PageInv, QueueInv, Fits
  <2>2. PICK k \in {0, 1} : Paired(queue, conn.responseDataSizes, k)
    BY <2>1 DEF Matched
  <2>3. /\ conn.responseDataSizes # <<>> /\ queue[1].size = conn.responseDataSizes[1]
        /\ Paired(Tail(queue), Tail(conn.responseDataSizes), 1)
    BY <1>1, <1>2, <1>4, <2>2, PairedBody
  <2>4. conn'.responseDataSizes = Tail(conn.responseDataSizes)
    BY <1>6, <2>3 DEF RestOf
  <2>5. /\ queue[1].size \in Nat /\ Total(SizesOf(Tail(queue))) \in Nat
        /\ Total(SizesOf(queue)) = queue[1].size + Total(SizesOf(Tail(queue)))
    BY <1>1, <1>2, SizesTail
  <2>6. /\ Total(Tail(conn.responseDataSizes)) \in Nat
        /\ Total(conn.responseDataSizes)
             = conn.responseDataSizes[1] + Total(Tail(conn.responseDataSizes))
    BY <1>4, <2>3, TotalTail, TotalType
  <2>7. Total(SizesOf(queue)) = Total(conn.responseDataSizes)
    BY <2>1 DEF Matched
  <2>8. Total(SizesOf(Tail(queue))) = Total(Tail(conn.responseDataSizes))
    BY <2>3, <2>5, <2>6, <2>7
  <2> QED
    BY <2>3, <2>4, <2>8 DEF Matched
<1>8. search.pc # "idle"
  BY <1>1, NotIdle
<1>9. UNCHANGED <<mDb, storing, search, failed, kills>> /\ SameResponse /\ sent' = sent
  BY <1>1 DEF BodyWritten, indexVars, SameResponse, TypeOK
<1>10. QueueInv'
  <2>1. Fits(conn', queue')
    BY <1>1, <1>3, <1>5, <1>6, <1>7 DEF Fits, SameRequest
  <2> QED
    BY <1>6, <2>1 DEF QueueInv, BetweenBlocks
<1>11. sent' \in 0..Len(response.dataBuffer) /\ sent' >= sent
  BY <1>1, <1>9 DEF TypeOK
<1> QED
  BY <1>1, <1>2, <1>6, <1>8, <1>9, <1>10, <1>11, QueueStepKeeps

\* the end of a page,
LEMMA LastWrittenKeeps ==
  ASSUME PageInv, LastWritten, UNCHANGED kills
  PROVE  PageInv'
<1> DEFINE c == [conn EXCEPT !.responseDataSizes = RestOf(conn.responseDataSizes),
                             !.current = FALSE, !.finished = TRUE]
<1>1. /\ TypeOK /\ conn \in Conn /\ queue # <<>> /\ Head(queue).tag = "last" /\ sent' = sent
      /\ \/ conn' = [c EXCEPT !.headers = FALSE] /\ queue' = Tail(queue)
         \/ conn.current /\ conn' = [c EXCEPT !.closed = TRUE] /\ queue' = <<>>
      /\ response' = [response EXCEPT !.connection = response.connection /\ ~conn.current]
      /\ response \in Response
  BY DEF PageInv, TypeOK, LastWritten
<1>2. /\ queue \in Seq(Tags) /\ Tail(queue) \in Seq(Tags)
      /\ IsLast(Tail(queue)) => IsLast(queue)
      /\ queue[1].tag = "last"
  BY <1>1, FrontIs
<1>3. IsLast(queue)
  <2>1. 1 \in DOMAIN queue
    BY <1>1, <1>2
  <2> QED
    BY <1>2, <2>1 DEF IsLast
<1>4. ~conn.behind => Total(SizesOf(Tail(queue))) <= Chunk
  BY <1>1, TailFits
<1>5. /\ RestOf(conn.responseDataSizes) \in Seq(Nat)
      /\ ~conn.closed => Len(RestOf(conn.responseDataSizes)) <= Bodies(Tail(queue))
  BY <1>1, SizesLeft
<1>6. /\ c \in Conn /\ ~c.current /\ c.closed = conn.closed /\ c.head = conn.head
      /\ c.behind = conn.behind /\ c.responseDataSizes = RestOf(conn.responseDataSizes)
  BY <1>1, <1>5 DEF Conn
<1> HIDE DEF c
<1>7. search.pc # "idle"
  BY <1>1, NotIdle
<1>8. SameResponse
  BY <1>1 DEF Response, SameResponse
<1>9. UNCHANGED <<mDb, storing, search, failed, kills>>
  BY DEF LastWritten, indexVars
<1>10. sent' \in 0..Len(response.dataBuffer) /\ sent' >= sent
  BY <1>1 DEF TypeOK
<1>11. CASE conn' = [c EXCEPT !.headers = FALSE] /\ queue' = Tail(queue)
  <2>1. /\ conn' \in Conn /\ ~conn'.current /\ SameRequest(conn) /\ conn'.closed = conn.closed
        /\ conn'.responseDataSizes = RestOf(conn.responseDataSizes)
    BY <1>6, <1>11 DEF Conn, SameRequest
  <2>2. Fits(conn', queue')
    BY <1>4, <1>5, <1>11, <2>1 DEF Fits, SameRequest
  <2>3. QueueInv'
    BY <2>1, <2>2 DEF QueueInv
  <2>4. queue' \in Seq(Tags) /\ (IsLast(queue') => IsLast(queue))
    BY <1>2, <1>11
  <2> QED
    BY <1>3, <1>7, <1>8, <1>9, <1>10, <2>1, <2>3, <2>4, QueueStepKeeps
<1>12. CASE conn' = [c EXCEPT !.closed = TRUE] /\ queue' = <<>>
  <2>1. conn' \in Conn /\ ~conn'.current /\ SameRequest(conn) /\ conn'.closed
    BY <1>6, <1>12 DEF Conn, SameRequest
  <2>2. queue' \in Seq(Tags) /\ ~IsLast(queue') /\ Total(SizesOf(queue')) <= Chunk
    BY <1>12, SizesEmpty, PageAssumption DEF IsLast
  <2>3. QueueInv'
    BY <2>1, <2>2 DEF QueueInv, Fits
  <2> QED
    BY <1>3, <1>7, <1>8, <1>9, <1>10, <2>1, <2>2, <2>3, QueueStepKeeps
<1> QED
  BY <1>1, <1>11, <1>12

\* or the end of the connection.
LEMMA DisconnectKeeps ==
  ASSUME PageInv, Disconnect, UNCHANGED kills
  PROVE  PageInv'
<1>1. /\ TypeOK /\ conn \in Conn /\ conn.requests > 0 /\ queue' = <<>> /\ sent' = sent
      /\ conn' = [conn EXCEPT !.current = FALSE, !.closed = TRUE]
      /\ response' = [response EXCEPT !.connection = FALSE]
      /\ response \in Response
  BY DEF PageInv, TypeOK, Disconnect
<1>2. /\ queue' \in Seq(Tags) /\ Total(SizesOf(queue')) = 0
      /\ Total(SizesOf(queue')) <= Chunk
  BY <1>1, SizesEmpty, PageAssumption
<1>3. ~IsLast(queue')
  BY <1>1 DEF IsLast
<1>4. /\ conn' \in Conn /\ ~conn'.current /\ conn'.finished = conn.finished /\ conn'.closed
      /\ SameRequest(conn)
  BY <1>1 DEF Conn, SameRequest
<1>5. search.pc # "idle"
  BY <1>1, NotIdle
<1>6. SameResponse
  BY <1>1 DEF Response, SameResponse
<1>7. UNCHANGED <<mDb, storing, search, failed, kills>>
  BY DEF Disconnect, indexVars
<1>8. sent' \in 0..Len(response.dataBuffer) /\ sent' >= sent
  BY <1>1 DEF TypeOK
<1>9. QueueInv'
  BY <1>2, <1>4 DEF QueueInv, Fits
<1> QED
  BY <1>2, <1>3, <1>4, <1>5, <1>6, <1>7, <1>8, <1>9, QueueStepKeeps

-------------------------------------------------------------------------------
(* The handler queue stores a mail, key by key. *)

\* A step that leaves the page alone, and of the index takes nothing.
LEMMA IndexStepKeeps ==
  ASSUME PageInv, UNCHANGED <<pageVars, kills>>, IndexTypeOK', IndexInv', mDb \subseteq mDb'
  PROVE  PageInv'
<1>1. UNCHANGED <<search, response, conn, queue, sent, failed, kills>>
  BY DEF pageVars
<1>2. TypeOK'
  BY <1>1 DEF PageInv, TypeOK
<1>3. /\ RowCount' = RowCount /\ Snapped' = Snapped /\ Phantoms' = Phantoms
      /\ Listed(2..RowCount + 1)' = Listed(2..RowCount + 1)
  BY <1>1 DEF RowCount, Snapped, Phantoms, Listed
<1>4. BufferInv'
  BY <1>1, <1>3 DEF PageInv, BufferInv, CountInv
<1>5. OrderInv'
  BY <1>1, <1>3 DEF PageInv, OrderInv
<1>6. WholeInv'
  <2>1. \A id \in search.asked : Whole(mDb, search.addr, id) => Whole(mDb', search.addr, id)
    BY DEF Whole, Has
  <2> QED
    BY <1>1, <1>3, <2>1 DEF PageInv, WholeInv
<1>7. LastInv'
  BY <1>1, <1>3 DEF PageInv, LastInv
<1>8. QueueInv'
  BY <1>1 DEF PageInv, QueueInv, Fits, Matched
<1>9. RaisesOnlyOnTornOrPhantom'
  BY <1>1 DEF PageInv, RaisesOnlyOnTornOrPhantom
<1> QED
  BY <1>2, <1>4, <1>5, <1>6, <1>7, <1>8, <1>9 DEF PageInv

LEMMA StoreFields ==
  ASSUME IndexTypeOK, storing # NoMail
  PROVE  /\ storing \in [addr : 1..NAddr, id : 1..NMail, puts : 0..3]
         /\ storing.addr \in 1..NAddr /\ storing.id \in Ids /\ storing.puts \in 0..3
BY DEF IndexTypeOK, Ids

LEMMA BeginsKeeps ==
  ASSUME PageInv, NEW addr \in 1..NAddr, NEW id \in 1..NMail, StoreBegins(addr, id),
         UNCHANGED <<pageVars, kills>>
  PROVE  PageInv'
<1>1. /\ storing' = [addr |-> addr, id |-> id, puts |-> 0] /\ mDb' = mDb
      /\ search' = search
  BY DEF StoreBegins, pageVars
<1>2. IndexTypeOK'
  BY <1>1 DEF PageInv, TypeOK, IndexTypeOK
<1>3. IndexInv'
  <2>1. id \notin Slots
    BY DEF StoreBegins, Slots
  <2>2. /\ storing'.id = id /\ storing'.puts = 0
        /\ ~(storing'.puts >= 1) /\ ~(storing'.puts >= 2)
    BY <1>1
  <2>3. PutsCounted'
    BY <2>1, <2>2 DEF PutsCounted
  <2> QED
    BY <1>1, <2>3 DEF PageInv, IndexInv
<1> QED
  BY <1>1, <1>2, <1>3, IndexStepKeeps

\* An inner address: whose it is, where and how its marker reads.
LEMMA InnerFields ==
  ASSUME NEW b \in DOMAIN Inner
  PROVE  /\ Inner[b].of \in 1..NAddr /\ Inner[b].of \notin DOMAIN Inner
         /\ Inner[b].at \in Ids /\ Inner[b].at \in Slots /\ Inner[b].marker \in MarkerKinds
BY IndexAssumption DEF Ids, Slots

LEMMA FieldsApart ==
  /\ \A f \in {"subject", "sender", "size"} : f \notin MarkerKinds /\ f # "marker"
  /\ "marker" \notin MarkerKinds /\ "alien" \in MarkerKinds
BY DEF MarkerKinds

\* The key of a mail to an address that is not an inner one goes in after those
\* before it,
LEMMA OwnPutKeeps ==
  ASSUME IndexTypeOK, InOrder(mDb), KeysApart(mDb), PutsCounted,
         storing # NoMail, storing.addr \notin DOMAIN Inner, StorePuts
  PROVE  IndexTypeOK' /\ InOrder(mDb') /\ KeysApart(mDb') /\ PutsCounted'
<1>1. storing' = IF storing.puts + 1 = Len(Puts) THEN NoMail
                 ELSE [storing EXCEPT !.puts = storing.puts + 1]
  BY DEF StorePuts
<1> DEFINE a     == storing.addr
           i     == storing.id
           n     == storing.puts
           field == Puts[n + 1]
           key   == KeyOf(a, i, field)
<1>2. /\ storing \in [addr : 1..NAddr, id : 1..NMail, puts : 0..3]
      /\ a \in 1..NAddr /\ i \in Ids /\ n \in 0..3
  BY StoreFields
<1>3. mDb' = mDb \cup {key}
  BY DEF StorePuts
<1>4. /\ n = 0 => field = "subject"
      /\ n = 1 => field = "sender"
      /\ n = 2 => field = "size"
      /\ n = 3 => field = "marker"
      /\ Len(Puts) = 4
  BY DEF Puts
<1>5. n = 0 \/ n = 1 \/ n = 2 \/ n = 3
  BY <1>2
<1>6. MarkerId \in 1..MarkerId /\ \A id \in Ids : id \in 1..MarkerId /\ id # MarkerId
  BY IndexAssumption DEF Ids, MarkerId
<1>7. /\ n = 3 => key = [addr |-> a, id |-> MarkerId, field |-> "marker"]
      /\ n # 3 => key = [addr |-> a, id |-> i, field |-> field]
  <2>1. key = [addr |-> a, id |-> IF field = "marker" THEN MarkerId ELSE i, field |-> field]
    BY DEF KeyOf
  <2> QED
    BY <1>4, <1>5, <2>1
<1> HIDE DEF key, field
<1>8. key \in Key
  BY <1>2, <1>4, <1>5, <1>6, <1>7 DEF Key
<1>9. IndexTypeOK'
  <2>1. mDb' \subseteq Key
    BY <1>3, <1>8 DEF IndexTypeOK
  <2>2. CASE n = 3
    BY <1>1, <1>4, <2>1, <2>2 DEF IndexTypeOK
  <2>3. CASE n # 3
    <3>1. n + 1 \in 0..3 /\ n + 1 # 4
      BY <1>5, <2>3
    <3>2. storing' = [storing EXCEPT !.puts = n + 1]
      BY <1>1, <1>4, <3>1
    <3> QED
      BY <1>2, <2>1, <3>1, <3>2 DEF IndexTypeOK
  <2> QED
    BY <2>2, <2>3
<1>10. InOrder(mDb) /\ KeysApart(mDb) /\ PutsCounted
  OBVIOUS
<1>11. /\ n >= 1 => Has(mDb, a, i, "subject")
       /\ n >= 2 => Has(mDb, a, i, "sender")
  BY DEF PutsCounted
<1>12. ASSUME NEW addr, NEW id, NEW f
       PROVE  Has(mDb', addr, id, f) <=>
                Has(mDb, addr, id, f) \/ key = [addr |-> addr, id |-> id, field |-> f]
  BY <1>3 DEF Has
<1>13. InOrder(mDb')
  <2> SUFFICES ASSUME NEW addr \in 1..NAddr, NEW id \in Ids
               PROVE  /\ Has(mDb', addr, id, "sender") => Has(mDb', addr, id, "subject")
                      /\ Has(mDb', addr, id, "size") => Has(mDb', addr, id, "sender")
    BY DEF InOrder
  <2>1. /\ Has(mDb, addr, id, "sender") => Has(mDb, addr, id, "subject")
        /\ Has(mDb, addr, id, "size") => Has(mDb, addr, id, "sender")
    BY <1>10 DEF InOrder
  <2>2. ASSUME NEW f \in {"sender", "size"}, key = [addr |-> addr, id |-> id, field |-> f]
        PROVE  addr = a /\ id = i /\ f = field /\ n # 3
    BY <1>4, <1>5, <1>7, <2>2
  <2>3. ASSUME key = [addr |-> addr, id |-> id, field |-> "sender"]
        PROVE  Has(mDb, addr, id, "subject")
    BY <1>4, <1>5, <1>11, <2>2, <2>3
  <2>4. ASSUME key = [addr |-> addr, id |-> id, field |-> "size"]
        PROVE  Has(mDb, addr, id, "sender")
    BY <1>4, <1>5, <1>11, <2>2, <2>4
  <2> QED
    BY <1>12, <2>1, <2>3, <2>4
<1>14. KeysApart(mDb')
  <2>1. key.addr \notin DOMAIN Inner /\ key.field \notin MarkerKinds
    BY <1>4, <1>5, <1>7, FieldsApart
  <2>2. key.field # "marker" => key.id \in Ids /\ key.id \notin Slots
    BY <1>2, <1>5, <1>7 DEF PutsCounted
  <2>3. \A k \in mDb : Has(mDb, k.addr, k.id, "alien") => Has(mDb', k.addr, k.id, "alien")
    BY <1>12
  <2>4. ASSUME NEW k \in mDb'
        PROVE  /\ k.addr \notin DOMAIN Inner
               /\ k.field # "marker" => k.id \in Ids
               /\ k.field \in {"subject", "sender", "size"} => k.id \notin Slots
               /\ k.field \in MarkerKinds => k.id \in Slots /\ Has(mDb', k.addr, k.id, "alien")
    <3>1. CASE k \in mDb
      BY <1>10, <2>3, <3>1 DEF KeysApart
    <3>2. CASE k = key
      BY <2>1, <2>2, <3>2
    <3> QED
      BY <1>3, <3>1, <3>2
  <2> QED
    BY <2>4 DEF KeysApart
<1>15. PutsCounted'
  <2>1. CASE n = 3
    BY <1>1, <1>4, <2>1 DEF PutsCounted
  <2>2. CASE n # 3
    <3>1. n + 1 # 4 /\ (n + 1 >= 1 => n = 0 \/ n >= 1) /\ (n + 1 >= 2 => n = 1 \/ n >= 2)
      BY <1>2, <2>2
    <3>2. storing' = [storing EXCEPT !.puts = n + 1]
      BY <1>1, <1>4, <3>1
    <3>3. storing'.addr = a /\ storing'.id = i /\ storing'.puts = n + 1 /\ i \notin Slots
      BY <1>2, <3>2 DEF PutsCounted
    <3>4. Has(mDb', a, i, field)
      BY <1>7, <1>12, <2>2
    <3>5. n + 1 >= 1 => Has(mDb', a, i, "subject")
      BY <1>4, <1>11, <1>12, <3>1, <3>4
    <3>6. n + 1 >= 2 => Has(mDb', a, i, "sender")
      BY <1>4, <1>11, <1>12, <3>1, <3>4
    <3> QED
      BY <3>3, <3>5, <3>6 DEF PutsCounted
  <2> QED
    BY <2>1, <2>2
<1> QED
  BY <1>9, <1>13, <1>14, <1>15

\* and that of one to an inner address among the keys of the outer one.
LEMMA InnerPutKeeps ==
  ASSUME IndexTypeOK, InOrder(mDb), KeysApart(mDb), PutsCounted,
         storing # NoMail, storing.addr \in DOMAIN Inner, StorePuts
  PROVE  IndexTypeOK' /\ InOrder(mDb') /\ KeysApart(mDb') /\ PutsCounted'
<1> DEFINE b     == Inner[storing.addr]
           n     == storing.puts
           kind  == IF Puts[n + 1] = "marker" THEN b.marker ELSE "alien"
           key   == [addr |-> b.of, id |-> b.at, field |-> kind]
<1>1. /\ storing' = IF n + 1 = Len(Puts) THEN NoMail ELSE [storing EXCEPT !.puts = n + 1]
      /\ mDb' = mDb \cup {key}
  BY DEF StorePuts, KeyOf
<1>2. /\ storing \in [addr : 1..NAddr, id : 1..NMail, puts : 0..3] /\ n \in 0..3
  BY StoreFields
<1>3. /\ b.of \in 1..NAddr /\ b.of \notin DOMAIN Inner /\ b.at \in Ids /\ b.at \in Slots
      /\ b.marker \in MarkerKinds
  BY InnerFields
<1>4. Len(Puts) = 4 /\ (Puts[n + 1] = "marker" => n = 3) /\ kind \in MarkerKinds
      /\ (n # 3 => kind = "alien")
  <2>1. n = 0 \/ n = 1 \/ n = 2 \/ n = 3
    BY <1>2
  <2>2. Len(Puts) = 4 /\ (Puts[n + 1] = "marker" => n = 3)
    BY <2>1 DEF Puts
  <2> QED
    BY <1>3, <2>2, FieldsApart
<1> HIDE DEF kind, b
<1>5. key \in Key
  <2>1. b.at \in 1..MarkerId
    BY <1>3, IndexAssumption DEF Ids, MarkerId
  <2> QED
    BY <1>3, <1>4, <2>1 DEF Key
<1>6. key.addr = b.of /\ key.id = b.at /\ key.field = kind
  OBVIOUS
<1>7. n >= 1 => Has(mDb, b.of, b.at, "alien")
  BY DEF PutsCounted, b
<1>8. /\ \A addr, id, f : Has(mDb, addr, id, f) => Has(mDb', addr, id, f)
      /\ \A addr, id, f : Has(mDb', addr, id, f) => Has(mDb, addr, id, f) \/ f = kind
      /\ Has(mDb', b.of, b.at, kind)
  BY <1>1 DEF Has
<1>9. Has(mDb', b.of, b.at, "alien")
  BY <1>2, <1>4, <1>7, <1>8
<1> HIDE DEF key
<1>10. IndexTypeOK'
  <2>1. mDb' \subseteq Key
    BY <1>1, <1>5 DEF IndexTypeOK
  <2>2. CASE n = 3
    BY <1>1, <1>4, <2>1, <2>2 DEF IndexTypeOK
  <2>3. CASE n # 3
    <3>1. n + 1 \in 0..3 /\ n + 1 # 4
      BY <1>2, <2>3
    <3>2. storing' = [storing EXCEPT !.puts = n + 1]
      BY <1>1, <1>4, <3>1
    <3> QED
      BY <1>2, <2>1, <3>1, <3>2 DEF IndexTypeOK
  <2> QED
    BY <2>2, <2>3
<1>11. InOrder(mDb')
  BY <1>4, <1>8, FieldsApart DEF InOrder
<1>12. KeysApart(mDb')
  <2>1. ASSUME NEW k \in mDb'
        PROVE  /\ k.addr \notin DOMAIN Inner
               /\ k.field # "marker" => k.id \in Ids
               /\ k.field \in {"subject", "sender", "size"} => k.id \notin Slots
               /\ k.field \in MarkerKinds => k.id \in Slots /\ Has(mDb', k.addr, k.id, "alien")
    <3>1. CASE k \in mDb
      BY <1>8, <3>1 DEF KeysApart
    <3>2. CASE k = key
      BY <1>3, <1>4, <1>6, <1>9, <3>2, FieldsApart
    <3> QED
      BY <1>1, <3>1, <3>2
  <2> QED
    BY <2>1 DEF KeysApart
<1>13. PutsCounted'
  <2>1. CASE n = 3
    BY <1>1, <1>4, <2>1 DEF PutsCounted
  <2>2. CASE n # 3
    <3>1. n + 1 # 4
      BY <1>2, <2>2
    <3>2. storing' = [storing EXCEPT !.puts = n + 1]
      BY <1>1, <1>4, <3>1
    <3>3. storing'.addr = storing.addr /\ storing'.id = storing.id /\ storing.id \notin Slots
      BY <1>2, <3>2 DEF PutsCounted
    <3> QED
      BY <1>9, <3>3 DEF PutsCounted, b
  <2> QED
    BY <2>1, <2>2
<1> QED
  BY <1>10, <1>11, <1>12, <1>13

LEMMA PutsKeeps ==
  ASSUME PageInv, StorePuts, UNCHANGED <<pageVars, kills>>
  PROVE  PageInv'
<1>1. storing # NoMail /\ search' = search /\ mDb \subseteq mDb'
  BY DEF StorePuts, pageVars
<1>2. IndexTypeOK /\ InOrder(mDb) /\ KeysApart(mDb) /\ PutsCounted
  BY DEF PageInv, TypeOK, IndexInv
<1>3. IndexTypeOK' /\ InOrder(mDb') /\ KeysApart(mDb') /\ PutsCounted'
  BY <1>1, <1>2, OwnPutKeeps, InnerPutKeeps
<1>4. IndexInv'
  BY <1>1, <1>3 DEF PageInv, IndexInv
<1> QED
  BY <1>1, <1>3, <1>4, IndexStepKeeps

-------------------------------------------------------------------------------
(* The request and the walk. *)

LEMMA SearchFields ==
  ASSUME NEW s \in Search
  PROVE  /\ s.pc \in {"idle", "queued", "mails", "foot", "lastfoot", "done"}
         /\ s.addr \in 1..NAddr /\ s.snap \subseteq Key
         /\ s.todo \subseteq Ids /\ s.asked \subseteq Ids
BY DEF Search

LEMMA RowCountIs ==
  ASSUME PageInv
  PROVE  /\ RowCount \in Nat /\ RowCount <= PageSize /\ PageSize \in Nat
         /\ response.emailCount \in Nat
         /\ response.emailCount = 0 => RowCount = 0
<1>1. RowCount \in Nat /\ PageSize \in Nat /\ response.emailCount \in Nat
  BY PageAssumption, ResponseFields DEF PageInv, TypeOK, RowCount
<1>2. RowCount <= PageSize /\ RowCount <= response.emailCount
  BY DEF PageInv, BufferInv, CountInv
<1> QED
  BY <1>1, <1>2

\* The mails walked are those with a key other than a marker, in front of none of
\* an inner address.
LEMMA WalkedHas ==
  ASSUME NEW db \in SUBSET Key, KeysApart(db), NEW addr
  PROVE  /\ Walked(db, addr) \subseteq Ids
         /\ \A id \in Walked(db, addr) :
              /\ ~Hidden(db, addr, id)
              /\ \E f \in {"subject", "sender", "size", "unlike", "socketlike"} :
                   Has(db, addr, id, f)
<1> SUFFICES ASSUME NEW id \in Walked(db, addr)
             PROVE  /\ id \in Ids /\ ~Hidden(db, addr, id)
                    /\ \E f \in {"subject", "sender", "size", "unlike", "socketlike"} :
                         Has(db, addr, id, f)
  OBVIOUS
<1>1. PICK k \in db : /\ k.addr = addr /\ k.field \notin {"marker", "alien"} /\ id = k.id
                      /\ ~Hidden(db, addr, k.id)
  BY DEF Walked
<1>2. id \in Ids
  BY <1>1 DEF KeysApart
<1>3. k \in Key
  BY <1>1
<1>4. k = [addr |-> k.addr, id |-> k.id, field |-> k.field]
      /\ k.field \in {"subject", "sender", "size", "unlike", "socketlike"}
  BY <1>1, <1>3 DEF Key, MarkerKinds
<1>5. Has(db, addr, id, k.field)
  BY <1>1, <1>4 DEF Has
<1> QED
  BY <1>1, <1>2, <1>4, <1>5

LEMMA WholeIsWalked ==
  ASSUME NEW db, NEW addr, NEW id, Whole(db, addr, id), KeysApart(db)
  PROVE  /\ Hidden(db, addr, id) \/ id \in Walked(db, addr)
         /\ ~Has(db, addr, id, "unlike")
<1> DEFINE k == [addr |-> addr, id |-> id, field |-> "subject"]
           m == [addr |-> addr, id |-> MarkerId, field |-> "marker"]
<1>1. k \in db /\ m \in db
  BY DEF Whole, Has
<1>2. /\ k.addr = addr /\ k.field \notin {"marker", "alien"} /\ k.field = "subject"
      /\ k.id = id /\ m.addr = addr /\ m.field = "marker"
  OBVIOUS
<1> HIDE DEF k, m
<1>3. SeekFinds(db, addr)
  BY <1>1, <1>2 DEF SeekFinds
<1>4. addr \notin DOMAIN Inner /\ id \notin Slots
  BY <1>1, <1>2 DEF KeysApart
<1>5. ~Has(db, addr, id, "unlike")
  <2> DEFINE u == [addr |-> addr, id |-> id, field |-> "unlike"]
  <2>1. u.field \in MarkerKinds /\ u.id = id
    BY DEF MarkerKinds
  <2> HIDE DEF u
  <2>2. u \notin db
    BY <1>4, <2>1 DEF KeysApart
  <2> QED
    BY <2>2 DEF Has, u
<1> QED
  BY <1>1, <1>2, <1>3, <1>4, <1>5 DEF Walked

\* The walk ends with the marker of an inner address: the keys of that address
\* are in front of it.
LEMMA PhantomIsLast ==
  ASSUME NEW db \in SUBSET Key, KeysApart(db), NEW addr,
         NEW id \in Walked(db, addr), Has(db, addr, id, "unlike"),
         NEW other \in Walked(db, addr)
  PROVE  id <= other
<1> DEFINE u == [addr |-> addr, id |-> id, field |-> "unlike"]
           k == [addr |-> addr, id |-> id, field |-> "alien"]
<1>1. u \in db /\ u.field \in MarkerKinds /\ u.addr = addr /\ u.id = id
  BY DEF Has, MarkerKinds
<1> HIDE DEF u
<1>2. Has(db, addr, id, "alien")
  BY <1>1 DEF KeysApart
<1>3. k \in db /\ k.addr = addr /\ k.id = id /\ k.field = "alien"
  BY <1>2 DEF Has
<1> HIDE DEF k
<1>4. ~Hidden(db, addr, other)
  BY WalkedHas
<1>5. ~(id > other)
  BY <1>3, <1>4 DEF Hidden
<1>6. id \in Ids /\ other \in Ids
  BY WalkedHas
<1> QED
  BY <1>5, <1>6, IndexAssumption DEF Ids

LEMMA NewestIsThere ==
  ASSUME search.todo \subseteq Ids, search.todo # {}
  PROVE  NextMail \in search.todo /\ \A other \in search.todo : other <= NextMail
<1> DEFINE T == {NMail - t : t \in search.todo}
<1>1. NMail \in Nat /\ \A t \in search.todo : t \in 1..NMail
  BY IndexAssumption DEF Ids
<1>2. T \subseteq Nat /\ T # {}
  BY <1>1
<1>3. PICK n \in T : \A m \in T : n <= m
  BY <1>2, LeastNat
<1>4. PICK id \in search.todo : n = NMail - id
  BY <1>3
<1>5. ASSUME NEW other \in search.todo PROVE other <= id
  <2>1. NMail - other \in T
    OBVIOUS
  <2>2. NMail - id <= NMail - other
    BY <1>3, <1>4, <2>1
  <2> QED
    BY <1>1, <2>2
<1> QED
  BY <1>4, <1>5 DEF NextMail

LEMMA RequestKeeps ==
  ASSUME PageInv, NEW addr \in 1..NAddr, NEW head \in BOOLEAN,
         Request(addr, head), ~failed, UNCHANGED kills
  PROVE  PageInv'
<1>1. /\ TypeOK /\ ~conn.current /\ ~conn.closed /\ conn.requests < MaxRequests
      /\ conn \in Conn /\ conn.responseDataSizes \in Seq(Nat) /\ conn.requests \in 0..MaxRequests
      /\ queue \in Seq(Tags)
  BY ConnFields DEF PageInv, TypeOK, Request
<1> DEFINE asked == {id \in Ids : Whole(mDb, addr, id)}
<1>2. /\ search' = [pc |-> "queued", addr |-> addr, snap |-> {}, todo |-> {}, asked |-> asked]
      /\ response' = [dataBuffer |-> <<HeadPiece>>, mIsDone |-> FALSE, emailCount |-> 0,
                      mResultCount |-> 0, connection |-> TRUE]
      /\ conn' = [NoConn EXCEPT !.current = TRUE, !.head = head, !.behind = queue # <<>>,
                                !.requests = conn.requests + 1,
                                !.responseDataSizes = conn.responseDataSizes]
      /\ sent' = 0
      /\ UNCHANGED <<mDb, storing, queue, failed, kills>>
  BY DEF Request, NoSearch, NoResponse, indexVars
<1>3. conn' = [current |-> TRUE, headers |-> FALSE, wakeups |-> 0,
               responseDataSizes |-> conn.responseDataSizes, finished |-> FALSE,
               closed |-> FALSE, head |-> head, behind |-> queue # <<>>,
               requests |-> conn.requests + 1]
  BY <1>2 DEF NoConn
<1>4. /\ search'.pc = "queued" /\ search'.addr = addr /\ search'.snap = {}
      /\ search'.todo = {} /\ search'.asked = asked
      /\ response'.dataBuffer = <<HeadPiece>> /\ ~response'.mIsDone /\ response'.emailCount = 0
      /\ response'.mResultCount = 0
      /\ conn'.current /\ ~conn'.headers /\ ~conn'.finished /\ ~conn'.closed
      /\ conn'.responseDataSizes = conn.responseDataSizes
  <2>1. /\ search'.pc = "queued" /\ search'.addr = addr /\ search'.snap = {}
        /\ search'.todo = {} /\ search'.asked = asked
    BY <1>2
  <2>2. /\ response'.dataBuffer = <<HeadPiece>> /\ ~response'.mIsDone
        /\ response'.emailCount = 0 /\ response'.mResultCount = 0
    BY <1>2
  <2>3. /\ conn'.current /\ ~conn'.headers /\ ~conn'.finished /\ ~conn'.closed
        /\ conn'.responseDataSizes = conn.responseDataSizes
    BY <1>3
  <2> QED
    BY <2>1, <2>2, <2>3
<1>a. ~conn'.behind => queue = <<>> /\ queue' = <<>>
  <2>1. conn'.behind = (queue # <<>>)
    BY <1>3, Zenon
  <2>2. queue' = queue
    BY <1>2
  <2> QED
    BY <2>1, <2>2
<1>5. HeadPiece \in Piece /\ <<HeadPiece>> \in Seq(Piece) /\ Len(<<HeadPiece>>) = 1
      /\ <<HeadPiece>>[1] = HeadPiece
  BY IndexAssumption DEF Piece, HeadPiece, FootPiece
<1>6. TypeOK'
  <2>1. search' \in Search
    BY <1>2 DEF Search
  <2>2. response' \in Response
    BY <1>2, <1>5 DEF Response
  <2>3. conn' \in Conn
    <3>1. conn.requests + 1 \in 0..MaxRequests
      BY <1>1, PageAssumption
    <3> QED
      BY <1>1, <1>3, <3>1 DEF Conn
  <2>4. sent' \in 0..Len(response'.dataBuffer)
    BY <1>1, <1>2, <1>4, <1>5
  <2>5. IndexTypeOK' /\ queue' \in Seq(Tags) /\ failed' \in BOOLEAN /\ kills' \in 0..MaxKills
    BY <1>1, <1>2 DEF TypeOK, IndexTypeOK
  <2> QED
    BY <2>1, <2>2, <2>3, <2>4, <2>5 DEF TypeOK
<1>7. RowCount' = 0
  BY <1>4 DEF RowCount
<1>8. IndexInv'
  BY <1>2, <1>4 DEF PageInv, IndexInv, PutsCounted, InOrder, KeysApart, Has
<1>9. 2..RowCount' + 1 = {} /\ RowCount' + 1 = 1 /\ RowCount' + 2 = 2
  BY <1>7
<1>10. BufferInv'
  <2>1. \A i \in 2..Len(response'.dataBuffer) : FALSE
    BY <1>4, <1>5
  <2>2. 1 >= 1
    OBVIOUS
  <2>3. CountInv'
    BY <1>4, <1>7, PageAssumption DEF CountInv
  <2> QED
    BY <1>4, <1>5, <1>9, <2>1, <2>2, <2>3 DEF BufferInv
<1>11. OrderInv'
  <2>1. search'.todo \subseteq Snapped'
    BY <1>4
  <2> QED
    BY <1>9, <2>1 DEF OrderInv
<1>12. WholeInv'
  <2>1. \A id \in search'.asked : Whole(mDb', search'.addr, id)
    BY <1>2, <1>4
  <2> QED
    BY <1>4, <2>1 DEF WholeInv
<1>13. LastInv'
  <2>1. ~conn'.behind => ~IsLast(queue')
    BY <1>a DEF IsLast
  <2> QED
    BY <1>4, <2>1 DEF LastInv
<1>14. QueueInv'
  <2>1. Len(conn.responseDataSizes) <= Bodies(queue) /\ queue' = queue
    BY <1>1, <1>2 DEF PageInv, QueueInv, Fits
  <2>2. ASSUME ~conn'.behind
        PROVE  Matched(conn', queue') /\ Total(SizesOf(queue')) <= Chunk /\ queue' = <<>>
    <3>1. queue' = <<>> /\ Total(SizesOf(<<>>)) = 0 /\ Total(<<>>) = 0 /\ 0 <= Chunk
      BY <1>a, <2>2, SizesEmpty, TotalEmpty, PageAssumption
    <3>2. conn.responseDataSizes = <<>>
      <4>1. Len(conn.responseDataSizes) <= 0
        BY <1>a, <2>1, <2>2, BodiesEmpty
      <4> QED
        BY <1>1, <4>1
    <3>3. Paired(<<>>, <<>>, 0)
      <4>1. Len(<<>>) = 2 * Len(<<>>) + 0
        OBVIOUS
      <4> QED
        BY <4>1 DEF Paired
    <3>4. Matched(conn', queue')
      BY <1>4, <3>1, <3>2, <3>3 DEF Matched
    <3> QED
      BY <3>1, <3>4
  <2>3. Fits(conn', queue')
    BY <1>4, <2>1, <2>2 DEF Fits
  <2> QED
    BY <2>2, <2>3 DEF QueueInv
<1>15. RaisesOnlyOnTornOrPhantom'
  BY <1>2 DEF RaisesOnlyOnTornOrPhantom
<1> QED
  BY <1>6, <1>8, <1>10, <1>11, <1>12, <1>13, <1>14, <1>15 DEF PageInv

LEMMA BeginSearchKeeps ==
  ASSUME PageInv, BeginSearch, ~failed, UNCHANGED kills
  PROVE  PageInv'
<1>1. /\ TypeOK /\ search.pc = "queued" /\ search \in Search
      /\ search' = [search EXCEPT !.pc = "mails", !.snap = mDb,
                                  !.todo = Walked(mDb, search.addr)]
      /\ UNCHANGED <<mDb, storing, response, conn, queue, sent, failed, kills>>
      /\ mDb \in SUBSET Key
  BY DEF PageInv, BeginSearch, indexVars, TypeOK, IndexTypeOK
<1>2. /\ search'.pc = "mails" /\ search'.snap = mDb /\ search'.addr = search.addr
      /\ search'.todo = Walked(mDb, search.addr) /\ search'.asked = search.asked
  BY <1>1 DEF Search
<1>3. Walked(mDb, search.addr) \subseteq Ids
  BY <1>1, WalkedHas DEF PageInv, IndexInv
<1>4. search' \in Search
  BY <1>1, <1>3 DEF Search
<1>5. TypeOK'
  BY <1>1, <1>4 DEF TypeOK, IndexTypeOK
<1>6. IndexInv'
  BY <1>1, <1>2 DEF PageInv, IndexInv, PutsCounted
<1>7. /\ response.emailCount = 0 /\ ~response.mIsDone /\ RowCount = 0 /\ RowCount' = 0
  <2>1. response.emailCount = 0 /\ ~response.mIsDone
    BY <1>1 DEF PageInv, WholeInv
  <2> QED
    BY <1>1, <2>1, RowCountIs DEF RowCount
<1>8. /\ Snapped' = search'.todo
      /\ Phantoms' = {id \in Ids : Has(mDb, search.addr, id, "unlike")}
  BY <1>2 DEF Snapped, Phantoms
<1>9. 2..RowCount' + 1 = {}
  BY <1>7
<1>10. BufferInv'
  <2>1. CountInv'
    BY <1>1, <1>7, PageAssumption DEF CountInv
  <2> QED
    BY <1>1, <1>2, <1>7, <2>1 DEF PageInv, BufferInv
<1>11. OrderInv'
  BY <1>8, <1>9 DEF OrderInv
<1>12. WholeInv'
  <2>1. \A id \in search.asked : Whole(mDb, search.addr, id)
    BY <1>1 DEF PageInv, WholeInv
  <2>2. ASSUME NEW id \in search'.asked
        PROVE  Hidden(search'.snap, search'.addr, id) \/ id \in Snapped' \ Phantoms'
    <3>1. Whole(mDb, search.addr, id) /\ KeysApart(mDb)
      BY <1>2, <2>1, <2>2 DEF PageInv, IndexInv
    <3> QED
      BY <1>2, <1>8, <3>1, WholeIsWalked
  <2> QED
    BY <1>1, <1>2, <1>7, <1>8, <2>2 DEF WholeInv
<1>13. LastInv'
  BY <1>1, <1>7 DEF PageInv, LastInv
<1>14. QueueInv'
  BY <1>1 DEF PageInv, QueueInv, Fits, Matched
<1>15. RaisesOnlyOnTornOrPhantom'
  BY <1>1 DEF RaisesOnlyOnTornOrPhantom
<1> QED
  BY <1>5, <1>6, <1>10, <1>11, <1>12, <1>13, <1>14, <1>15 DEF PageInv

\* A step of the walk that leaves the snapshot, and of the mails to come adds none.
SameSnapshot ==
  /\ search' \in Search
  /\ search'.addr = search.addr /\ search'.snap = search.snap /\ search'.asked = search.asked

LEMMA SnapshotKept ==
  ASSUME PageInv, SameSnapshot, UNCHANGED indexVars
  PROVE  IndexInv' /\ Snapped' = Snapped /\ Phantoms' = Phantoms /\ IndexTypeOK'
<1>1. UNCHANGED <<mDb, storing>>
  BY DEF indexVars
<1>2. IndexTypeOK'
  BY <1>1 DEF PageInv, TypeOK, IndexTypeOK
<1>3. Snapped' = Snapped /\ Phantoms' = Phantoms
  BY DEF Snapped, Phantoms, SameSnapshot
<1> QED
  BY <1>1, <1>2, <1>3 DEF PageInv, IndexInv, PutsCounted, SameSnapshot

\* Then the mails asked for are still found in it.
AskedFound ==
  \A id \in search'.asked :
    Hidden(search'.snap, search'.addr, id) \/ id \in Snapped' \ Phantoms'

LEMMA AskedKept ==
  ASSUME PageInv, SameSnapshot, Snapped' = Snapped, Phantoms' = Phantoms, search.pc # "queued"
  PROVE  AskedFound
BY DEF PageInv, WholeInv, SameSnapshot, AskedFound

LEMMA RefuseKeeps ==
  ASSUME PageInv, Refuse, ~failed, UNCHANGED kills
  PROVE  PageInv'
<1>1. /\ TypeOK /\ search.pc = "mails" /\ search \in Search
      /\ search' = [search EXCEPT !.pc = "done"]
      /\ UNCHANGED <<indexVars, response, conn, queue, sent, failed, kills>>
  BY DEF PageInv, Refuse, TypeOK
<1>2. SameSnapshot /\ search'.pc = "done" /\ search'.todo = search.todo
  BY <1>1 DEF Search, SameSnapshot
<1>3. IndexInv' /\ Snapped' = Snapped /\ Phantoms' = Phantoms /\ IndexTypeOK'
  BY <1>1, <1>2, SnapshotKept
<1>4. TypeOK'
  BY <1>1, <1>2, <1>3 DEF TypeOK, SameSnapshot
<1>5. RowCount' = RowCount /\ Listed(2..RowCount + 1)' = Listed(2..RowCount + 1)
  BY <1>1 DEF RowCount, Listed
<1>6. BufferInv'
  BY <1>1, <1>2, <1>5 DEF PageInv, BufferInv, CountInv
<1>7. OrderInv'
  BY <1>1, <1>2, <1>3, <1>5 DEF PageInv, OrderInv
<1>8. WholeInv'
  BY <1>1, <1>2, <1>3, <1>5 DEF PageInv, WholeInv, SameSnapshot
<1>9. LastInv'
  BY <1>1, <1>5 DEF PageInv, LastInv
<1>10. QueueInv'
  BY <1>1 DEF PageInv, QueueInv, Fits, Matched
<1>11. RaisesOnlyOnTornOrPhantom'
  BY <1>1 DEF RaisesOnlyOnTornOrPhantom
<1> QED
  BY <1>3, <1>4, <1>6, <1>7, <1>8, <1>9, <1>10, <1>11 DEF PageInv

\* The mail that raises has a subject and no sender, or is the marker of an inner
\* address that passes for a mail.
LEMMA RaiseKeeps ==
  ASSUME PageInv, ListMail, ~failed, UNCHANGED kills,
         RowRaises(NextMail)
  PROVE  PageInv'
<1>1. /\ search.pc = "mails" /\ search.todo # {}
      /\ failed' = TRUE
      /\ ~Has(search.snap, search.addr, NextMail, "unlike")
      /\ \/ ~Has(search.snap, search.addr, NextMail, "sender")
         \/ ~Has(search.snap, search.addr, NextMail, "subject")
      /\ UNCHANGED <<search, response, conn, indexVars, queue, sent, kills>>
  BY DEF ListMail, RowRaises
<1>2. TypeOK /\ search \in Search
  BY DEF PageInv, TypeOK
<1>3. UNCHANGED <<mDb, storing>>
  BY <1>1 DEF indexVars
<1>4. TypeOK'
  BY <1>1, <1>2, <1>3 DEF TypeOK, IndexTypeOK
<1>5. IndexInv'
  BY <1>1, <1>3 DEF PageInv, IndexInv, PutsCounted
<1>6. /\ RowCount' = RowCount /\ Listed(2..RowCount + 1)' = Listed(2..RowCount + 1)
      /\ Snapped' = Snapped /\ Phantoms' = Phantoms
  BY <1>1 DEF RowCount, Listed, Snapped, Phantoms
<1>7. BufferInv'
  BY <1>1, <1>6 DEF PageInv, BufferInv, CountInv
<1>8. OrderInv'
  BY <1>1, <1>6 DEF PageInv, OrderInv
<1>9. WholeInv'
  BY <1>1, <1>3, <1>6 DEF PageInv, WholeInv
<1>10. LastInv'
  BY <1>1, <1>6 DEF PageInv, LastInv
<1>11. QueueInv'
  BY <1>1 DEF PageInv, QueueInv, Fits, Matched
<1>12. RaisesOnlyOnTornOrPhantom'
  <2> DEFINE db == search.snap
             a  == search.addr
             id == NextMail
  <2>1. id \in search.todo
    BY <1>1, <1>2, SearchFields, NewestIsThere
  <2>2. /\ id \in Walked(db, a) /\ db \in SUBSET Key /\ KeysApart(db) /\ InOrder(db)
        /\ a \in 1..NAddr /\ id \in Ids
    BY <1>2, <2>1, SearchFields DEF PageInv, OrderInv, Snapped, IndexInv
  <2>3. PICK f \in {"subject", "sender", "size", "unlike", "socketlike"} : Has(db, a, id, f)
    BY <2>2, WalkedHas
  <2>4. /\ Has(db, a, id, "sender") => Has(db, a, id, "subject")
        /\ Has(db, a, id, "size") => Has(db, a, id, "sender")
    BY <2>2 DEF InOrder
  <2>5. \/ Has(db, a, id, "subject") /\ ~Has(db, a, id, "sender")
        \/ Has(db, a, id, "socketlike")
    BY <1>1, <2>3, <2>4
  <2> QED
    BY <1>1, <2>1, <2>5 DEF RaisesOnlyOnTornOrPhantom
<1> QED
  BY <1>4, <1>5, <1>7, <1>8, <1>9, <1>10, <1>11, <1>12 DEF PageInv

\* The block of a wake-up is put in the connection's queue.
LEMMA WakeFields ==
  ASSUME PageInv, Wake
  PROVE  /\ conn' \in Conn /\ conn'.current = conn.current /\ conn'.headers = conn.headers
         /\ conn'.finished = conn.finished /\ conn'.closed = conn.closed
         /\ conn'.head = conn.head /\ conn'.behind = conn.behind
         /\ conn'.responseDataSizes = conn.responseDataSizes
<1>1. conn \in Conn
  BY DEF PageInv, TypeOK
<1>2. conn' = [conn EXCEPT !.wakeups = conn.wakeups + 1]
  BY DEF Wake
<1>3. conn.wakeups \in Nat
  BY <1>1 DEF Conn
<1> DEFINE w == conn.wakeups + 1
<1>4. w \in Nat
  BY <1>3
<1> HIDE DEF w
<1>5. conn' = [conn EXCEPT !.wakeups = w]
  BY <1>2 DEF w
<1> QED
  BY <1>1, <1>4, <1>5 DEF Conn

LEMMA WakeKeepsQueue ==
  ASSUME PageInv, Wake \/ conn' = conn, queue' = queue
  PROVE  QueueInv'
<1>1. /\ conn'.current = conn.current /\ conn'.headers = conn.headers
      /\ conn'.responseDataSizes = conn.responseDataSizes
      /\ conn'.closed = conn.closed /\ conn'.behind = conn.behind
  BY WakeFields
<1> QED
  BY <1>1 DEF PageInv, QueueInv, Fits, Matched

LEMMA ListKeeps ==
  ASSUME PageInv, ListMail, ~failed, UNCHANGED kills,
         AppendRow(NextMail)
  PROVE  PageInv'
<1> DEFINE id == NextMail
           buffer == response.dataBuffer
           n == response.emailCount
<1>1. /\ search.pc = "mails" /\ search.todo # {}
      /\ ~(n >= PageSize)
      /\ response' = [response EXCEPT !.emailCount = n + 1,
                                      !.mResultCount = response.mResultCount + 1,
                                      !.dataBuffer = Append(buffer, id)]
      /\ search' = [search EXCEPT !.todo = search.todo \ {id}]
      /\ Wake
      /\ UNCHANGED <<failed, indexVars, queue, sent, kills>>
  BY DEF ListMail, PageFull, AppendRow
<1>2. TypeOK /\ search \in Search /\ response \in Response
  BY DEF PageInv, TypeOK
<1>3. id \in search.todo /\ (\A other \in search.todo : other <= id) /\ id \in Ids
  BY <1>1, <1>2, SearchFields, NewestIsThere
<1>4. /\ SameSnapshot /\ search'.pc = "mails" /\ search'.todo = search.todo \ {id}
  BY <1>1, <1>2 DEF Search, SameSnapshot
<1>5. IndexInv' /\ Snapped' = Snapped /\ Phantoms' = Phantoms /\ IndexTypeOK'
  BY <1>1, <1>4, SnapshotKept
<1>6. /\ n \in Nat /\ n < PageSize /\ PageSize \in Nat
      /\ RowCount = n /\ Len(buffer) = n + 1 /\ buffer \in Seq(Piece)
      /\ buffer[1] = HeadPiece
  <2>1. n \in Nat /\ PageSize \in Nat /\ n < PageSize
    BY <1>1, <1>2, RowCountIs
  <2>2. RowCount = n
    <3>1. n <= PageSize
      BY <2>1
    <3> QED
      BY <1>1, <3>1 DEF PageInv, BufferInv, CountInv
  <2> QED
    BY <1>1, <1>2, <2>1, <2>2, ResponseFields DEF PageInv, BufferInv
<1>7. /\ response'.dataBuffer = Append(buffer, id) /\ response'.emailCount = n + 1
      /\ response'.mIsDone = response.mIsDone /\ response'.connection = response.connection
      /\ response'.mResultCount = n + 1
      /\ response' = [dataBuffer |-> response'.dataBuffer, mIsDone |-> response'.mIsDone,
                      emailCount |-> response'.emailCount,
                      mResultCount |-> response'.mResultCount,
                      connection |-> response'.connection]
  BY <1>1, <1>2, <1>6 DEF Response, RowCount
<1>8. id \in Piece
  BY <1>3, IndexAssumption DEF Ids, Piece, FootPiece
<1>9. /\ Append(buffer, id) \in Seq(Piece) /\ Len(Append(buffer, id)) = n + 2
      /\ \A i \in 1..n + 1 : Append(buffer, id)[i] = buffer[i]
      /\ Append(buffer, id)[n + 2] = id
  BY <1>6, <1>8
<1>10. TypeOK'
  <2>1. response' \in Response
    <3>1. n + 1 \in Nat
      BY <1>6
    <3>2. response'.dataBuffer \in Seq(Piece)
      BY <1>7, <1>9
    <3>3. response.mIsDone \in BOOLEAN /\ response.connection \in BOOLEAN
      BY <1>2, ResponseFields
    <3> HIDE DEF n, buffer, id
    <3> QED
      BY <1>7, <3>1, <3>2, <3>3 DEF Response
  <2>2. conn' \in Conn
    BY <1>1, WakeFields
  <2>3. sent' \in 0..Len(response'.dataBuffer)
    BY <1>1, <1>2, <1>6, <1>7, <1>9 DEF TypeOK
  <2> QED
    BY <1>1, <1>2, <1>4, <1>5, <2>1, <2>2, <2>3 DEF TypeOK, SameSnapshot
<1>11. RowCount' = n + 1
  BY <1>6, <1>7 DEF RowCount
<1> DEFINE new == response'.dataBuffer
<1>12. /\ \A i \in 2..n + 1 : new[i] = buffer[i] /\ buffer[i] \in Ids
       /\ new[n + 2] = id /\ new[1] = HeadPiece /\ Len(new) = n + 2
  <2>1. \A i \in 2..n + 1 : buffer[i] \in Ids
    BY <1>6 DEF PageInv, BufferInv
  <2>2. 1 \in 1..n + 1 /\ \A i \in 2..n + 1 : i \in 1..n + 1
    BY <1>6
  <2> QED
    BY <1>6, <1>7, <1>9, <2>1, <2>2
<1>13. \A i \in 2..n + 2 : i = n + 2 \/ i \in 2..n + 1
  BY <1>6
<1>14. RowCount' + 1 = n + 2 /\ RowCount + 1 = n + 1 /\ RowCount' + 2 = n + 3
  BY <1>6, <1>11
<1>15. BufferInv'
  <2>1. \A i \in 2..RowCount' + 1 : new[i] \in Ids
    BY <1>3, <1>12, <1>13, <1>14
  <2>2. \A i \in RowCount' + 2..Len(new) : new[i] = FootPiece
    BY <1>6, <1>12, <1>14
  <2>3. Len(new) >= RowCount' + 1 /\ Len(new) = RowCount' + 1
    BY <1>6, <1>12, <1>14
  <2>4. CountInv'
    BY <1>6, <1>7, <1>11 DEF CountInv
  <2> QED
    BY <1>4, <1>12, <2>1, <2>2, <2>3, <2>4 DEF BufferInv
<1>16. /\ search.todo \subseteq Snapped
       /\ \A i, j \in 2..n + 1 : i < j => buffer[j] < buffer[i]
       /\ \A i \in 2..n + 1 : \A other \in search.todo : other < buffer[i]
       /\ \A i \in 2..n + 1 : \A other \in Snapped \ Listed(2..n + 1) : other < buffer[i]
       /\ Snapped \subseteq search.todo \cup Listed(2..n + 1) \cup Phantoms
  <2>1. RowCount + 1 = n + 1 /\ n <= PageSize
    BY <1>6, <1>14
  <2> QED
    BY <1>1, <2>1 DEF PageInv, OrderInv, WholeInv
<1>17. Listed(2..RowCount + 1)' = Listed(2..n + 1) \cup {id}
  <2> DEFINE L == {new[i] : i \in 2..n + 2}
  <2>1. Listed(2..RowCount + 1)' = L
    BY <1>14 DEF Listed
  <2>2. \A i \in 2..n + 1 : i \in 2..n + 2 /\ new[i] = buffer[i]
    <3>1. \A i \in 2..n + 1 : i \in 2..n + 2
      BY <1>6
    <3> QED
      BY <1>12, <3>1
  <2>3. n + 2 \in 2..n + 2
    BY <1>6
  <2>4. L = {buffer[i] : i \in 2..n + 1} \cup {id}
    BY <1>12, <1>13, <2>2, <2>3
  <2> QED
    BY <2>1, <2>4 DEF Listed
<1>18. OrderInv'
  <2>1. search'.todo \subseteq Snapped'
    BY <1>4, <1>5, <1>16
  <2>2. ASSUME NEW i \in 2..n + 2, NEW j \in 2..n + 2, i < j PROVE new[j] < new[i]
    <3>1. i \in 2..n + 1
      BY <1>6, <1>13, <2>2
    <3>2. CASE j = n + 2
      BY <1>3, <1>12, <1>16, <3>1, <3>2
    <3>3. CASE j \in 2..n + 1
      BY <1>12, <1>16, <2>2, <3>1, <3>3
    <3> QED
      BY <1>13, <3>2, <3>3
  <2>3. ASSUME NEW other \in search'.todo PROVE other < id
    <3>1. other \in search.todo /\ other # id /\ other <= id /\ other \in Nat /\ id \in Nat
      BY <1>2, <1>3, <1>4, SearchFields DEF Ids
    <3> QED
      BY <3>1
  <2>4. ASSUME NEW i \in 2..n + 2, NEW other \in search'.todo PROVE other < new[i]
    <3>1. CASE i = n + 2
      BY <1>12, <2>3, <3>1
    <3>2. CASE i \in 2..n + 1
      BY <1>4, <1>12, <1>16, <3>2
    <3> QED
      BY <1>13, <3>1, <3>2
  <2>5. ASSUME NEW other \in Snapped \ (Listed(2..n + 1) \cup {id}), other \notin search'.todo
        PROVE  other < id
    <3>1. Has(search.snap, search.addr, other, "unlike")
      BY <1>4, <1>16, <2>5 DEF Phantoms
    <3>2. /\ search.snap \in SUBSET Key /\ KeysApart(search.snap)
          /\ id \in Walked(search.snap, search.addr) /\ other \in Walked(search.snap, search.addr)
      BY <1>2, <1>3, <1>16, SearchFields DEF PageInv, IndexInv, Snapped
    <3>3. other <= id
      BY <3>1, <3>2, PhantomIsLast
    <3>4. other # id /\ other \in Nat /\ id \in Nat
      BY <3>2, WalkedHas DEF Ids
    <3> QED
      BY <3>3, <3>4
  <2>6. ASSUME NEW i \in 2..n + 2, NEW other \in Snapped' \ Listed(2..RowCount + 1)'
        PROVE  other < new[i]
    <3>1. other \in Snapped \ (Listed(2..n + 1) \cup {id})
      BY <1>5, <1>17
    <3>2. CASE i = n + 2
      BY <1>12, <2>3, <2>5, <3>1, <3>2
    <3>3. CASE i \in 2..n + 1
      BY <1>12, <1>16, <3>1, <3>3
    <3> QED
      BY <1>13, <3>2, <3>3
  <2> QED
    BY <1>14, <2>1, <2>2, <2>4, <2>6 DEF OrderInv
<1>19. WholeInv'
  <2>1. Snapped' \subseteq search'.todo \cup Listed(2..RowCount + 1)' \cup Phantoms'
    BY <1>4, <1>5, <1>16, <1>17
  <2>2. AskedFound
    BY <1>1, <1>4, <1>5, AskedKept
  <2>3. ~response.mIsDone
    <3>1. ~(n > PageSize)
      BY <1>6
    <3> QED
      BY <1>1, <3>1 DEF PageInv, WholeInv
  <2> QED
    BY <1>4, <1>7, <2>1, <2>2, <2>3 DEF WholeInv, AskedFound
<1>20. LastInv'
  <2>1. ~response.mIsDone
    <3>1. ~(n > PageSize)
      BY <1>6
    <3> QED
      BY <1>1, <3>1 DEF PageInv, WholeInv
  <2>2. ~conn.head /\ ~conn.behind => ~conn.finished /\ ~IsLast(queue)
    BY <2>1 DEF PageInv, LastInv
  <2>3. /\ conn'.finished = conn.finished /\ queue' = queue
        /\ conn'.head = conn.head /\ conn'.behind = conn.behind
    BY <1>1, WakeFields
  <2> QED
    BY <2>2, <2>3 DEF LastInv
<1>21. QueueInv'
  BY <1>1, WakeKeepsQueue
<1>22. RaisesOnlyOnTornOrPhantom'
  BY <1>1 DEF RaisesOnlyOnTornOrPhantom
<1> QED
  BY <1>5, <1>10, <1>15, <1>18, <1>19, <1>20, <1>21, <1>22 DEF PageInv

\* The marker of an inner address, the last mail of the walk, makes no row.
LEMMA SkipKeeps ==
  ASSUME PageInv, ListMail, ~failed, UNCHANGED kills, NotASocketId(NextMail)
  PROVE  PageInv'
<1> DEFINE id == NextMail
           n  == response.emailCount
<1>1. /\ search.pc = "mails" /\ search.todo # {} /\ ~(n >= PageSize)
      /\ Has(search.snap, search.addr, id, "unlike")
      /\ response' = [response EXCEPT !.emailCount = n + 1]
      /\ search' = [search EXCEPT !.todo = search.todo \ {id}]
      /\ UNCHANGED <<indexVars, conn, failed, queue, sent, kills>>
  BY DEF ListMail, PageFull, NotASocketId
<1>2. TypeOK /\ search \in Search /\ response \in Response
  BY DEF PageInv, TypeOK
<1>3. id \in search.todo /\ (\A other \in search.todo : other <= id) /\ id \in Ids
  BY <1>1, <1>2, SearchFields, NewestIsThere
<1>4. SameSnapshot /\ search'.pc = "mails" /\ search'.todo = search.todo \ {id}
  BY <1>1, <1>2 DEF Search, SameSnapshot
<1>5. IndexInv' /\ Snapped' = Snapped /\ Phantoms' = Phantoms /\ IndexTypeOK'
  BY <1>1, <1>4, SnapshotKept
<1>6. id \in Snapped /\ id \in Phantoms
  BY <1>1, <1>3 DEF PageInv, OrderInv, Phantoms
<1>7. search'.todo = {}
  <2> SUFFICES ASSUME NEW other \in search.todo, other # id PROVE FALSE
    BY <1>4
  <2>1. /\ search.snap \in SUBSET Key /\ KeysApart(search.snap)
        /\ id \in Walked(search.snap, search.addr) /\ other \in Walked(search.snap, search.addr)
    BY <1>2, <1>6, SearchFields DEF PageInv, IndexInv, OrderInv, Snapped
  <2>2. id <= other
    BY <1>1, <2>1, PhantomIsLast
  <2>3. other <= id /\ other \in Nat /\ id \in Nat
    BY <1>2, <1>3, SearchFields DEF Ids
  <2> QED
    BY <2>2, <2>3
<1>8. n \in Nat /\ PageSize \in Nat /\ n + 1 \in Nat /\ n < PageSize /\ RowCount = n
  <2>1. n \in Nat /\ PageSize \in Nat
    BY RowCountIs
  <2>2. n <= PageSize /\ n < PageSize /\ n + 1 \in Nat
    BY <1>1, <2>1
  <2> QED
    BY <1>1, <2>1, <2>2 DEF PageInv, BufferInv, CountInv
<1>9. /\ response' \in Response
      /\ response'.dataBuffer = response.dataBuffer /\ response'.emailCount = n + 1
      /\ response'.mIsDone = response.mIsDone
      /\ response'.mResultCount = response.mResultCount
  BY <1>1, <1>2, <1>8 DEF Response
<1>10. RowCount' = RowCount /\ Listed(2..RowCount + 1)' = Listed(2..RowCount + 1)
  BY <1>9 DEF RowCount, Listed
<1>11. TypeOK'
  BY <1>1, <1>2, <1>4, <1>5, <1>9 DEF TypeOK, SameSnapshot
<1>12. BufferInv'
  <2>1. CountInv'
    BY <1>7, <1>8, <1>9, <1>10 DEF CountInv
  <2>2. n < PageSize => Len(response.dataBuffer) = RowCount + 1
    BY <1>1 DEF PageInv, BufferInv
  <2> QED
    BY <1>1, <1>4, <1>8, <1>9, <1>10, <2>1, <2>2 DEF PageInv, BufferInv
<1>13. OrderInv'
  BY <1>5, <1>7, <1>9, <1>10 DEF PageInv, OrderInv
<1>14. WholeInv'
  <2>1. AskedFound
    BY <1>1, <1>4, <1>5, AskedKept
  <2>2. Snapped' \subseteq search'.todo \cup Listed(2..RowCount + 1)' \cup Phantoms'
    <3>1. n <= PageSize
      BY <1>8
    <3>2. Snapped \subseteq search.todo \cup Listed(2..RowCount + 1) \cup Phantoms
      BY <1>1, <3>1 DEF PageInv, WholeInv
    <3> QED
      BY <1>4, <1>5, <1>6, <1>10, <3>2
  <2> QED
    BY <1>4, <1>7, <2>1, <2>2 DEF WholeInv, AskedFound
<1>15. LastInv'
  BY <1>1, <1>9, <1>10 DEF PageInv, LastInv
<1>16. QueueInv'
  BY <1>1 DEF PageInv, QueueInv, Fits, Matched
<1>17. RaisesOnlyOnTornOrPhantom'
  BY <1>1 DEF RaisesOnlyOnTornOrPhantom
<1> QED
  BY <1>5, <1>11, <1>12, <1>13, <1>14, <1>15, <1>16, <1>17 DEF PageInv

\* A full page drops what the walk still finds.
LEMMA FullPageKeeps ==
  ASSUME PageInv, FullPage, ~failed, UNCHANGED kills
  PROVE  PageInv'
<1> DEFINE n == response.emailCount
<1>1. /\ search.pc = "mails" /\ search.todo # {} /\ n >= PageSize
      /\ response' = [response EXCEPT !.emailCount = n + 1, !.mIsDone = TRUE]
      /\ search' = [search EXCEPT !.pc = "foot", !.todo = search.todo \ {NextMail}]
      /\ UNCHANGED <<indexVars, conn, queue, sent, failed, kills>>
  BY DEF FullPage, PageFull
<1>2. TypeOK /\ search \in Search /\ response \in Response
  BY DEF PageInv, TypeOK
<1>3. /\ SameSnapshot /\ search'.pc = "foot" /\ search'.todo \subseteq search.todo
  BY <1>1, <1>2 DEF Search, SameSnapshot
<1>4. IndexInv' /\ Snapped' = Snapped /\ Phantoms' = Phantoms /\ IndexTypeOK'
  BY <1>1, <1>3, SnapshotKept
<1>5. n \in Nat /\ PageSize \in Nat /\ n + 1 \in Nat /\ n + 1 > PageSize
  BY <1>1, <1>2, RowCountIs
<1>6. /\ response' \in Response
      /\ response'.dataBuffer = response.dataBuffer /\ response'.emailCount = n + 1
      /\ response'.mIsDone /\ response'.mResultCount = response.mResultCount
  BY <1>1, <1>2, <1>5 DEF Response
<1>7. RowCount' = RowCount
  BY <1>6 DEF RowCount
<1>8. Listed(2..RowCount + 1)' = Listed(2..RowCount + 1)
  BY <1>6, <1>7 DEF Listed
<1>9. TypeOK'
  BY <1>1, <1>2, <1>3, <1>4, <1>6 DEF TypeOK, SameSnapshot
<1>10. BufferInv'
  <2>1. CountInv /\ RowCount \in Nat
    BY RowCountIs DEF PageInv, BufferInv
  <2>2. RowCount = PageSize
    BY <1>1, <1>5, <2>1 DEF CountInv
  <2>3. CountInv'
    BY <1>5, <1>6, <1>7, <2>2 DEF CountInv
  <2> QED
    BY <1>1, <1>3, <1>6, <1>7, <2>3 DEF PageInv, BufferInv
<1>11. OrderInv'
  BY <1>3, <1>4, <1>6, <1>7, <1>8 DEF PageInv, OrderInv
<1>12. WholeInv'
  <2>1. AskedFound
    BY <1>1, <1>3, <1>4, AskedKept
  <2>2. ~(response'.emailCount <= PageSize)
    BY <1>5, <1>6
  <2> QED
    BY <1>3, <1>5, <1>6, <2>1, <2>2 DEF WholeInv, AskedFound
<1>13. LastInv'
  BY <1>1, <1>6, <1>7 DEF PageInv, LastInv
<1>14. QueueInv'
  BY <1>1 DEF PageInv, QueueInv, Fits, Matched
<1>15. RaisesOnlyOnTornOrPhantom'
  BY <1>1 DEF RaisesOnlyOnTornOrPhantom
<1> QED
  BY <1>4, <1>9, <1>10, <1>11, <1>12, <1>13, <1>14, <1>15 DEF PageInv

LEMMA EndOfMailsKeeps ==
  ASSUME PageInv, EndOfMails, ~failed, UNCHANGED kills
  PROVE  PageInv'
<1>1. /\ search.pc = "mails" /\ search.todo = {}
      /\ response' = [response EXCEPT !.mIsDone = TRUE]
      /\ search' = [search EXCEPT !.pc = "lastfoot"]
      /\ UNCHANGED <<indexVars, conn, queue, sent, failed, kills>>
  BY DEF EndOfMails
<1>2. TypeOK /\ search \in Search /\ response \in Response
  BY DEF PageInv, TypeOK
<1>3. SameSnapshot /\ search'.pc = "lastfoot" /\ search'.todo = {}
  BY <1>1, <1>2 DEF Search, SameSnapshot
<1>4. IndexInv' /\ Snapped' = Snapped /\ Phantoms' = Phantoms /\ IndexTypeOK'
  BY <1>1, <1>3, SnapshotKept
<1>5. /\ response' \in Response
      /\ response'.dataBuffer = response.dataBuffer
      /\ response'.emailCount = response.emailCount /\ response'.mIsDone
      /\ response'.mResultCount = response.mResultCount
  BY <1>1, <1>2 DEF Response
<1>6. RowCount' = RowCount /\ Listed(2..RowCount + 1)' = Listed(2..RowCount + 1)
  BY <1>5 DEF RowCount, Listed
<1>7. TypeOK'
  BY <1>1, <1>2, <1>3, <1>4, <1>5 DEF TypeOK, SameSnapshot
<1>8. BufferInv'
  BY <1>1, <1>3, <1>5, <1>6 DEF PageInv, BufferInv, CountInv
<1>9. OrderInv'
  BY <1>1, <1>3, <1>4, <1>5, <1>6 DEF PageInv, OrderInv
<1>10. WholeInv'
  <2>1. AskedFound
    BY <1>1, <1>3, <1>4, AskedKept
  <2> QED
    BY <1>1, <1>3, <1>4, <1>5, <1>6, <2>1 DEF PageInv, WholeInv, AskedFound
<1>11. LastInv'
  BY <1>1, <1>5, <1>6 DEF PageInv, LastInv
<1>12. QueueInv'
  BY <1>1 DEF PageInv, QueueInv, Fits, Matched
<1>13. RaisesOnlyOnTornOrPhantom'
  BY <1>1 DEF RaisesOnlyOnTornOrPhantom
<1> QED
  BY <1>4, <1>7, <1>8, <1>9, <1>10, <1>11, <1>12, <1>13 DEF PageInv

\* A footer is behind the rows.
LEMMA FooterKeeps ==
  ASSUME PageInv, AppendFooter, ~failed, UNCHANGED kills
  PROVE  PageInv'
<1> DEFINE buffer == response.dataBuffer
           new    == response'.dataBuffer
<1>1. /\ search.pc \in {"foot", "lastfoot"}
      /\ response' = [response EXCEPT !.dataBuffer = Append(buffer, FootPiece)]
      /\ Wake
      /\ search' = [search EXCEPT !.pc = IF search.pc = "foot" THEN "mails" ELSE "done"]
      /\ UNCHANGED <<indexVars, queue, sent, failed, kills>>
  BY DEF AppendFooter
<1>2. TypeOK /\ search \in Search /\ response \in Response
  BY DEF PageInv, TypeOK
<1>3. /\ SameSnapshot /\ search'.todo = search.todo /\ search'.pc \in {"mails", "done"}
      /\ search'.pc = "mails" => search.pc = "foot"
  BY <1>1, <1>2 DEF Search, SameSnapshot
<1>4. IndexInv' /\ Snapped' = Snapped /\ Phantoms' = Phantoms /\ IndexTypeOK'
  BY <1>1, <1>3, SnapshotKept
<1>5. /\ buffer \in Seq(Piece) /\ Len(buffer) \in Nat
      /\ sent \in 0..Len(buffer) /\ RowCount \in Nat /\ PageSize \in Nat
      /\ response.emailCount \in Nat
      /\ Len(buffer) >= RowCount + 1 /\ buffer[1] = HeadPiece
      /\ \A i \in 2..RowCount + 1 : buffer[i] \in Ids
      /\ \A i \in RowCount + 2..Len(buffer) : buffer[i] = FootPiece
  BY <1>1, <1>2, ResponseFields, RowCountIs DEF PageInv, BufferInv, TypeOK
<1>6. FootPiece \in Piece
  BY IndexAssumption DEF Piece, FootPiece
<1>7. /\ Append(buffer, FootPiece) \in Seq(Piece)
      /\ Len(Append(buffer, FootPiece)) = Len(buffer) + 1
      /\ \A i \in 1..Len(buffer) : Append(buffer, FootPiece)[i] = buffer[i]
      /\ Append(buffer, FootPiece)[Len(buffer) + 1] = FootPiece
  BY <1>5, <1>6
<1>8. /\ response' \in Response /\ new = Append(buffer, FootPiece)
      /\ response'.emailCount = response.emailCount /\ response'.mIsDone = response.mIsDone
      /\ response'.mResultCount = response.mResultCount
  BY <1>1, <1>2, <1>7 DEF Response
<1>9. RowCount' = RowCount
  BY <1>8 DEF RowCount
<1>10. \A i \in 2..RowCount + 1 : new[i] = buffer[i]
  <2>1. \A i \in 2..RowCount + 1 : i \in 1..Len(buffer)
    BY <1>5
  <2> QED
    BY <1>7, <1>8, <2>1
<1>11. Listed(2..RowCount + 1)' = Listed(2..RowCount + 1)
  <2>1. {new[i] : i \in 2..RowCount + 1} = {buffer[i] : i \in 2..RowCount + 1}
    BY <1>10
  <2> QED
    BY <1>9, <2>1 DEF Listed
<1>12. TypeOK'
  <2>1. conn' \in Conn
    BY <1>1, WakeFields
  <2>2. sent' \in 0..Len(new)
    BY <1>1, <1>5, <1>7, <1>8
  <2> QED
    BY <1>1, <1>2, <1>3, <1>4, <1>8, <2>1, <2>2 DEF TypeOK, SameSnapshot
<1>13. BufferInv'
  <2>1. Len(new) >= RowCount + 1 /\ new[1] = HeadPiece
    BY <1>5, <1>7, <1>8
  <2>2. \A i \in 2..RowCount + 1 : new[i] \in Ids
    BY <1>5, <1>10
  <2>3. ASSUME NEW i \in RowCount + 2..Len(new) PROVE new[i] = FootPiece
    <3>1. CASE i = Len(buffer) + 1
      BY <1>7, <1>8, <3>1
    <3>2. CASE i # Len(buffer) + 1
      <4>1. i \in RowCount + 2..Len(buffer) /\ i \in 1..Len(buffer)
        BY <1>5, <1>7, <1>8, <3>2
      <4> QED
        BY <1>5, <1>7, <1>8, <4>1
    <3> QED
      BY <3>1, <3>2
  <2>4. search'.pc = "mails" => ~(response'.emailCount < PageSize)
    <3>1. search.pc = "foot" => response.emailCount > PageSize
      BY DEF PageInv, WholeInv
    <3> QED
      BY <1>3, <1>5, <1>8, <3>1
  <2>5. CountInv'
    BY <1>3, <1>8, <1>9 DEF PageInv, BufferInv, CountInv
  <2> QED
    BY <1>3, <1>9, <2>1, <2>2, <2>3, <2>4, <2>5 DEF BufferInv
<1>14. OrderInv'
  BY <1>3, <1>4, <1>9, <1>10, <1>11 DEF PageInv, OrderInv
<1>15. WholeInv'
  <2>1. AskedFound
    BY <1>1, <1>3, <1>4, AskedKept
  <2> QED
    BY <1>1, <1>3, <1>4, <1>8, <1>9, <1>11, <2>1 DEF PageInv, WholeInv, AskedFound
<1>16. LastInv'
  BY <1>1, <1>8, <1>9, WakeFields DEF PageInv, LastInv
<1>17. QueueInv'
  BY <1>1, WakeKeepsQueue
<1>18. RaisesOnlyOnTornOrPhantom'
  BY <1>1 DEF RaisesOnlyOnTornOrPhantom
<1> QED
  BY <1>4, <1>12, <1>13, <1>14, <1>15, <1>16, <1>17, <1>18 DEF PageInv

-------------------------------------------------------------------------------
(* The beginning, and a beginning again. *)

LEMMA BlankTypes ==
  /\ NoSearch \in Search /\ NoResponse \in Response /\ NoConn \in Conn
  /\ <<>> \in Seq(Tags) /\ 0 \in 0..Len(NoResponse.dataBuffer)
  /\ Fits(NoConn, <<>>)
<1>1. NoSearch \in Search
  BY IndexAssumption DEF NoSearch, Search
<1>2. NoResponse \in Response /\ 0 \in 0..Len(NoResponse.dataBuffer)
  BY DEF NoResponse, Response
<1>3. NoConn \in Conn
  BY PageAssumption DEF NoConn, Conn
<1>4. Fits(NoConn, <<>>)
  <2>1. ~NoConn.current /\ NoConn.responseDataSizes = <<>> /\ Len(<<>>) = 0
    BY DEF NoConn
  <2> QED
    BY <2>1, SizesEmpty, BodiesEmpty, PageAssumption DEF Fits
<1> QED
  BY <1>1, <1>2, <1>3, <1>4, SizesEmpty

LEMMA InitPage == Init => PageInv
<1> SUFFICES ASSUME Init PROVE PageInv
  OBVIOUS
<1>1. /\ mDb = {} /\ storing = NoMail
      /\ search = NoSearch /\ response = NoResponse /\ conn = NoConn
      /\ queue = <<>> /\ sent = 0 /\ failed = FALSE /\ kills = 0
  BY DEF Init, IndexInit
<1>2. /\ search.pc = "idle" /\ search.snap = {} /\ search.todo = {} /\ search.asked = {}
      /\ response.dataBuffer = <<>> /\ response.emailCount = 0 /\ ~response.mIsDone
      /\ response.mResultCount = 0
      /\ ~conn.current /\ ~conn.finished
  BY <1>1 DEF NoSearch, NoResponse, NoConn
<1>3. TypeOK
  <2>1. kills \in 0..MaxKills
    BY <1>1, PageAssumption
  <2>2. IndexTypeOK
    BY <1>1 DEF IndexTypeOK
  <2> QED
    BY <1>1, <2>1, <2>2, BlankTypes DEF TypeOK
<1>4. RowCount = 0 /\ 2..RowCount + 1 = {} /\ RowCount + 2 = 2
  BY <1>2 DEF RowCount
<1>5. Snapped = {}
  BY <1>2 DEF Snapped, Walked
<1>6. IndexInv
  BY <1>1, <1>2 DEF IndexInv, InOrder, KeysApart, PutsCounted, Has
<1>7. BufferInv
  <2>1. 2..Len(response.dataBuffer) = {}
    BY <1>2
  <2>2. CountInv
    BY <1>2, <1>4, PageAssumption DEF CountInv
  <2> QED
    BY <1>1, <1>2, <1>4, <2>1, <2>2 DEF BufferInv
<1>8. OrderInv
  BY <1>2, <1>4 DEF OrderInv
<1>9. WholeInv
  BY <1>2, <1>5 DEF WholeInv
<1>10. LastInv
  BY <1>1, <1>2 DEF LastInv, IsLast
<1>11. QueueInv
  BY <1>1, <1>2, BlankTypes DEF QueueInv
<1>12. RaisesOnlyOnTornOrPhantom
  BY <1>1 DEF RaisesOnlyOnTornOrPhantom
<1> QED
  BY <1>3, <1>6, <1>7, <1>8, <1>9, <1>10, <1>11, <1>12 DEF PageInv

LEMMA RestartKeeps ==
  ASSUME PageInv, Restart
  PROVE  PageInv'
<1>1. /\ kills < MaxKills /\ kills' = kills + 1 /\ mDb' = mDb /\ storing' = NoMail
      /\ search' = NoSearch /\ response' = NoResponse /\ conn' = NoConn
      /\ queue' = <<>> /\ sent' = 0 /\ failed' = FALSE
  BY DEF Restart
<1>2. /\ search'.pc = "idle" /\ search'.snap = {} /\ search'.todo = {} /\ search'.asked = {}
      /\ response'.dataBuffer = <<>> /\ response'.emailCount = 0 /\ ~response'.mIsDone
      /\ response'.mResultCount = 0
      /\ ~conn'.current /\ ~conn'.finished
  BY <1>1 DEF NoSearch, NoResponse, NoConn
<1>3. TypeOK'
  <2>1. kills \in 0..MaxKills
    BY DEF PageInv, TypeOK
  <2>2. kills' \in 0..MaxKills
    BY <1>1, <2>1, PageAssumption
  <2>3. IndexTypeOK'
    BY <1>1 DEF PageInv, TypeOK, IndexTypeOK
  <2> QED
    BY <1>1, <2>2, <2>3, BlankTypes DEF TypeOK
<1>4. RowCount' = 0 /\ 2..RowCount' + 1 = {} /\ RowCount' + 2 = 2
  BY <1>2 DEF RowCount
<1>5. Snapped' = {}
  BY <1>2 DEF Snapped, Walked
<1>6. IndexInv'
  BY <1>1, <1>2 DEF PageInv, IndexInv, InOrder, KeysApart, PutsCounted, Has
<1>7. BufferInv'
  <2>1. 2..Len(response'.dataBuffer) = {}
    BY <1>2
  <2>2. CountInv'
    BY <1>2, <1>4, PageAssumption DEF CountInv
  <2> QED
    BY <1>1, <1>2, <1>4, <2>1, <2>2 DEF BufferInv
<1>8. OrderInv'
  BY <1>2, <1>4 DEF OrderInv
<1>9. WholeInv'
  BY <1>2, <1>5 DEF WholeInv
<1>10. LastInv'
  BY <1>1, <1>2 DEF LastInv, IsLast
<1>11. QueueInv'
  BY <1>1, <1>2, BlankTypes DEF QueueInv
<1>12. RaisesOnlyOnTornOrPhantom'
  BY <1>1 DEF RaisesOnlyOnTornOrPhantom
<1> QED
  BY <1>3, <1>6, <1>7, <1>8, <1>9, <1>10, <1>11, <1>12 DEF PageInv

LEMMA StutterKeeps ==
  ASSUME PageInv, UNCHANGED vars
  PROVE  PageInv'
<1>1. /\ UNCHANGED <<mDb, storing, search, response, conn, queue, sent, failed, kills>>
      /\ UNCHANGED <<pageVars, kills>>
  BY DEF vars, pageVars
<1>2. IndexTypeOK' /\ IndexInv'
  BY <1>1 DEF PageInv, TypeOK, IndexTypeOK, IndexInv, PutsCounted, InOrder, KeysApart
<1> QED
  BY <1>1, <1>2, IndexStepKeeps

LEMMA PageNextKeeps == PageInv /\ [Next]_vars => PageInv'
<1> SUFFICES ASSUME PageInv, [Next]_vars PROVE PageInv'
  OBVIOUS
<1>1. CASE Store
  BY <1>1, BeginsKeeps, PutsKeeps DEF Store, Storing
<1>2. CASE Ask
  BY <1>2, RequestKeeps DEF Ask
<1>3. CASE Find
  <2>1. CASE ListMail
    <3>1. ~failed /\ UNCHANGED kills
      BY <1>3 DEF Find
    <3>2. AppendRow(NextMail) \/ NotASocketId(NextMail) \/ RowRaises(NextMail)
      BY <2>1 DEF ListMail
    <3> QED
      BY <2>1, <3>1, <3>2, ListKeeps, SkipKeeps, RaiseKeeps
  <2> QED
    BY <1>3, <2>1, BeginSearchKeeps, RefuseKeeps, FullPageKeeps, EndOfMailsKeeps, FooterKeeps
       DEF Find, Searching
<1>4. CASE Send
  BY <1>4, HeadersKeep, WakeupKeeps DEF Send, Sending
<1>5. CASE Write
  BY <1>5, BodyWrittenKeeps, ChunkWrittenKeeps, LastWrittenKeeps, DisconnectKeeps
     DEF Write, Written
<1>6. CASE Restart
  BY <1>6, RestartKeeps
<1>7. CASE UNCHANGED vars
  BY <1>7, StutterKeeps
<1> QED
  BY <1>1, <1>2, <1>3, <1>4, <1>5, <1>6, <1>7 DEF Next

LEMMA PageKept == Spec => []PageInv
BY InitPage, PageNextKeeps, PTL DEF Spec

-------------------------------------------------------------------------------
(* What the invariant says. *)

LEMMA RowsAre ==
  ASSUME PageInv
  PROVE  Rows = 2..RowCount + 1
<1> DEFINE buffer == response.dataBuffer
<1>1. /\ TypeOK /\ response \in Response
      /\ \A i \in 2..RowCount + 1 : buffer[i] \in Ids
      /\ \A i \in RowCount + 2..Len(buffer) : buffer[i] = FootPiece
      /\ search.pc = "idle" => buffer = <<>> /\ RowCount = 0
      /\ search.pc # "idle" => Len(buffer) >= RowCount + 1 /\ buffer[1] = HeadPiece
  <2>1. search.pc = "idle" => buffer = <<>> /\ RowCount = 0
    BY DEF PageInv, BufferInv, NoResponse, RowCount
  <2> QED
    BY <2>1 DEF PageInv, BufferInv, TypeOK
<1>2. RowCount \in Nat /\ buffer \in Seq(Piece) /\ Len(buffer) \in Nat /\ DOMAIN buffer = 1..Len(buffer)
  BY <1>1, RowCountIs, ResponseFields
<1>3. HeadPiece \notin Ids /\ FootPiece \notin Ids
  BY IndexAssumption DEF HeadPiece, FootPiece, Ids
<1>4. CASE search.pc = "idle"
  <2>1. DOMAIN buffer = {} /\ 2..RowCount + 1 = {}
    BY <1>1, <1>2, <1>4
  <2> QED
    BY <2>1 DEF Rows
<1>5. CASE search.pc # "idle"
  <2>1. 2..RowCount + 1 \subseteq Rows
    <3>1. \A i \in 2..RowCount + 1 : i \in DOMAIN buffer
      BY <1>1, <1>2, <1>5
    <3> QED
      BY <1>1, <3>1 DEF Rows
  <2>2. ASSUME NEW i \in Rows PROVE i \in 2..RowCount + 1
    <3>1. i \in 1..Len(buffer) /\ buffer[i] \in Ids
      BY <1>2 DEF Rows
    <3>2. i # 1 /\ i \notin RowCount + 2..Len(buffer)
      BY <1>1, <1>3, <1>5, <3>1
    <3> QED
      BY <1>2, <3>1, <3>2
  <2> QED
    BY <2>1, <2>2
<1> QED
  BY <1>4, <1>5

LEMMA RowsCounted ==
  ASSUME PageInv
  PROVE  IsFiniteSet(Rows) /\ Cardinality(Rows) = RowCount /\ RowCount <= PageSize
<1>1. RowCount \in Nat /\ RowCount <= PageSize
  BY RowCountIs
<1>2. /\ IsFiniteSet(2..RowCount + 1)
      /\ Cardinality(2..RowCount + 1) = IF 2 > RowCount + 1 THEN 0 ELSE RowCount + 1 - 2 + 1
  BY <1>1, FS_Interval
<1> QED
  BY <1>1, <1>2, RowsAre

LEMMA NewestFollows == PageInv => PageIsNewest
<1> SUFFICES ASSUME PageInv PROVE PageIsNewest
  OBVIOUS
<1>1. Rows = 2..RowCount + 1 /\ Cardinality(Rows) <= PageSize
  BY RowsAre, RowsCounted
<1>2. /\ \A i, j \in Rows : i < j => response.dataBuffer[j] < response.dataBuffer[i]
      /\ \A i \in Rows : \A id \in Snapped \ Listed(Rows) : id < response.dataBuffer[i]
  BY <1>1 DEF PageInv, OrderInv
<1>3. ASSUME NEW id \in Snapped, NEW row \in Listed(Rows), id > row
      PROVE  id \in Listed(Rows)
  <2> SUFFICES ASSUME id \notin Listed(Rows) PROVE FALSE
    OBVIOUS
  <2>1. PICK i \in Rows : row = response.dataBuffer[i]
    BY DEF Listed
  <2>2. id < row
    BY <1>2, <2>1
  <2>3. row \in Ids /\ id \in Ids
    <3>1. row \in Ids
      BY <2>1 DEF Rows
    <3>2. search.snap \in SUBSET Key /\ KeysApart(search.snap)
      BY SearchFields DEF PageInv, TypeOK, IndexInv
    <3>3. id \in Ids
      BY <3>2, WalkedHas DEF Snapped
    <3> QED
      BY <3>1, <3>3
  <2> QED
    BY <1>3, <2>2, <2>3 DEF Ids
<1> QED
  BY <1>1, <1>2, <1>3 DEF PageIsNewest, Snapped

LEMMA CompleteFollows == PageInv => PageIsComplete
<1> SUFFICES ASSUME PageInv, conn.finished, ~conn.head, ~conn.behind,
                    NEW id \in search.asked \ SentRows,
                    ~Hidden(search.snap, search.addr, id)
             PROVE  Cardinality(SentRows) = PageSize /\ \A other \in SentRows : id < other
  BY DEF PageIsComplete
<1>1. response.mIsDone /\ sent >= RowCount + 1
  BY DEF PageInv, LastInv
<1>2. Rows = 2..RowCount + 1 /\ RowCount \in Nat /\ sent \in Nat
  BY RowsAre, RowCountIs, ResponseFields DEF PageInv, TypeOK
<1>3. SentRows = Listed(Rows)
  <2>1. {i \in Rows : i <= sent} = Rows
    BY <1>1, <1>2
  <2> QED
    BY <2>1 DEF SentRows
<1>4. search.pc # "queued"
  BY <1>1 DEF PageInv, WholeInv
<1>5. id \in Snapped \ Listed(Rows) /\ id \notin Phantoms
  BY <1>3, <1>4 DEF PageInv, WholeInv
<1>6. \A other \in SentRows : id < other
  BY <1>2, <1>3, <1>5 DEF PageInv, OrderInv, Listed
<1>7. RowCount = PageSize
  <2>1. ~(response.emailCount <= PageSize)
    <3> SUFFICES ASSUME response.emailCount <= PageSize PROVE FALSE
      OBVIOUS
    <3>1. id \in search.todo
      BY <1>2, <1>4, <1>5 DEF PageInv, WholeInv
    <3>2. response.emailCount > PageSize
      BY <1>1, <3>1 DEF PageInv, WholeInv
    <3>3. response.emailCount \in Nat /\ PageSize \in Nat
      BY RowCountIs
    <3> QED
      BY <3>2, <3>3
  <2>2. response.emailCount > PageSize
    BY <2>1, RowCountIs
  <2> QED
    BY <2>2 DEF PageInv, BufferInv, CountInv
<1>8. Cardinality(Listed(Rows)) = RowCount
  <2> DEFINE f == [i \in Rows |-> response.dataBuffer[i]]
             T == Listed(Rows)
  <2>1. f \in Surjection(Rows, T)
    BY DEF Surjection, Listed
  <2>2. ASSUME NEW i \in Rows, NEW j \in Rows, f[i] = f[j] PROVE i = j
    <3>1. /\ i < j => response.dataBuffer[j] < response.dataBuffer[i]
          /\ j < i => response.dataBuffer[i] < response.dataBuffer[j]
      BY <1>2 DEF PageInv, OrderInv
    <3>2. response.dataBuffer[i] = response.dataBuffer[j] /\ response.dataBuffer[i] \in Nat
      BY <2>2, IndexAssumption DEF Rows, Ids
    <3>3. i \in Nat /\ j \in Nat
      BY <1>2
    <3> QED
      BY <3>1, <3>2, <3>3
  <2>3. f \in Injection(Rows, T)
    <3>1. f \in [Rows -> T]
      BY <2>1 DEF Surjection
    <3> HIDE DEF f, T
    <3> QED
      BY <2>2, <3>1 DEF Injection, IsInjective
  <2>4. IsFiniteSet(Rows) /\ Cardinality(Rows) = RowCount
    BY RowsCounted
  <2> HIDE DEF f, T
  <2>5. Cardinality(T) = Cardinality(Rows) <=> f \in Injection(Rows, T)
    BY <2>1, <2>4, FS_Surjection
  <2> QED
    BY <2>3, <2>4, <2>5 DEF T
<1> QED
  BY <1>3, <1>6, <1>7, <1>8

LEMMA BoundFollows == PageInv => WriteQueueBounded
BY DEF PageInv, QueueInv, Fits, SizesOf, WriteQueueBounded

\* In every behaviour the page, its response and the write queue are what they
\* are declared to be; no more is sent than was appended
\* (HTTPEmailSearchResponse's readDataOfLength).
THEOREM PageTyped == Spec => []TypeOK
<1>1. PageInv => TypeOK
  BY DEF PageInv
<1> QED
  BY <1>1, PageKept, PTL

\* However wake-ups, written chunks and the search interleave, and whatever pages
\* the connection had before, no more than a chunk's worth is in the write queue
\* of a page that finds it empty (continueSendingStandardResponseBody).
THEOREM WriteQueueStaysBounded == Spec => []WriteQueueBounded
BY PageKept, BoundFollows, PTL

\* Mails may be stored while the page is made, and the process restarted: the
\* page lists the newest mails of its snapshot, newest first (emailsForAddress,
\* HTTPEmailSearchResponse's handler).
THEOREM PageStaysNewest == Spec => []PageIsNewest
BY PageKept, NewestFollows, PTL

\* A finished page has every mail that was wholly stored at the request and that
\* no inner address hides, or PageSize newer ones, although it ends with whatever
\* chunk found it done (HTTPEmailSearchResponse's isDone): unless it came before
\* the end of the page before it was written.
THEOREM PageStaysComplete == Spec => []PageIsComplete
BY PageKept, CompleteFollows, PTL

\* Nothing but a mail whose storing was cut off after its subject, or the marker of
\* an inner address that reads as the key of a mail, makes the handler raise
\* (handleEmailWithSocket's order of puts, emailsForAddress's split of the keys).
THEOREM OnlyTornOrPhantomRaises == Spec => []RaisesOnlyOnTornOrPhantom
<1>1. PageInv => RaisesOnlyOnTornOrPhantom
  BY DEF PageInv
<1> QED
  BY <1>1, PageKept, PTL
================================================================================
