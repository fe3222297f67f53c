----------------------------- MODULE PartsProofs -----------------------------
(***************************************************************************)
(* What TLAPS proves about three parts that run by themselves: the         *)
(* geocoder's cache, for any number of blocks, addresses and restarts; an  *)
(* application's set-up of libEmailz, for any handlers, connections and    *)
(* order of calls; and the search for an address among the keys of the     *)
(* email database, for any addresses and any mails stored.                 *)
(***************************************************************************)
EXTENDS Geocoder, Registration, MailKeys, TextFacts, FiniteSetTheorems

-------------------------------------------------------------------------------
(***************************************************************************)
(* Keys and values.                                                        *)
(***************************************************************************)
LEMMA KeysAre ==
  /\ Len(Keys) = 6
  /\ Keys[1] = "city" /\ Keys[2] = "state" /\ Keys[3] = "country" /\ Keys[4] = "code"
  /\ Keys[5] = "latitude" /\ Keys[6] = "longitude"
BY DEF Keys

\* Each key stands at one place.
LEMMA KeysDiffer ==
  /\ \A i \in 1..6 : Keys[i] \in Names \cup Coordinates
  /\ \A i \in 1..6 : Keys[i] \in Names <=> i <= 4
  /\ \A i, j \in 1..6 : Keys[i] = Keys[j] => i = j
  /\ \A k \in Names : \E i \in 1..4 : k = Keys[i]
BY KeysAre DEF Names, Coordinates

\* What is put is not nil, neither is what is asked for.
LEMMA ValueTypes ==
  /\ \A x \in Name : Stored(x) \in Name \ {nil}
  /\ \A n \in NamesFound : Question(n) \in Place
  /\ \A p \in Place : p # nil
BY GeocodeAssumption, PlaceAssumption DEF Name, Stored, NamesFound, Question, Place, Names

LEMMA MaxRestartsType == MaxRestarts \in Nat
BY GeocodeAssumption

LEMMA IdleType == Idle \in Block
<1>1. (CHOOSE a \in Address : TRUE) \in Address
  BY GeocodeAssumption
<1>2. [k \in Names |-> nil] \in NamesFound
  BY DEF NamesFound, Name
<1>3. [k \in Coordinates |-> nil] \in [Coordinates -> Place \cup {nil}]
  OBVIOUS
<1> QED
  BY <1>1, <1>2, <1>3, KeysAre DEF Idle, Block

\* The names after an answer of hostip.info and the allocation's country.
LEMMA AnswerTypes ==
  ASSUME NEW g \in Geocode, NEW n \in NamesFound, NEW m \in HostInfo(g, n)
  PROVE  m \in NamesFound /\ WithAllocation(m) \subseteq NamesFound
<1>1. m \in NamesFound
  BY DEF HostInfo
<1>2. \A x, y \in Name : [m EXCEPT !.country = x, !.code = y] \in NamesFound
  BY <1>1 DEF NamesFound
<1>3. nil \in Name /\ Allocated \in Name
  BY DEF Name
<1>4. /\ [m EXCEPT !.country = Allocated, !.code = Allocated] \in NamesFound
      /\ [m EXCEPT !.country = nil, !.code = Allocated] \in NamesFound
      /\ [m EXCEPT !.country = nil, !.code = nil] \in NamesFound
  BY <1>2, <1>3
<1>5. ASSUME NEW w \in WithAllocation(m)
      PROVE  \/ w = [m EXCEPT !.country = Allocated, !.code = Allocated]
             \/ w = [m EXCEPT !.country = nil, !.code = Allocated]
             \/ w = [m EXCEPT !.country = nil, !.code = nil]
             \/ w = m
  BY <1>5, Zenon DEF WithAllocation
<1> QED
  BY <1>1, <1>4, <1>5
\* What block g puts under key i.
Value(g, i) == IF i <= 4 THEN Stored(block[g].got[Keys[i]]) ELSE block[g].place[Keys[i]]

-------------------------------------------------------------------------------
(***************************************************************************)
(* The inductive invariant.  The three parts of CacheIsSound are about     *)
(* entries that are complete; to be kept by a put they need to be known of *)
(* entries half put too: which block is putting them, what is there        *)
(* already, that the rest is still missing, and what readers hold of them. *)
(***************************************************************************)
\* What is put was asked for, and a hit has what it takes for one.
PlaceInv(g) ==
  /\ At(g, "putting") => \A k \in Coordinates : block[g].place[k] = Question(block[g].got)
  /\ At(g, "hit") => HasPlace(g)

\* What a block has put so far is there; if no other was putting it is the
\* block's own, and the end is not there yet.
PutInv(g) ==
  At(g, "putting") =>
    /\ \A i \in 1..block[g].next - 1 : cache[block[g].addr][Keys[i]] # nil
    /\ block[g].addr \notin met =>
         /\ \A i \in 1..block[g].next - 1 : cache[block[g].addr][Keys[i]] = Value(g, i)
         /\ block[g].next \in 2..6 => cache[block[g].addr]["longitude"] = nil
    /\ block[g].addr \notin met \cup torn /\ block[g].next \in 2..6 =>
         \A i \in block[g].next..6 : cache[block[g].addr][Keys[i]] = nil

\* What a block has read is still what the cache has.
ReadInv(g) ==
  (At(g, "reading") \/ At(g, "hit")) /\ block[g].addr \notin met \cup torn =>
    /\ \A n \in Names : block[g].got[n] \in {nil, cache[block[g].addr][n]}
    /\ \A k \in Coordinates : block[g].place[k] \in {nil, cache[block[g].addr][k]}

\* Keys are there from the first on.
PrefixInv ==
  \A a \in Address : \A i \in 1..5 : cache[a][Keys[i + 1]] # nil => cache[a][Keys[i]] # nil

\* Only one block has begun to put.
AloneInv ==
  \A g, h \in Geocode :
    /\ g # h /\ At(g, "putting") /\ At(h, "putting")
    /\ block[g].addr = block[h].addr /\ block[g].addr \notin met
    => block[g].next = 1 \/ block[h].next = 1

\* Where nobody is putting the entry is whole or not there at all.
WholeInv ==
  \A a \in Address \ (met \cup torn) :
    \/ \E g \in Geocode : Writing(g) /\ block[g].addr = a
    \/ Known(a)
    \/ \A i \in 1..6 : cache[a][Keys[i]] = nil

CacheInv ==
  /\ GeocoderTypeOK
  /\ \A g \in Geocode : PlaceInv(g) /\ PutInv(g) /\ ReadInv(g)
  /\ PrefixInv
  /\ AloneInv
  /\ KnownIsConsistent
  /\ WholeInv

LEMMA InitCache == GeocoderInit => CacheInv
<1> SUFFICES ASSUME GeocoderInit PROVE CacheInv
  OBVIOUS
<1>1. \A a \in Address : \A k \in Names \cup Coordinates : cache[a][k] = nil
  BY DEF GeocoderInit
<1>2. \A g \in Geocode : block[g] = Idle /\ block[g].at = "waiting"
  BY DEF GeocoderInit, Idle
<1>3. GeocoderTypeOK
  <2>1. cache = [a \in Address |-> [k \in Names \cup Coordinates |-> cache[a][k]]]
    BY DEF GeocoderInit
  <2>2. \A a \in Address : /\ \A k \in Names : cache[a][k] \in Name
                           /\ \A k \in Coordinates : cache[a][k] \in Place \cup {nil}
    BY <1>1 DEF Name
  <2>3. block \in [Geocode -> Block]
    BY IdleType DEF GeocoderInit
  <2>4. met \subseteq Address /\ torn \subseteq Address /\ restarts \in 0..MaxRestarts
    BY MaxRestartsType DEF GeocoderInit
  <2> QED
    BY <2>1, <2>2, <2>3, <2>4 DEF GeocoderTypeOK
<1>4. PrefixInv /\ WholeInv /\ KnownIsConsistent
  BY <1>1, KeysDiffer DEF PrefixInv, WholeInv, KnownIsConsistent, Known, Coordinates
<1>5. AloneInv /\ \A g \in Geocode : PlaceInv(g) /\ PutInv(g) /\ ReadInv(g)
  BY <1>2 DEF AloneInv, PlaceInv, PutInv, ReadInv, At
<1> QED
  BY <1>3, <1>4, <1>5 DEF CacheInv

-------------------------------------------------------------------------------
(***************************************************************************)
(* Steps of one block that put nothing.                                    *)
(***************************************************************************)
LEMMA QuietStep ==
  ASSUME CacheInv, NEW g \in Geocode, Rests,
         block' \in [Geocode -> Block],
         \A h \in Geocode : h # g => block'[h] = block[h],
         ~Writing(g),
         block'[g].at = "putting" => block'[g].next = 1,
         PlaceInv(g)', ReadInv(g)'
  PROVE  CacheInv'
<1> USE DEF Rests
<1>1. GeocoderTypeOK'
  BY DEF CacheInv, GeocoderTypeOK
<1>2. \A h \in Geocode : PlaceInv(h)' /\ ReadInv(h)'
  BY DEF CacheInv, PlaceInv, ReadInv, At, HasPlace
<1>3. \A h \in Geocode : PutInv(h)'
  <2> SUFFICES ASSUME NEW h \in Geocode PROVE PutInv(h)'
    OBVIOUS
  <2>1. CASE h # g
    BY <2>1 DEF CacheInv, PutInv, At, Value
  <2>2. CASE h = g
    BY <2>2 DEF PutInv, At
  <2> QED
    BY <2>1, <2>2
<1>4. PrefixInv' /\ KnownIsConsistent'
  BY DEF CacheInv, PrefixInv, KnownIsConsistent, Known
<1>5. AloneInv'
  BY DEF CacheInv, AloneInv, At
<1>6. WholeInv'
  <2>1. \A h \in Geocode : Writing(h) => h # g /\ Writing(h)' /\ block'[h].addr = block[h].addr
    BY DEF Writing, At
  <2> QED
    BY <2>1 DEF CacheInv, WholeInv, Known
<1> QED
  BY <1>1, <1>2, <1>3, <1>4, <1>5, <1>6 DEF CacheInv

LEMMA BlockFields ==
  ASSUME GeocoderTypeOK, NEW g \in Geocode
  PROVE  /\ block[g] \in Block
         /\ block[g].addr \in Address
         /\ block[g].next \in 1..7
         /\ block[g].got \in NamesFound
         /\ block[g].place \in [Coordinates -> Place \cup {nil}]
BY KeysAre DEF GeocoderTypeOK, Block

LEMMA GeocodesCache ==
  ASSUME CacheInv, NEW g \in Geocode, NEW a \in Address, Geocodes(g, a)
  PROVE  CacheInv'
<1> DEFINE b == [Idle EXCEPT !.at = "reading", !.addr = a]
<1>1. b \in Block
  BY IdleType DEF Block
<1>2. block \in [Geocode -> Block]
  BY DEF CacheInv, GeocoderTypeOK
<1>3. block' = [block EXCEPT ![g] = b]
  BY DEF Geocodes
<1>4. block' \in [Geocode -> Block] /\ block'[g] = b
  BY <1>1, <1>2, <1>3
<1>5. b.at = "reading" /\ (\A n \in Names : b.got[n] = nil) /\ \A k \in Coordinates : b.place[k] = nil
  BY DEF Idle
<1>6. PlaceInv(g)' /\ ReadInv(g)'
  BY <1>4, <1>5 DEF PlaceInv, ReadInv, At
<1>7. ~Writing(g)
  BY DEF Geocodes, Writing, At
<1>8. \A h \in Geocode : h # g => block'[h] = block[h]
  BY <1>2, <1>3
<1> HIDE DEF b
<1> QED
  BY <1>4, <1>5, <1>6, <1>7, <1>8, QuietStep DEF Geocodes

LEMMA ReadKeyCache ==
  ASSUME CacheInv, NEW g \in Geocode, ReadKey(g)
  PROVE  CacheInv'
<1> DEFINE i == block[g].next
           a == block[g].addr
           k == Keys[i]
           v == cache[a][k]
           got == IF k \in Names THEN [block[g].got EXCEPT ![k] = v] ELSE block[g].got
           place == IF k \in Names THEN block[g].place ELSE [block[g].place EXCEPT ![k] = v]
<1>1. /\ GeocoderTypeOK /\ block \in [Geocode -> Block]
      /\ At(g, "reading") /\ i \in 1..6 /\ a \in Address
      /\ block[g].got \in NamesFound /\ block[g].place \in [Coordinates -> Place \cup {nil}]
  <2>1. GeocoderTypeOK
    BY DEF CacheInv
  <2>2. At(g, "reading") /\ i <= 6
    BY KeysAre DEF ReadKey
  <2> QED
    BY <2>1, <2>2, BlockFields DEF GeocoderTypeOK
<1>2. k \in Names \cup Coordinates
  BY <1>1, KeysDiffer
<1>3. (k \in Names => v \in Name) /\ (k \notin Names => k \in Coordinates /\ v \in Place \cup {nil})
  BY <1>1, <1>2 DEF GeocoderTypeOK
<1>4. got \in NamesFound /\ place \in [Coordinates -> Place \cup {nil}]
  BY <1>1, <1>3 DEF NamesFound
<1>5. block' = [block EXCEPT ![g] = [block[g] EXCEPT !.next = i + 1, !.got = got, !.place = place]]
  BY <1>1 DEF ReadKey, Block
<1>6. /\ block' \in [Geocode -> Block]
      /\ block'[g].at = "reading" /\ block'[g].addr = a
      /\ block'[g].got = got /\ block'[g].place = place
      /\ \A h \in Geocode : h # g => block'[h] = block[h]
  <2> DEFINE b == [block[g] EXCEPT !.next = i + 1, !.got = got, !.place = place]
  <2> HIDE DEF got, place
  <2>1. block[g] \in Block /\ i + 1 \in 1..Len(Keys) + 1
    BY <1>1, KeysAre
  <2>2. b \in Block /\ b.at = block[g].at /\ b.addr = block[g].addr /\ b.got = got /\ b.place = place
    <3> HIDE DEF i
    <3> QED
      BY <1>4, <2>1 DEF Block
  <2> HIDE DEF b
  <2> QED
    BY <1>1, <1>5, <2>2 DEF b, At
<1>7. PlaceInv(g)'
  BY <1>6 DEF PlaceInv, At
<1>8. ReadInv(g)'
  <2> SUFFICES ASSUME a \notin met \cup torn
               PROVE  /\ \A n \in Names : got[n] \in {nil, cache[a][n]}
                      /\ \A c \in Coordinates : place[c] \in {nil, cache[a][c]}
    <3> HIDE DEF got, place, a
    <3> QED
      BY <1>6 DEF ReadInv, At, ReadKey, Rests
  <2>1. /\ \A n \in Names : block[g].got[n] \in {nil, cache[a][n]}
        /\ \A c \in Coordinates : block[g].place[c] \in {nil, cache[a][c]}
    BY <1>1 DEF CacheInv, ReadInv
  <2>2. \A n \in Names : got[n] \in {nil, cache[a][n]}
    BY <2>1, <1>1 DEF NamesFound
  <2>3. \A c \in Coordinates : place[c] \in {nil, cache[a][c]}
    BY <2>1, <1>1
  <2> QED
    BY <2>2, <2>3
<1>9. ~Writing(g)
  BY <1>1 DEF Writing, At
<1> HIDE DEF i, a, k, v, got, place
<1> QED
  BY <1>6, <1>7, <1>8, <1>9, QuietStep DEF ReadKey

LEMMA CacheHitCache ==
  ASSUME CacheInv, NEW g \in Geocode, CacheHit(g)
  PROVE  CacheInv'
<1>1. block \in [Geocode -> Block] /\ At(g, "reading") /\ HasPlace(g)
  BY DEF CacheInv, GeocoderTypeOK, CacheHit
<1>2. block' = [block EXCEPT ![g] = [block[g] EXCEPT !.at = "hit"]]
  BY <1>1 DEF CacheHit
<1>3. /\ block' \in [Geocode -> Block]
      /\ block'[g] = [block[g] EXCEPT !.at = "hit"]
      /\ \A h \in Geocode : h # g => block'[h] = block[h]
  BY <1>1, <1>2 DEF Block
<1>4. /\ block'[g].at = "hit" /\ block'[g].addr = block[g].addr
      /\ block'[g].got = block[g].got /\ block'[g].place = block[g].place
  BY <1>1, <1>3 DEF Block
<1>5. PlaceInv(g)'
  BY <1>1, <1>4 DEF PlaceInv, HasPlace, At
<1>6. ReadInv(g)'
  BY <1>1, <1>4 DEF CacheInv, ReadInv, At, CacheHit, Rests
<1>7. ~Writing(g)
  BY <1>1 DEF Writing, At
<1> QED
  BY <1>3, <1>4, <1>5, <1>6, <1>7, QuietStep DEF CacheHit

\* Steps to a place where a block has nothing to keep.
LEMMA IdleStep ==
  ASSUME CacheInv, NEW g \in Geocode, Rests, ~Writing(g), NEW b \in Block,
         b.at \in {"asking", "unknown", "found"}, block' = [block EXCEPT ![g] = b]
  PROVE  CacheInv'
<1>1. /\ block' \in [Geocode -> Block] /\ block'[g] = b
      /\ \A h \in Geocode : h # g => block'[h] = block[h]
  BY DEF CacheInv, GeocoderTypeOK
<1>2. PlaceInv(g)' /\ ReadInv(g)'
  BY <1>1 DEF PlaceInv, ReadInv, At
<1> QED
  BY <1>1, <1>2, QuietStep

LEMMA LeavesReading ==
  ASSUME CacheInv, NEW g \in Geocode, NoHostInfo(g) \/ AskHostInfo(g) \/ PutsDone(g)
  PROVE  CacheInv'
<1>1. block \in [Geocode -> Block] /\ block[g] \in Block /\ block[g].got \in NamesFound
  BY BlockFields DEF CacheInv, GeocoderTypeOK
<1>2. ~Writing(g)
  BY KeysAre, BlockFields DEF Writing, At, NoHostInfo, AskHostInfo, PutsDone, CacheInv
<1>3. CASE NoHostInfo(g)
  <2>1. [block[g] EXCEPT !.at = "unknown"] \in Block
    BY <1>1 DEF Block
  <2>2. block' = [block EXCEPT ![g] = [block[g] EXCEPT !.at = "unknown"]]
    BY <1>1, <1>3 DEF NoHostInfo
  <2>3. [block[g] EXCEPT !.at = "unknown"].at = "unknown"
    BY <1>1 DEF Block
  <2> QED
    BY <1>2, <1>3, <2>1, <2>2, <2>3, IdleStep DEF NoHostInfo
<1>4. CASE AskHostInfo(g)
  <2>1. PICK n \in HostInfo(g, block[g].got) : \E m \in WithAllocation(n) :
          block' = [block EXCEPT ![g].at = "asking", ![g].got = m]
    BY <1>4 DEF AskHostInfo
  <2>2. PICK m \in WithAllocation(n) : block' = [block EXCEPT ![g].at = "asking", ![g].got = m]
    BY <2>1
  <2>3. m \in NamesFound
    BY <1>1, AnswerTypes
  <2> DEFINE b == [block[g] EXCEPT !.at = "asking", !.got = m]
  <2>4. b \in Block /\ b.at = "asking"
    BY <1>1, <2>3 DEF Block
  <2>5. block' = [block EXCEPT ![g] = b]
    BY <1>1, <2>2
  <2> HIDE DEF b
  <2> QED
    BY <1>2, <1>4, <2>4, <2>5, IdleStep DEF AskHostInfo
<1>5. CASE PutsDone(g)
  <2>1. [block[g] EXCEPT !.at = "found"] \in Block
    BY <1>1 DEF Block
  <2>2. block' = [block EXCEPT ![g] = [block[g] EXCEPT !.at = "found"]]
    BY <1>1, <1>5 DEF PutsDone
  <2>3. [block[g] EXCEPT !.at = "found"].at = "found"
    BY <1>1 DEF Block
  <2> QED
    BY <1>2, <1>5, <2>1, <2>2, <2>3, IdleStep DEF PutsDone
<1> QED
  BY <1>3, <1>4, <1>5

LEMMA AskGoogleCache ==
  ASSUME CacheInv, NEW g \in Geocode, AskGoogle(g)
  PROVE  CacheInv'
<1> DEFINE question == Question(block[g].got)
<1>1. /\ block \in [Geocode -> Block] /\ block[g] \in Block
      /\ block[g].got \in NamesFound /\ At(g, "asking") /\ Rests
  BY BlockFields DEF CacheInv, GeocoderTypeOK, AskGoogle
<1>2. ~Writing(g)
  BY <1>1 DEF Writing, At
<1>3. question \in Place
  BY <1>1, ValueTypes
<1>4. CASE block' = [block EXCEPT ![g].at = "unknown"]
  <2>1. [block[g] EXCEPT !.at = "unknown"] \in Block /\ [block[g] EXCEPT !.at = "unknown"].at = "unknown"
    BY <1>1 DEF Block
  <2> QED
    BY <1>1, <1>2, <1>4, <2>1, IdleStep
<1>5. CASE block' = [block EXCEPT ![g].at = "putting", ![g].next = 1,
                                  ![g].place = [k \in Coordinates |-> question]]
  <2> DEFINE b == [block[g] EXCEPT !.at = "putting", !.next = 1,
                                   !.place = [k \in Coordinates |-> question]]
  <2>1. b \in Block
    <3>1. [k \in Coordinates |-> question] \in [Coordinates -> Place \cup {nil}] /\ 1 \in 1..Len(Keys) + 1
      BY <1>3, KeysAre
    <3> HIDE DEF question
    <3> QED
      BY <1>1, <3>1 DEF Block
  <2>2. b.at = "putting" /\ b.next = 1 /\ b.got = block[g].got /\ b.place = [k \in Coordinates |-> question]
    BY <1>1 DEF Block
  <2>3. block' = [block EXCEPT ![g] = b]
    BY <1>1, <1>5
  <2> HIDE DEF b
  <2>4. block' \in [Geocode -> Block] /\ block'[g] = b /\ \A h \in Geocode : h # g => block'[h] = block[h]
    BY <1>1, <2>1, <2>3
  <2>5. PlaceInv(g)' /\ ReadInv(g)'
    BY <2>2, <2>4 DEF PlaceInv, ReadInv, At
  <2> QED
    BY <1>1, <1>2, <2>2, <2>4, <2>5, QuietStep
<1> QED
  BY <1>4, <1>5 DEF AskGoogle

-------------------------------------------------------------------------------
(***************************************************************************)
(* A put, and the end of the process.                                      *)
(***************************************************************************)
LEMMA PutKeyCache ==
  ASSUME CacheInv, NEW g \in Geocode, PutKey(g)
  PROVE  CacheInv'
<1> DEFINE i == block[g].next
           a == block[g].addr
           k == Keys[i]
           v == Value(g, i)
<1>1. /\ GeocoderTypeOK /\ block \in [Geocode -> Block]
      /\ At(g, "putting") /\ i \in 1..6 /\ a \in Address
      /\ block[g].got \in NamesFound /\ block[g].place \in [Coordinates -> Place \cup {nil}]
      /\ PlaceInv(g) /\ PutInv(g)
  BY BlockFields, KeysAre DEF CacheInv, GeocoderTypeOK, PutKey
<1>2. k \in Names \cup Coordinates /\ (k \in Names <=> i <= 4)
  BY <1>1, KeysDiffer
<1>3. (k \in Names => v \in Name \ {nil}) /\ (k \in Coordinates => v \in Place) /\ v # nil
  <2>1. CASE k \in Names
    <3>1. block[g].got[k] \in Name
      BY <1>1, <2>1 DEF NamesFound
    <3>2. v = Stored(block[g].got[k]) /\ k \notin Coordinates
      BY <1>2, <2>1 DEF Value, Names, Coordinates
    <3> QED
      BY <3>1, <3>2, ValueTypes
  <2>2. CASE k \notin Names
    <3>1. k \in Coordinates /\ v = block[g].place[k]
      BY <1>2, <2>2 DEF Value
    <3>2. v = Question(block[g].got)
      BY <1>1, <3>1 DEF PlaceInv
    <3> QED
      BY <1>1, <2>2, <3>2, ValueTypes
  <2> QED
    BY <2>1, <2>2
<1>4. cache' = [cache EXCEPT ![a] = [@ EXCEPT ![k] = v]]
  BY <1>2 DEF PutKey, Entered, Value
<1>5. /\ cache'[a][k] = v
      /\ \A b \in Address : \A c \in Names \cup Coordinates : b # a \/ c # k => cache'[b][c] = cache[b][c]
      /\ cache' = [b \in Address |-> [c \in Names \cup Coordinates |-> cache'[b][c]]]
  <2>1. cache = [b \in Address |-> [c \in Names \cup Coordinates |-> cache[b][c]]]
    BY <1>1 DEF GeocoderTypeOK
  <2> HIDE DEF a, k, v
  <2> QED
    BY <1>1, <1>2, <1>4, <2>1
<1>6. /\ block' \in [Geocode -> Block]
      /\ block'[g].next = i + 1 /\ block'[g].at = "putting" /\ block'[g].addr = a
      /\ block'[g].got = block[g].got /\ block'[g].place = block[g].place
      /\ \A h \in Geocode : h # g => block'[h] = block[h]
      /\ torn' = torn /\ restarts' = restarts
  <2>1. block' = [block EXCEPT ![g] = [block[g] EXCEPT !.next = i + 1]]
    BY <1>1 DEF PutKey
  <2>2. block[g] \in Block
    BY <1>1
  <2> HIDE DEF i
  <2> QED
    BY <1>1, <2>1, <2>2, KeysAre DEF Block, At, PutKey
<1>7. /\ met \subseteq met' /\ met' \subseteq Address
      /\ a \notin met' => /\ a \notin met
                          /\ \A h \in Geocode \ {g} : block[h].addr = a => ~At(h, "putting")
                          /\ i = 1 => ~Known(a)
  BY <1>1 DEF PutKey, GeocoderTypeOK
<1>8. \A b \in Address : \A c \in Names \cup Coordinates : cache[b][c] # nil => cache'[b][c] # nil
  BY <1>3, <1>5
<1>9. \A j \in 1..6 : /\ Keys[j] \in Names \cup Coordinates
                      /\ j # i => cache'[a][Keys[j]] = cache[a][Keys[j]]
                      /\ j = i => cache'[a][Keys[j]] = v
  BY <1>1, <1>5, KeysDiffer
<1>10. "latitude" \in Names \cup Coordinates /\ "longitude" \in Names \cup Coordinates
       /\ "latitude" = Keys[5] /\ "longitude" = Keys[6] /\ Coordinates = {"latitude", "longitude"}
  BY KeysAre DEF Coordinates
\* What is known of the entry before the put, if nobody else was putting it.
<1>11. a \notin met' => cache[a]["longitude"] = nil
  <2> SUFFICES ASSUME a \notin met' PROVE cache[a]["longitude"] = nil
    OBVIOUS
  <2>1. CASE i = 1
    BY <1>1, <1>7, <1>10, <2>1, KeysAre DEF CacheInv, PrefixInv, Known
  <2>2. CASE i # 1
    BY <1>1, <1>7, <2>2 DEF PutInv
  <2> QED
    BY <2>1, <2>2
<1>12. a \notin met' \cup torn => \A j \in i..6 : cache[a][Keys[j]] = nil
  <2> SUFFICES ASSUME a \notin met' \cup torn PROVE \A j \in i..6 : cache[a][Keys[j]] = nil
    OBVIOUS
  <2>1. CASE i = 1
    <3>1. \A h \in Geocode : ~(Writing(h) /\ block[h].addr = a)
      BY <1>7, <2>1 DEF Writing
    <3>2. \A j \in 1..6 : cache[a][Keys[j]] = nil
      BY <1>1, <1>7, <2>1, <3>1 DEF CacheInv, WholeInv
    <3> QED
      BY <2>1, <3>2
  <2>2. CASE i # 1
    BY <1>1, <1>7, <2>2 DEF PutInv
  <2> QED
    BY <2>1, <2>2
<1>13. GeocoderTypeOK'
  <2>1. \A b \in Address : /\ \A c \in Names : cache'[b][c] \in Name
                           /\ \A c \in Coordinates : cache'[b][c] \in Place \cup {nil}
    <3> SUFFICES ASSUME NEW b \in Address
                 PROVE  /\ \A c \in Names : cache'[b][c] \in Name
                        /\ \A c \in Coordinates : cache'[b][c] \in Place \cup {nil}
      OBVIOUS
    <3>1. /\ \A c \in Names : cache[b][c] \in Name
          /\ \A c \in Coordinates : cache[b][c] \in Place \cup {nil}
      BY <1>1 DEF GeocoderTypeOK
    <3> HIDE DEF a, k, v
    <3> QED
      BY <1>3, <1>5, <3>1
  <2> HIDE DEF a, k, v
  <2> QED
    BY <1>1, <1>5, <1>6, <1>7, <2>1 DEF GeocoderTypeOK
<1>14. \A h \in Geocode : PlaceInv(h)'
  BY <1>1, <1>6 DEF CacheInv, PlaceInv, At, HasPlace
<1>15. PutInv(g)'
  <2>1. \A j \in 1..i : cache'[a][Keys[j]] # nil
    BY <1>1, <1>3, <1>9 DEF PutInv
  <2>2. \A j \in 1..6 : Value(g, j)' = Value(g, j)
    BY <1>6 DEF Value
  <2>3. a \notin met' => \A j \in 1..i : cache'[a][Keys[j]] = Value(g, j)'
    BY <1>1, <1>7, <1>9, <2>2 DEF PutInv
  <2>4. a \notin met' /\ i + 1 \in 2..6 => cache'[a]["longitude"] = nil
    BY <1>1, <1>9, <1>10, <1>11
  <2>5. a \notin met' \cup torn /\ i + 1 \in 2..6 => \A j \in i + 1..6 : cache'[a][Keys[j]] = nil
    BY <1>1, <1>9, <1>12
  <2> HIDE DEF i, a, k, v
  <2> QED
    BY <1>1, <1>6, <2>1, <2>3, <2>4, <2>5 DEF PutInv
<1>16. \A h \in Geocode : h # g => PutInv(h)'
  <2> SUFFICES ASSUME NEW h \in Geocode, h # g, At(h, "putting")' PROVE PutInv(h)'
    BY DEF PutInv
  <2>1. /\ block'[h] = block[h] /\ At(h, "putting") /\ PutInv(h)
        /\ block[h].addr \in Address /\ block[h].next \in 1..7
        /\ \A j \in 1..6 : Value(h, j)' = Value(h, j)
    BY <1>1, <1>6, BlockFields DEF At, CacheInv, Value
  <2>2. \A j \in 1..block[h].next - 1 : cache'[block[h].addr][Keys[j]] # nil
    BY <1>8, <1>9, <2>1 DEF PutInv
  <2>3. CASE block[h].addr = a
    <3>1. a \in met'
      BY <1>7, <2>1, <2>3
    <3> QED
      BY <2>1, <2>2, <2>3, <3>1 DEF PutInv
  <2>4. CASE block[h].addr # a
    <3>1. \A j \in 1..6 : cache'[block[h].addr][Keys[j]] = cache[block[h].addr][Keys[j]]
      BY <1>5, <1>9, <2>1, <2>4
    <3>2. cache'[block[h].addr]["longitude"] = cache[block[h].addr]["longitude"]
      BY <1>5, <1>10, <2>1, <2>4
    <3> HIDE DEF a
    <3> QED
      BY <1>6, <1>7, <2>1, <2>2, <3>1, <3>2 DEF PutInv
  <2> QED
    BY <2>3, <2>4
<1>17. \A h \in Geocode : ReadInv(h)'
  <2> SUFFICES ASSUME NEW h \in Geocode, (At(h, "reading") \/ At(h, "hit"))',
                      block'[h].addr \notin met' \cup torn'
               PROVE  /\ \A n \in Names : block'[h].got[n] \in {nil, cache'[block'[h].addr][n]}
                      /\ \A c \in Coordinates : block'[h].place[c] \in {nil, cache'[block'[h].addr][c]}
    BY DEF ReadInv
  <2>1. h # g /\ block'[h] = block[h] /\ (At(h, "reading") \/ At(h, "hit"))
        /\ block[h].addr \notin met' \cup torn /\ block[h].addr \in Address
    BY <1>1, <1>6, BlockFields DEF At
  <2>2. /\ \A n \in Names : block[h].got[n] \in {nil, cache[block[h].addr][n]}
        /\ \A c \in Coordinates : block[h].place[c] \in {nil, cache[block[h].addr][c]}
    BY <1>7, <2>1 DEF CacheInv, ReadInv
  <2>3. \A c \in Names \cup Coordinates :
          cache'[block[h].addr][c] = cache[block[h].addr][c] \/ cache[block[h].addr][c] = nil
    BY <1>1, <1>5, <1>12, <2>1
  <2> QED
    BY <2>1, <2>2, <2>3
<1>18. PrefixInv'
  <2> SUFFICES ASSUME NEW b \in Address, NEW j \in 1..5, cache'[b][Keys[j + 1]] # nil
               PROVE  cache'[b][Keys[j]] # nil
    BY DEF PrefixInv
  <2>1. Keys[j] \in Names \cup Coordinates /\ Keys[j + 1] \in Names \cup Coordinates
    BY KeysDiffer
  <2>2. CASE b = a /\ j + 1 = i
    <3>1. cache[a][Keys[j]] # nil
      BY <1>1, <2>2 DEF PutInv
    <3> QED
      BY <1>1, <1>8, <2>1, <2>2, <3>1
  <2>3. CASE b # a \/ j + 1 # i
    <3>1. cache[b][Keys[j + 1]] # nil
      BY <1>5, <1>9, <2>1, <2>3
    <3>2. cache[b][Keys[j]] # nil
      BY <3>1 DEF CacheInv, PrefixInv
    <3> QED
      BY <1>8, <2>1, <3>2
  <2> QED
    BY <2>2, <2>3
<1>19. AloneInv'
  <2> SUFFICES ASSUME NEW h1 \in Geocode, NEW h2 \in Geocode, h1 # h2,
                      At(h1, "putting")', At(h2, "putting")',
                      block'[h1].addr = block'[h2].addr, block'[h1].addr \notin met'
               PROVE  block'[h1].next = 1 \/ block'[h2].next = 1
    BY DEF AloneInv
  <2>1. CASE h1 # g /\ h2 # g
    BY <1>6, <1>7, <2>1 DEF CacheInv, AloneInv, At
  <2>2. CASE h1 = g \/ h2 = g
    BY <1>6, <1>7, <2>2 DEF At
  <2> QED
    BY <2>1, <2>2
<1>20. KnownIsConsistent'
  <2> SUFFICES ASSUME NEW b \in Address \ met', Known(b)', NEW c \in Coordinates
               PROVE  cache'[b][c] = Question([n \in Names |-> cache'[b][n]])
    BY DEF KnownIsConsistent
  <2>1. CASE b # a
    <3>1. \A d \in Names \cup Coordinates : cache'[b][d] = cache[b][d]
      BY <1>5, <2>1
    <3>2. Known(b) /\ b \notin met
      BY <1>7, <3>1 DEF Known
    <3>3. cache[b][c] = Question([n \in Names |-> cache[b][n]])
      BY <3>2 DEF CacheInv, KnownIsConsistent
    <3>4. [n \in Names |-> cache'[b][n]] = [n \in Names |-> cache[b][n]]
      BY <3>1
    <3> QED
      BY <3>1, <3>3, <3>4
  <2>2. CASE b = a
    <3>1. i = 6
      BY <1>1, <1>9, <1>10, <1>11, <2>2 DEF Known
    <3>2. \A j \in 1..6 : cache'[a][Keys[j]] = Value(g, j)
      BY <1>1, <1>7, <1>9, <2>2, <3>1 DEF PutInv
    <3>3. \A n \in Names : cache'[a][n] = Stored(block[g].got[n])
      BY <3>2, KeysDiffer DEF Value
    <3>4. cache'[a][c] = block[g].place[c]
      BY <1>10, <3>2 DEF Value
    <3>5. block[g].place[c] = Question(block[g].got)
      BY <1>1 DEF PlaceInv
    <3>6. Question([n \in Names |-> cache'[a][n]]) = Question(block[g].got)
      BY <3>3, GeocodeAssumption DEF Question, Stored
    <3> QED
      BY <2>2, <3>4, <3>5, <3>6
  <2> QED
    BY <2>1, <2>2
<1>21. WholeInv'
  <2> SUFFICES ASSUME NEW b \in Address, b \notin met' \cup torn', \A h \in Geocode : ~(Writing(h) /\ block[h].addr = b)'
               PROVE  Known(b)' \/ \A j \in 1..6 : cache'[b][Keys[j]] = nil
    BY DEF WholeInv
  <2>1. CASE b = a
    <3>1. i = 6
      BY <1>1, <1>6, <2>1, KeysAre DEF Writing, At
    <3>2. cache'[a][Keys[5]] # nil /\ cache'[a][Keys[6]] # nil
      BY <1>1, <1>3, <1>9, <3>1 DEF PutInv
    <3> QED
      BY <1>10, <2>1, <3>2 DEF Known
  <2>2. CASE b # a
    <3>1. \A h \in Geocode : ~(Writing(h) /\ block[h].addr = b)
      BY <1>6, <2>2 DEF Writing, At
    <3>2. \A d \in Names \cup Coordinates : cache'[b][d] = cache[b][d]
      BY <1>5, <2>2
    <3>3. Known(b) \/ \A j \in 1..6 : cache[b][Keys[j]] = nil
      BY <1>6, <1>7, <3>1 DEF CacheInv, WholeInv
    <3> QED
      BY <1>9, <3>2, <3>3 DEF Known
  <2> QED
    BY <2>1, <2>2
<1> HIDE DEF i, a, k, v
<1> QED
  BY <1>13, <1>14, <1>15, <1>16, <1>17, <1>18, <1>19, <1>20, <1>21 DEF CacheInv

LEMMA RestartCache ==
  ASSUME CacheInv, GeocoderRestarts
  PROVE  CacheInv'
<1>1. /\ GeocoderTypeOK /\ cache' = cache /\ met' = met
      /\ restarts' \in 0..MaxRestarts
  <2>1. GeocoderTypeOK /\ restarts \in 0..MaxRestarts
    BY DEF CacheInv, GeocoderTypeOK
  <2> QED
    <3>1. restarts < MaxRestarts /\ restarts' = restarts + 1 /\ cache' = cache /\ met' = met
      BY DEF GeocoderRestarts
    <3> QED
      BY <2>1, <3>1, MaxRestartsType
<1>2. /\ block' \in [Geocode -> Block]
      /\ \A h \in Geocode : At(h, "waiting")' \/ At(h, "lost")'
  <2>1. [Idle EXCEPT !.at = "lost"] \in Block /\ [Idle EXCEPT !.at = "lost"].at = "lost"
    BY IdleType DEF Block
  <2> QED
    BY <1>1, <2>1 DEF GeocoderRestarts, GeocoderTypeOK, At
<1>3. /\ torn \subseteq torn' /\ torn' \subseteq Address
      /\ \A h \in Geocode : Writing(h) => block[h].addr \in torn'
  BY <1>1, BlockFields DEF GeocoderRestarts, GeocoderTypeOK
<1>4. GeocoderTypeOK'
  BY <1>1, <1>2, <1>3 DEF GeocoderTypeOK
<1>5. AloneInv' /\ \A h \in Geocode : PlaceInv(h)' /\ PutInv(h)' /\ ReadInv(h)'
  BY <1>2 DEF AloneInv, PlaceInv, PutInv, ReadInv, At
<1>6. PrefixInv' /\ KnownIsConsistent'
  BY <1>1 DEF CacheInv, PrefixInv, KnownIsConsistent, Known
<1>7. WholeInv'
  <2> SUFFICES ASSUME NEW a \in Address, a \notin met \cup torn'
               PROVE  Known(a) \/ \A i \in 1..6 : cache[a][Keys[i]] = nil
    BY <1>1 DEF WholeInv, Known
  <2>1. \A h \in Geocode : ~(Writing(h) /\ block[h].addr = a)
    BY <1>3
  <2> QED
    BY <1>3, <2>1 DEF CacheInv, WholeInv
<1> QED
  BY <1>4, <1>5, <1>6, <1>7 DEF CacheInv

LEMMA NextCache == CacheInv /\ [GeocoderNext]_geocoderVars => CacheInv'
<1> SUFFICES ASSUME CacheInv, [GeocoderNext]_geocoderVars PROVE CacheInv'
  OBVIOUS
<1>1. ASSUME NEW g \in Geocode, NEW a \in Address, Geocodes(g, a) PROVE CacheInv'
  BY <1>1, GeocodesCache
<1>2. ASSUME NEW g \in Geocode, ReadKey(g) PROVE CacheInv'
  BY <1>2, ReadKeyCache
<1>3. ASSUME NEW g \in Geocode, CacheHit(g) PROVE CacheInv'
  BY <1>3, CacheHitCache
<1>4. ASSUME NEW g \in Geocode, NoHostInfo(g) \/ AskHostInfo(g) \/ PutsDone(g) PROVE CacheInv'
  BY <1>4, LeavesReading
<1>5. ASSUME NEW g \in Geocode, AskGoogle(g) PROVE CacheInv'
  BY <1>5, AskGoogleCache
<1>6. ASSUME NEW g \in Geocode, PutKey(g) PROVE CacheInv'
  BY <1>6, PutKeyCache
<1>7. CASE GeocoderRestarts
  BY <1>7, RestartCache
<1>8. CASE UNCHANGED geocoderVars
  <2> USE <1>8 DEF geocoderVars
  <2>1. GeocoderTypeOK' /\ PrefixInv' /\ AloneInv'
    BY DEF CacheInv, GeocoderTypeOK, PrefixInv, AloneInv, At
  <2>2. \A g \in Geocode : PlaceInv(g)' /\ ReadInv(g)'
    BY DEF CacheInv, PlaceInv, ReadInv, At, HasPlace
  <2>3. \A g \in Geocode : PutInv(g)'
    BY DEF CacheInv, PutInv, At, Value
  <2>4. KnownIsConsistent' /\ WholeInv'
    BY DEF CacheInv, KnownIsConsistent, WholeInv, Known, Writing, At
  <2> QED
    BY <2>1, <2>2, <2>3, <2>4 DEF CacheInv
<1> QED
  BY <1>1, <1>2, <1>3, <1>4, <1>5, <1>6, <1>7, <1>8 DEF GeocoderNext

-------------------------------------------------------------------------------
\* The invariant has the three parts of CacheIsSound.
LEMMA CacheInvIsEnough == CacheInv => CacheIsSound
<1> SUFFICES ASSUME CacheInv PROVE CacheIsSound
  OBVIOUS
<1>1. KnownIsComplete
  <2> SUFFICES ASSUME NEW a \in Address, Known(a) PROVE \A k \in Names : cache[a][k] # nil
    BY DEF KnownIsComplete
  <2>1. cache[a][Keys[5]] # nil
    BY KeysAre DEF Known, Coordinates
  <2>2. \A i \in 1..5 : cache[a][Keys[i + 1]] # nil => cache[a][Keys[i]] # nil
    BY DEF CacheInv, PrefixInv
  <2>3. cache[a][Keys[4]] # nil
    BY <2>1, <2>2
  <2>4. cache[a][Keys[3]] # nil
    BY <2>2, <2>3
  <2>5. cache[a][Keys[2]] # nil
    BY <2>2, <2>4
  <2>6. cache[a][Keys[1]] # nil
    BY <2>2, <2>5
  <2> QED
    BY <2>3, <2>4, <2>5, <2>6, KeysAre DEF Names
<1>2. KnownIsConsistent
  BY DEF CacheInv
<1>3. HitIsConsistent
  <2> SUFFICES ASSUME NEW g \in Geocode, At(g, "hit"), block[g].addr \notin met \cup torn,
                      NEW k \in Coordinates
               PROVE  /\ block[g].place[k] # nil
                      /\ \A n \in Names \ {"code"} : block[g].got[n] \in {nil, block[g].place[k][n]}
    BY DEF HitIsConsistent
  <2> DEFINE a == block[g].addr
  <2>1. a \in Address
    BY BlockFields DEF CacheInv
  <2>2. \A c \in Coordinates : block[g].place[c] # nil /\ block[g].place[c] = cache[a][c]
    BY DEF CacheInv, PlaceInv, ReadInv, HasPlace
  <2>3. Known(a)
    BY <2>2 DEF Known
  <2>4. block[g].place[k] = Question([n \in Names |-> cache[a][n]])
    BY <1>2, <2>1, <2>2, <2>3 DEF KnownIsConsistent
  <2>5. \A n \in Names : cache[a][n] # nil
    BY <1>1, <2>1, <2>3 DEF KnownIsComplete
  <2>6. \A n \in Names \ {"code"} : block[g].place[k][n] = cache[a][n]
    BY <2>4, <2>5 DEF Question
  <2>7. \A n \in Names : block[g].got[n] \in {nil, cache[a][n]}
    BY DEF CacheInv, ReadInv
  <2> QED
    BY <2>2, <2>6, <2>7
<1> QED
  BY <1>1, <1>2, <1>3 DEF CacheIsSound

\* The cache may be read while it is written and after its writers were ended,
\* for any number of blocks, addresses and restarts (__geocode:handler:).
THEOREM CacheStaysSound == GeocoderSpec => []CacheIsSound
<1>1. CacheInv /\ [GeocoderNext]_geocoderVars => CacheInv'
  BY NextCache
<1> QED
  BY <1>1, InitCache, CacheInvIsEnough, PTL DEF GeocoderSpec

-------------------------------------------------------------------------------
(***************************************************************************)
(* Counting the places that hold a handler.                                *)
(***************************************************************************)
Places(b) == {q \in Peer \X Slots : peer[q[1]].slot[q[2]] = b}

LEMMA SlotsFinite == IsFiniteSet(Slots) /\ IsFiniteSet(Peer \X Slots)
<1>1. IsFiniteSet({} \cup {"smtp_handler"})
  BY FS_EmptySet, FS_AddElement
<1>2. IsFiniteSet(({} \cup {"smtp_handler"}) \cup {"auth_handler"})
  BY <1>1, FS_AddElement
<1>3. IsFiniteSet((({} \cup {"smtp_handler"}) \cup {"auth_handler"}) \cup {"header_handler"})
  BY <1>2, FS_AddElement
<1>4. IsFiniteSet(((({} \cup {"smtp_handler"}) \cup {"auth_handler"}) \cup {"header_handler"}) \cup {"data_handler"})
  BY <1>3, FS_AddElement
<1>5. Slots = ((({} \cup {"smtp_handler"}) \cup {"auth_handler"}) \cup {"header_handler"}) \cup {"data_handler"}
  BY DEF Slots
<1>6. IsFiniteSet(Slots)
  BY <1>4, <1>5
<1> QED
  BY <1>6, RegistrationAssumption, FS_Product

LEMMA PlacesCount ==
  \A b : /\ IsFiniteSet(Places(b)) /\ Cardinality(Places(b)) \in Nat
         /\ IsFiniteSet(Places(b)') /\ Cardinality(Places(b)') \in Nat
BY SlotsFinite, FS_Subset, FS_CardinalityType DEF Places

\* A place that changes hands is one less for the old handler, and one more for
\* the new one.
LEMMA PlacesExchanged ==
  ASSUME peer \in [Peer -> Connection], NEW p \in Peer, NEW slot \in Slots, NEW new,
         peer' = [peer EXCEPT ![p].slot[slot] = new], NEW b
  PROVE  Cardinality(Places(b)') =
           Cardinality(Places(b)) + One(b, new) - One(b, peer[p].slot[slot])
<1> DEFINE q == <<p, slot>>
           old == peer[p].slot[slot]
<1>1. \A r \in Peer \X Slots : peer'[r[1]].slot[r[2]] = IF r = q THEN new ELSE peer[r[1]].slot[r[2]]
  BY DEF Connection
<1>2. q \in Peer \X Slots /\ (q \in Places(b) <=> old = b)
  BY DEF Places
<1>3. Places(b)' = IF new = b THEN Places(b) \cup {q} ELSE Places(b) \ {q}
  <2>1. Places(b)' = {r \in Peer \X Slots : peer'[r[1]].slot[r[2]] = b}
    BY DEF Places
  <2>2. \A r \in Peer \X Slots : r \in Places(b) <=> peer[r[1]].slot[r[2]] = b
    BY DEF Places
  <2>3. Places(b) \subseteq Peer \X Slots
    BY DEF Places
  <2> HIDE DEF q
  <2> QED
    BY <1>1, <1>2, <2>1, <2>2, <2>3
<1> HIDE DEF q, old
<1>4. IsFiniteSet(Places(b)) /\ Cardinality(Places(b)) \in Nat
  BY PlacesCount
<1>5. Cardinality(Places(b) \cup {q}) = IF q \in Places(b) THEN Cardinality(Places(b)) ELSE Cardinality(Places(b)) + 1
  BY <1>4, FS_AddElement
<1>6. Cardinality(Places(b) \ {q}) = IF q \in Places(b) THEN Cardinality(Places(b)) - 1 ELSE Cardinality(Places(b))
  BY <1>4, FS_RemoveElement
<1>7. One(b, new) = (IF new = b THEN 1 ELSE 0) /\ One(b, old) = (IF old = b THEN 1 ELSE 0)
  BY DEF One
<1>8. Cardinality(Places(b)') = Cardinality(Places(b)) + One(b, new) - One(b, old)
  <2>1. CASE new = b /\ old = b
    BY <1>2, <1>3, <1>4, <1>5, <1>7, <2>1
  <2>2. CASE new = b /\ old # b
    BY <1>2, <1>3, <1>4, <1>5, <1>7, <2>2
  <2>3. CASE new # b /\ old = b
    BY <1>2, <1>3, <1>4, <1>6, <1>7, <2>3
  <2>4. CASE new # b /\ old # b
    BY <1>2, <1>3, <1>4, <1>6, <1>7, <2>4
  <2> QED
    BY <2>1, <2>2, <2>3, <2>4
<1> QED
  BY <1>8 DEF old

\* The places of one connection are as many as its slots.
LEMMA PlacesOfOne ==
  ASSUME NEW p \in Peer, NEW S \in SUBSET Slots
  PROVE  Cardinality({<<p, s>> : s \in S}) = Cardinality(S)
<1> DEFINE T == {<<p, s>> : s \in S}
           f == [s \in S |-> <<p, s>>]
<1>1. IsFiniteSet(S)
  BY SlotsFinite, FS_Subset
<1>2. f \in [S -> T] /\ (\A s, t \in S : f[s] = f[t] => s = t) /\ \A q \in T : \E s \in S : f[s] = q
  OBVIOUS
<1>3. f \in Bijection(S, T)
  BY <1>2 DEF Bijection, Injection, Surjection, IsInjective
<1>4. ExistsBijection(S, T)
  BY <1>3 DEF ExistsBijection
<1> QED
  BY <1>1, <1>4, FS_Bijection
-------------------------------------------------------------------------------
(***************************************************************************)
(* The inductive invariant: SetUpIsKept's parts, and what they rest on.    *)
(***************************************************************************)
\* Copies: a handler has one for each place that holds it.
BalanceInv == \A b \in HandlerBlock : refs[b] = Holders(b)

\* A connection's handlers are set while it lives.
SlotInv ==
  \A p \in Peer :
    /\ peer[p].mem = "none" => \A s \in Slots : peer[p].slot[s] = NULL
    /\ peer[p].mem = "freed" => \A s \in Slots \ {"auth_handler"} : peer[p].slot[s] = NULL
    /\ peer[p].mem # "live" => peer[p].socket_handler = NULL

\* The socket handler a connection took over is still the library's.
TakenOverInv ==
  "replaced" \in past \/
    \A p \in Peer : peer[p].socket_handler # NULL => peer[p].socket_handler = emailz.socket_handler

\* Nothing comes before the start; what was ready then stays so.
StartInv ==
  /\ ~listener.started => lost = {} /\ "ready" \notin past /\ \A p \in Peer : peer[p].mem = "none"
  /\ "ready" \in past =>
       /\ emailz.handler_queue /\ listener.handler_queue /\ lost = {}
       /\ \A p \in Peer : peer[p].mem = "live" => peer[p].handler_queue
       /\ "cleared" \notin past =>
            /\ emailz.socket_handler # NULL
            /\ \A p \in Peer : peer[p].mem = "live" => peer[p].socket_handler # NULL

\* The base of the records to come, and of those there are.
BaseInv ==
  "refused" \in past \/
    /\ emailz.socket_record => emailz.record_base # ""
    /\ \A p \in Peer : peer[p].record => peer[p].record_path # ""

RegistrationInv ==
  /\ RegistrationTypeOK
  /\ BalanceInv
  /\ SlotInv
  /\ TakenOverInv
  /\ StartInv
  /\ BaseInv

LEMMA InitRegistration == RegistrationInit => RegistrationInv
<1> SUFFICES ASSUME RegistrationInit PROVE RegistrationInv
  OBVIOUS
<1>1. RegistrationTypeOK
  <2>1. emailz \in Emailz /\ listener \in Listener
    BY DEF RegistrationInit, Emailz, Listener, Handlers, Bases
  <2>2. peer \in [Peer -> Connection]
    BY DEF RegistrationInit, Connection, Handlers, Bases
  <2> QED
    BY <2>1, <2>2 DEF RegistrationInit, RegistrationTypeOK
<1>2. BalanceInv
  <2> SUFFICES ASSUME NEW b \in HandlerBlock PROVE refs[b] = Holders(b)
    BY DEF BalanceInv
  <2>1. b # NULL
    BY RegistrationAssumption
  <2>2. {q \in Peer \X Slots : peer[q[1]].slot[q[2]] = b} = {}
    BY <2>1 DEF RegistrationInit
  <2>3. Cardinality({}) = 0
    BY FS_EmptySet
  <2>4. One(b, emailz.socket_handler) = 0 /\ b \in owned /\ refs[b] = 1
    BY <2>1 DEF RegistrationInit, One
  <2> QED
    BY <2>2, <2>3, <2>4 DEF Holders
<1>3. SlotInv /\ TakenOverInv /\ StartInv /\ BaseInv
  BY DEF RegistrationInit, SlotInv, TakenOverInv, StartInv, BaseInv
<1> QED
  BY <1>1, <1>2, <1>3 DEF RegistrationInv

LEMMA HoldersAre ==
  \A b : Holders(b) = One(b, emailz.socket_handler) + (IF b \in owned THEN 1 ELSE 0)
                      + Cardinality(Places(b))
BY DEF Holders, Places

\* An operator of the state is the same function of b in the next state.
LEMMA HoldersNext ==
  \A b : Holders(b)' = One(b, emailz'.socket_handler) + (IF b \in owned' THEN 1 ELSE 0)
                       + Cardinality(Places(b)')
BY DEF Holders, Places, One

\* A number of copies that balances is a number.
LEMMA HoldersType ==
  /\ \A b : Holders(b) \in Nat
  /\ \A b : Holders(b)' \in Nat
<1>1. \A b, c : One(b, c) \in Nat
  BY DEF One
<1>2. \A b, S : (IF b \in S THEN 1 ELSE 0) \in Nat
  OBVIOUS
<1> QED
  BY <1>1, <1>2, HoldersAre, HoldersNext, PlacesCount

-------------------------------------------------------------------------------
(***************************************************************************)
(* The steps of the application.                                           *)
(***************************************************************************)
LEMMA SameCopies ==
  ASSUME RegistrationInv, refs' = refs, owned' = owned,
         emailz'.socket_handler = emailz.socket_handler, \A b : Places(b)' = Places(b)
  PROVE  BalanceInv' /\ refs' \in [HandlerBlock -> Nat]
BY HoldersAre, HoldersNext DEF RegistrationInv, BalanceInv, RegistrationTypeOK

LEMMA SetsUp ==
  ASSUME RegistrationInv,
         \/ set_handler_queue
         \/ \E enable \in BOOLEAN, base \in Bases \ {""} : record_enable(enable, base)
  PROVE  RegistrationInv'
<1>1. /\ emailz \in Emailz /\ listener' = listener /\ peer' = peer /\ owned' = owned
      /\ refs' = refs /\ lost' = lost
  BY DEF RegistrationInv, RegistrationTypeOK, set_handler_queue, record_enable
<1>2. /\ emailz' \in Emailz /\ emailz'.socket_handler = emailz.socket_handler
      /\ emailz.handler_queue => emailz'.handler_queue
  BY <1>1 DEF set_handler_queue, record_enable, Emailz, CopiedBase, Bases
<1>3. /\ past' \subseteq Past /\ past \subseteq past'
      /\ \A w \in {"ready", "cleared", "replaced"} : w \in past' <=> w \in past
  BY DEF RegistrationInv, RegistrationTypeOK, set_handler_queue, record_enable, Past
<1>4. BalanceInv'
  <2>1. \A b : Places(b)' = Places(b)
    BY <1>1 DEF Places
  <2> QED
    BY <1>1, <1>2, <2>1, SameCopies
<1>5. RegistrationTypeOK'
  BY <1>1, <1>2, <1>3 DEF RegistrationInv, RegistrationTypeOK
<1>6. SlotInv' /\ TakenOverInv' /\ StartInv'
  BY <1>1, <1>2, <1>3 DEF RegistrationInv, SlotInv, TakenOverInv, StartInv
<1>7. BaseInv'
  <2>1. CASE set_handler_queue
    BY <1>1, <2>1 DEF set_handler_queue, RegistrationInv, BaseInv, Emailz
  <2>2. ASSUME NEW enable \in BOOLEAN, NEW base \in Bases \ {""}, record_enable(enable, base)
        PROVE BaseInv'
    BY <1>1, <2>2 DEF record_enable, RegistrationInv, BaseInv, Emailz, CopiedBase, Bases
  <2> QED
    BY <2>1, <2>2
<1> QED
  BY <1>4, <1>5, <1>6, <1>7 DEF RegistrationInv

LEMMA SetsSocketHandler ==
  ASSUME RegistrationInv, NEW new \in owned \cup {NULL}, set_socket_handler(new)
  PROVE  RegistrationInv'
<1>1. /\ emailz \in Emailz /\ new \in Handlers
      /\ emailz' = [emailz EXCEPT !.socket_handler = new]
      /\ listener' = listener /\ peer' = peer /\ owned' = owned /\ lost' = lost
      /\ refs' = Exchanged(emailz.socket_handler, new)
  BY DEF RegistrationInv, RegistrationTypeOK, set_socket_handler, Handlers
<1>2. /\ emailz' \in Emailz /\ emailz'.socket_handler = new
      /\ emailz'.handler_queue = emailz.handler_queue
      /\ emailz'.socket_record = emailz.socket_record /\ emailz'.record_base = emailz.record_base
  BY <1>1 DEF Emailz
<1>3. /\ past' \subseteq Past /\ past \subseteq past'
      /\ \A w \in {"ready", "refused"} : w \in past' <=> w \in past
      /\ new = NULL => "cleared" \in past'
      /\ (\E p \in Peer : peer[p].mem = "live") => "replaced" \in past'
  BY DEF RegistrationInv, RegistrationTypeOK, set_socket_handler, Past
<1>4. BalanceInv'
  <2> SUFFICES ASSUME NEW b \in HandlerBlock PROVE refs'[b] = Holders(b)'
    BY DEF BalanceInv
  <2>1. Places(b)' = Places(b) /\ Cardinality(Places(b)) \in Nat
    BY <1>1, PlacesCount DEF Places
  <2>2. refs'[b] = refs[b] + One(b, new) - One(b, emailz.socket_handler)
    BY <1>1 DEF Exchanged
  <2>3. refs[b] = Holders(b)
    BY DEF RegistrationInv, BalanceInv
  <2>4. One(b, new) \in Nat /\ One(b, emailz.socket_handler) \in Nat
    BY DEF One
  <2>5. Holders(b)' = One(b, new) + (IF b \in owned THEN 1 ELSE 0) + Cardinality(Places(b))
    BY <1>1, <1>2, <2>1, HoldersNext
  <2> QED
    BY <2>1, <2>2, <2>3, <2>4, <2>5, HoldersAre
<1>5. refs' \in [HandlerBlock -> Nat]
  <2>1. refs' = [b \in HandlerBlock |-> refs'[b]]
    BY <1>1 DEF Exchanged
  <2>2. \A b \in HandlerBlock : Holders(b)' \in Nat
    BY HoldersType
  <2> QED
    BY <1>4, <2>1, <2>2 DEF BalanceInv
<1>6. RegistrationTypeOK'
  BY <1>1, <1>2, <1>3, <1>5 DEF RegistrationInv, RegistrationTypeOK
<1>7. SlotInv' /\ StartInv' /\ BaseInv'
  BY <1>1, <1>2, <1>3 DEF RegistrationInv, SlotInv, StartInv, BaseInv
<1>8. TakenOverInv'
  BY <1>1, <1>3 DEF RegistrationInv, SlotInv, TakenOverInv
<1> QED
  BY <1>4, <1>6, <1>7, <1>8 DEF RegistrationInv
LEMMA AppReleasesOne ==
  ASSUME RegistrationInv, NEW old \in owned, AppReleases(old)
  PROVE  RegistrationInv'
<1>1. /\ old \in HandlerBlock /\ owned' = owned \ {old}
      /\ emailz' = emailz /\ listener' = listener /\ peer' = peer /\ lost' = lost /\ past' = past
      /\ refs' = Exchanged(old, NULL)
  BY DEF RegistrationInv, RegistrationTypeOK, AppReleases
<1>2. BalanceInv'
  <2> SUFFICES ASSUME NEW b \in HandlerBlock PROVE refs'[b] = Holders(b)'
    BY DEF BalanceInv
  <2>1. Places(b)' = Places(b) /\ Cardinality(Places(b)) \in Nat
    BY <1>1, PlacesCount DEF Places
  <2>2. refs'[b] = refs[b] + One(b, NULL) - One(b, old)
    BY <1>1 DEF Exchanged
  <2>3. refs[b] = Holders(b)
    BY DEF RegistrationInv, BalanceInv
  <2>4. One(b, NULL) = 0 /\ One(b, old) = (IF b = old THEN 1 ELSE 0) /\ One(b, emailz.socket_handler) \in Nat
    BY RegistrationAssumption DEF One
  <2>5. (IF b \in owned' THEN 1 ELSE 0) = (IF b \in owned THEN 1 ELSE 0) - (IF b = old THEN 1 ELSE 0)
    BY <1>1
  <2>6. Holders(b)' = One(b, emailz.socket_handler) + (IF b \in owned' THEN 1 ELSE 0) + Cardinality(Places(b))
    BY <1>1, <2>1, HoldersNext
  <2>7. Holders(b) = One(b, emailz.socket_handler) + (IF b \in owned THEN 1 ELSE 0) + Cardinality(Places(b))
    BY HoldersAre
  <2> QED
    BY <2>1, <2>2, <2>3, <2>4, <2>5, <2>6, <2>7
<1>3. refs' \in [HandlerBlock -> Nat]
  <2>1. refs' = [b \in HandlerBlock |-> refs'[b]]
    BY <1>1 DEF Exchanged
  <2> QED
    BY <1>2, <2>1, HoldersType DEF BalanceInv
<1>4. RegistrationTypeOK'
  BY <1>1, <1>3 DEF RegistrationInv, RegistrationTypeOK
<1>5. SlotInv' /\ TakenOverInv' /\ StartInv' /\ BaseInv'
  BY <1>1 DEF RegistrationInv, SlotInv, TakenOverInv, StartInv, BaseInv
<1> QED
  BY <1>2, <1>4, <1>5 DEF RegistrationInv

LEMMA SetsHandler ==
  ASSUME RegistrationInv, NEW p \in Peer, NEW slot \in Slots, NEW new \in owned \cup {NULL},
         socket_set_handler(p, slot, new)
  PROVE  RegistrationInv'
<1> DEFINE old == peer[p].slot[slot]
<1>1. /\ peer \in [Peer -> Connection] /\ new \in Handlers /\ peer[p].mem = "live"
      /\ peer' = [peer EXCEPT ![p].slot[slot] = new]
      /\ emailz' = emailz /\ listener' = listener /\ owned' = owned /\ lost' = lost /\ past' = past
      /\ refs' = Exchanged(old, new)
  BY DEF RegistrationInv, RegistrationTypeOK, socket_set_handler, Handlers
<1>2. /\ peer' \in [Peer -> Connection]
      /\ \A r \in Peer : /\ r # p => peer'[r] = peer[r]
                         /\ peer'[r].mem = peer[r].mem
                         /\ peer'[r].socket_handler = peer[r].socket_handler
                         /\ peer'[r].handler_queue = peer[r].handler_queue
                         /\ peer'[r].record = peer[r].record
                         /\ peer'[r].record_path = peer[r].record_path
  BY <1>1 DEF Connection
<1>3. BalanceInv'
  <2> SUFFICES ASSUME NEW b \in HandlerBlock PROVE refs'[b] = Holders(b)'
    BY DEF BalanceInv
  <2>1. Cardinality(Places(b)') = Cardinality(Places(b)) + One(b, new) - One(b, old)
    BY <1>1, PlacesExchanged
  <2>2. refs'[b] = refs[b] + One(b, new) - One(b, old)
    BY <1>1 DEF Exchanged
  <2>3. refs[b] = Holders(b)
    BY DEF RegistrationInv, BalanceInv
  <2>4. One(b, new) \in Nat /\ One(b, old) \in Nat /\ One(b, emailz.socket_handler) \in Nat
        /\ Cardinality(Places(b)) \in Nat /\ (IF b \in owned THEN 1 ELSE 0) \in Nat
    BY PlacesCount DEF One
  <2>5. Holders(b)' = One(b, emailz.socket_handler) + (IF b \in owned THEN 1 ELSE 0) + Cardinality(Places(b)')
    BY <1>1, HoldersNext
  <2>6. Holders(b) = One(b, emailz.socket_handler) + (IF b \in owned THEN 1 ELSE 0) + Cardinality(Places(b))
    BY HoldersAre
  <2> HIDE DEF old
  <2> QED
    BY <2>1, <2>2, <2>3, <2>4, <2>5, <2>6
<1>4. refs' \in [HandlerBlock -> Nat]
  <2>1. refs' = [b \in HandlerBlock |-> refs'[b]]
    BY <1>1 DEF Exchanged
  <2> QED
    BY <1>3, <2>1, HoldersType DEF BalanceInv
<1>5. RegistrationTypeOK'
  BY <1>1, <1>2, <1>4 DEF RegistrationInv, RegistrationTypeOK
<1>6. SlotInv'
  BY <1>1, <1>2 DEF RegistrationInv, SlotInv
<1>7. TakenOverInv' /\ StartInv' /\ BaseInv'
  <2>1. TakenOverInv'
    BY <1>1, <1>2 DEF RegistrationInv, TakenOverInv
  <2>2. StartInv'
    BY <1>1, <1>2 DEF RegistrationInv, StartInv
  <2>3. BaseInv'
    BY <1>1, <1>2 DEF RegistrationInv, BaseInv
  <2> QED
    BY <2>1, <2>2, <2>3
<1> QED
  BY <1>3, <1>5, <1>6, <1>7 DEF RegistrationInv

-------------------------------------------------------------------------------
(***************************************************************************)
(* The steps of the library.                                               *)
(***************************************************************************)
LEMMA StartsInv ==
  ASSUME RegistrationInv, Starts
  PROVE  RegistrationInv'
<1>1. /\ emailz \in Emailz /\ ~listener.started
      /\ listener' = [started |-> TRUE, handler_queue |-> emailz.handler_queue]
      /\ emailz' = emailz /\ peer' = peer /\ owned' = owned /\ refs' = refs /\ lost' = lost
  BY DEF RegistrationInv, RegistrationTypeOK, Starts, ListenerQueue
<1>2. /\ listener'.started /\ listener'.handler_queue = emailz.handler_queue
      /\ listener' \in Listener
  BY <1>1 DEF Emailz, Listener
<1>3. /\ past' \subseteq Past
      /\ \A w \in {"replaced", "refused"} : w \in past' <=> w \in past
      /\ "ready" \in past' => "ready" \in past \/ (emailz.handler_queue /\ emailz.socket_handler # NULL)
  BY DEF RegistrationInv, RegistrationTypeOK, Starts, Past
<1>4. BalanceInv'
  <2>1. \A b : Places(b)' = Places(b)
    BY <1>1 DEF Places
  <2> QED
    BY <1>1, <2>1, SameCopies
<1>5. RegistrationTypeOK'
  BY <1>1, <1>2, <1>3 DEF RegistrationInv, RegistrationTypeOK
<1>6. SlotInv' /\ TakenOverInv' /\ BaseInv'
  BY <1>1, <1>3 DEF RegistrationInv, SlotInv, TakenOverInv, BaseInv
<1>7. StartInv'
  BY <1>1, <1>2, <1>3 DEF RegistrationInv, StartInv
<1> QED
  BY <1>4, <1>5, <1>6, <1>7 DEF RegistrationInv

LEMMA AcceptsInv ==
  ASSUME RegistrationInv, NEW p \in Peer, Accepts(p)
  PROVE  RegistrationInv'
<1>1. /\ peer \in [Peer -> Connection] /\ emailz \in Emailz
      /\ listener.started /\ peer[p].mem = "none"
      /\ emailz' = emailz /\ listener' = listener /\ owned' = owned /\ refs' = refs /\ past' = past
  BY DEF RegistrationInv, RegistrationTypeOK, Accepts
<1>2. CASE ~listener.handler_queue /\ lost' = lost \cup {p} /\ UNCHANGED peer
  <2>1. BalanceInv'
    <3>1. \A b : Places(b)' = Places(b)
      BY <1>2 DEF Places
    <3> QED
      BY <1>1, <3>1, SameCopies
  <2>2. RegistrationTypeOK'
    BY <1>1, <1>2 DEF RegistrationInv, RegistrationTypeOK
  <2>3. SlotInv' /\ TakenOverInv' /\ StartInv' /\ BaseInv'
    BY <1>1, <1>2 DEF RegistrationInv, SlotInv, TakenOverInv, StartInv, BaseInv
  <2> QED
    BY <2>1, <2>2, <2>3 DEF RegistrationInv
<1>3. CASE listener.handler_queue /\ lost' = lost /\ ~UNCHANGED peer
  <2> DEFINE base == IF emailz.socket_record THEN emailz.record_base ELSE peer[p].record_path
             c == [peer[p] EXCEPT !.mem = "live", !.socket_handler = emailz.socket_handler,
                                  !.handler_queue = emailz.handler_queue,
                                  !.record = emailz.socket_record, !.record_path = base]
  <2>1. peer' = [peer EXCEPT ![p] = c]
    BY <1>1, <1>3 DEF Accepts
  <2>2. peer[p] \in Connection /\ base \in Bases
    BY <1>1 DEF Emailz, Connection
  <2>3. /\ c \in Connection
        /\ c.mem = "live" /\ c.socket_handler = emailz.socket_handler
        /\ c.handler_queue = emailz.handler_queue /\ c.slot = peer[p].slot
        /\ c.record = emailz.socket_record
        /\ emailz.socket_record => c.record_path = emailz.record_base
    <3> HIDE DEF base
    <3>1. c \in Connection /\ c.record_path = base
      BY <1>1, <2>2 DEF Emailz, Connection
    <3>2. emailz.socket_record => base = emailz.record_base
      BY DEF base
    <3>3. /\ c.mem = "live" /\ c.socket_handler = emailz.socket_handler
          /\ c.handler_queue = emailz.handler_queue /\ c.slot = peer[p].slot
          /\ c.record = emailz.socket_record
      BY <2>2 DEF Connection
    <3> QED
      BY <3>1, <3>2, <3>3
  <2> HIDE DEF c, base
  <2>4. /\ peer' \in [Peer -> Connection] /\ peer'[p] = c
        /\ \A r \in Peer : r # p => peer'[r] = peer[r]
    BY <1>1, <2>1, <2>3
  <2>5. BalanceInv'
    <3>1. \A r \in Peer : \A s \in Slots : peer'[r].slot[s] = peer[r].slot[s]
      BY <2>3, <2>4
    <3>2. \A b : Places(b)' = Places(b)
      BY <3>1 DEF Places
    <3> QED
      BY <1>1, <3>2, SameCopies
  <2>6. RegistrationTypeOK'
    BY <1>1, <1>3, <2>4 DEF RegistrationInv, RegistrationTypeOK
  <2>7. SlotInv' /\ TakenOverInv'
    BY <1>1, <2>3, <2>4 DEF RegistrationInv, SlotInv, TakenOverInv
  <2>8. StartInv'
    BY <1>1, <1>3, <2>3, <2>4 DEF RegistrationInv, StartInv
  <2>9. BaseInv'
    BY <1>1, <2>3, <2>4 DEF RegistrationInv, BaseInv
  <2> QED
    BY <2>5, <2>6, <2>7, <2>8, <2>9 DEF RegistrationInv
<1>4. CASE UNCHANGED <<registrationVars>>
  <2>1. BalanceInv'
    <3>1. \A b : Places(b)' = Places(b)
      BY <1>4 DEF Places, registrationVars
    <3> QED
      BY <1>4, <3>1, SameCopies DEF registrationVars
  <2> QED
    BY <1>4, <2>1 DEF registrationVars, RegistrationInv, RegistrationTypeOK, SlotInv, TakenOverInv,
                      StartInv, BaseInv
<1> QED
  BY <1>1, <1>2, <1>3, <1>4 DEF Accepts, registrationVars

LEMMA DestroysInv ==
  ASSUME RegistrationInv, NEW p \in Peer, Destroys(p)
  PROVE  RegistrationInv'
<1> DEFINE slots == [s \in Slots |-> IF s \in Released THEN NULL ELSE peer[p].slot[s]]
           c == [peer[p] EXCEPT !.mem = "freed", !.socket_handler = NULL, !.slot = slots]
<1>1. /\ peer \in [Peer -> Connection] /\ peer[p] \in Connection /\ peer[p].mem = "live"
      /\ peer' = [peer EXCEPT ![p] = c]
      /\ emailz' = emailz /\ listener' = listener /\ owned' = owned /\ lost' = lost /\ past' = past
      /\ refs' = [b \in HandlerBlock |-> refs[b] - Cardinality({s \in Released : peer[p].slot[s] = b})]
  BY DEF RegistrationInv, RegistrationTypeOK, Destroys
<1>2. slots \in [Slots -> Handlers]
  BY <1>1 DEF Connection, Handlers
<1>3. /\ c \in Connection /\ c.mem = "freed" /\ c.socket_handler = NULL /\ c.slot = slots
      /\ c.record = peer[p].record /\ c.record_path = peer[p].record_path
  <2> HIDE DEF slots
  <2> QED
    BY <1>1, <1>2 DEF Connection, Handlers
<1>4. \A s \in Slots : slots[s] = IF s \in Released THEN NULL ELSE peer[p].slot[s]
  OBVIOUS
<1> HIDE DEF c, slots
<1>5. /\ peer' \in [Peer -> Connection] /\ peer'[p] = c
      /\ \A r \in Peer : r # p => peer'[r] = peer[r]
  BY <1>1, <1>3
<1>6. BalanceInv'
  <2> SUFFICES ASSUME NEW b \in HandlerBlock PROVE refs'[b] = Holders(b)'
    BY DEF BalanceInv
  <2> DEFINE R == {s \in Released : peer[p].slot[s] = b}
             PR == {<<p, s>> : s \in R}
  <2>1. R \subseteq Slots /\ Released \subseteq Slots
    BY DEF Released, Slots
  <2>2. Cardinality(PR) = Cardinality(R)
    BY <2>1, PlacesOfOne
  <2>3. b # NULL
    BY RegistrationAssumption
  <2>4. PR \subseteq Places(b)
    BY <2>1 DEF Places
  <2>5. Places(b)' = Places(b) \ PR
    <3>1. \A r \in Peer : \A s \in Slots :
            peer'[r].slot[s] = b <=> peer[r].slot[s] = b /\ ~(r = p /\ s \in Released)
      BY <1>3, <1>4, <1>5, <2>3
    <3>2. \A r \in Peer : \A s \in Slots :
            <<r, s>> \in PR <=> r = p /\ s \in Released /\ peer[r].slot[s] = b
      OBVIOUS
    <3>3. Places(b)' = {q \in Peer \X Slots : peer'[q[1]].slot[q[2]] = b}
      BY DEF Places
    <3>4. Places(b) = {q \in Peer \X Slots : peer[q[1]].slot[q[2]] = b}
      BY DEF Places
    <3>5. \A q \in Peer \X Slots : q[1] \in Peer /\ q[2] \in Slots /\ q = <<q[1], q[2]>>
      OBVIOUS
    <3> HIDE DEF PR, R
    <3> QED
      BY <3>1, <3>2, <3>3, <3>4, <3>5
  <2> HIDE DEF PR
  <2>6. Cardinality(Places(b)') = Cardinality(Places(b)) - Cardinality(PR)
    <3>1. Places(b) \cap PR = PR
      BY <2>4
    <3> QED
      BY <2>5, <3>1, PlacesCount, FS_Difference
  <2>7. refs'[b] = refs[b] - Cardinality(R)
    BY <1>1
  <2>8. refs[b] = Holders(b)
    BY DEF RegistrationInv, BalanceInv
  <2>9. Holders(b)' = One(b, emailz.socket_handler) + (IF b \in owned THEN 1 ELSE 0) + Cardinality(Places(b)')
    BY <1>1, HoldersNext
  <2>10. Holders(b) = One(b, emailz.socket_handler) + (IF b \in owned THEN 1 ELSE 0) + Cardinality(Places(b))
    BY HoldersAre
  <2>11. /\ One(b, emailz.socket_handler) \in Nat /\ (IF b \in owned THEN 1 ELSE 0) \in Nat
         /\ Cardinality(Places(b)) \in Nat /\ Cardinality(R) \in Nat
    <3>1. IsFiniteSet(R)
      BY <2>1, SlotsFinite, FS_Subset
    <3> QED
      BY <3>1, PlacesCount, FS_CardinalityType DEF One
  <2> HIDE DEF R
  <2> QED
    BY <2>2, <2>6, <2>7, <2>8, <2>9, <2>10, <2>11
<1>7. refs' \in [HandlerBlock -> Nat]
  <2>1. refs' = [b \in HandlerBlock |-> refs'[b]]
    BY <1>1
  <2> QED
    BY <1>6, <2>1, HoldersType DEF BalanceInv
<1>8. RegistrationTypeOK'
  BY <1>1, <1>5, <1>7 DEF RegistrationInv, RegistrationTypeOK
<1>9. SlotInv'
  <2>1. \A s \in Slots \ {"auth_handler"} : slots[s] = NULL
    BY <1>4 DEF Slots, Released
  <2> QED
    BY <1>3, <1>5, <2>1 DEF RegistrationInv, SlotInv
<1>10. TakenOverInv' /\ StartInv' /\ BaseInv'
  BY <1>1, <1>3, <1>5 DEF RegistrationInv, TakenOverInv, StartInv, BaseInv
<1> QED
  BY <1>6, <1>8, <1>9, <1>10 DEF RegistrationInv

LEMMA NextRegistration ==
  RegistrationInv /\ [RegistrationNext]_registrationVars => RegistrationInv'
<1> SUFFICES ASSUME RegistrationInv, [RegistrationNext]_registrationVars PROVE RegistrationInv'
  OBVIOUS
<1>1. CASE set_handler_queue \/ \E enable \in BOOLEAN, base \in Bases \ {""} : record_enable(enable, base)
  BY <1>1, SetsUp
<1>2. CASE Starts
  BY <1>2, StartsInv
<1>3. ASSUME NEW b \in owned \cup {NULL}, set_socket_handler(b) PROVE RegistrationInv'
  BY <1>3, SetsSocketHandler
<1>4. ASSUME NEW b \in owned, AppReleases(b) PROVE RegistrationInv'
  BY <1>4, AppReleasesOne
<1>5. ASSUME NEW p \in Peer, Accepts(p) PROVE RegistrationInv'
  BY <1>5, AcceptsInv
<1>6. ASSUME NEW p \in Peer, Destroys(p) PROVE RegistrationInv'
  BY <1>6, DestroysInv
<1>7. ASSUME NEW p \in Peer, NEW slot \in Slots, NEW b \in owned \cup {NULL}, socket_set_handler(p, slot, b)
      PROVE RegistrationInv'
  BY <1>7, SetsHandler
<1>8. CASE UNCHANGED registrationVars
  <2>1. BalanceInv'
    <3>1. \A b : Places(b)' = Places(b)
      BY <1>8 DEF Places, registrationVars
    <3> QED
      BY <1>8, <3>1, SameCopies DEF registrationVars
  <2> QED
    BY <1>8, <2>1 DEF registrationVars, RegistrationInv, RegistrationTypeOK, SlotInv, TakenOverInv,
                      StartInv, BaseInv
<1> QED
  BY <1>1, <1>2, <1>3, <1>4, <1>5, <1>6, <1>7, <1>8 DEF RegistrationNext

-------------------------------------------------------------------------------
LEMMA RegistrationInvIsEnough == RegistrationInv => SetUpIsKept
<1> SUFFICES ASSUME RegistrationInv PROVE SetUpIsKept
  OBVIOUS
<1>1. CopiesBalance
  BY DEF RegistrationInv, BalanceInv, SlotInv, CopiesBalance
<1>2. CloseHandlerLives
  <2> SUFFICES ASSUME "replaced" \notin past, NEW p \in Peer, peer[p].socket_handler # NULL
               PROVE  refs[peer[p].socket_handler] > 0
    BY DEF CloseHandlerLives
  <2> DEFINE b == emailz.socket_handler
  <2>1. peer[p].socket_handler = b /\ b \in HandlerBlock
    BY DEF RegistrationInv, TakenOverInv, RegistrationTypeOK, Emailz, Handlers
  <2>2. refs[b] = One(b, b) + (IF b \in owned THEN 1 ELSE 0) + Cardinality(Places(b))
    BY <2>1, HoldersAre DEF RegistrationInv, BalanceInv
  <2>3. One(b, b) = 1 /\ Cardinality(Places(b)) \in Nat
    BY PlacesCount DEF One
  <2> HIDE DEF b
  <2> QED
    BY <2>1, <2>2, <2>3
<1>3. AllAreTold
  BY DEF RegistrationInv, StartInv, AllAreTold
<1>4. RecordsHaveBase
  BY DEF RegistrationInv, BaseInv, RecordsHaveBase
<1> QED
  BY <1>1, <1>2, <1>3, <1>4 DEF SetUpIsKept

\* Handlers are copied, kept and released as their setters say, every connection
\* is told of and every record has a base, for any handlers, connections and order
\* of calls (the setters, emailz_handle_accept, emailz_socket_destroy).
THEOREM SetUpStaysKept == RegistrationSpec => []SetUpIsKept
<1>1. RegistrationInv /\ [RegistrationNext]_registrationVars => RegistrationInv'
  BY NextRegistration
<1> QED
  BY <1>1, InitRegistration, RegistrationInvIsEnough, PTL DEF RegistrationSpec

\* The state stays well typed; the number of copies never falls below zero.
THEOREM RegistrationTyped == RegistrationSpec => []RegistrationTypeOK
<1>1. RegistrationInv /\ [RegistrationNext]_registrationVars => RegistrationInv'
  BY NextRegistration
<1>2. RegistrationInv => RegistrationTypeOK
  BY DEF RegistrationInv
<1> QED
  BY <1>1, <1>2, InitRegistration, PTL DEF RegistrationSpec

-------------------------------------------------------------------------------
(***************************************************************************)
(* The order of keys.  ByteAt(s, i) is the byte of s at i and one, and 0 behind *)
(* its end: a prefix comes first for the same reason as a smaller byte.    *)
(***************************************************************************)
ByteAt(s, i) == IF i \in 1..Len(s) THEN s[i] + 1 ELSE 0

FirstLess(s, t, i) ==
  /\ i \in Nat \ {0} /\ ByteAt(s, i) < ByteAt(t, i)
  /\ \A k \in 1..i - 1 : ByteAt(s, k) = ByteAt(t, k)

StartsWith(p, s) == Len(p) <= Len(s) /\ \A i \in 1..Len(p) : s[i] = p[i]

LEMMA AtIs ==
  ASSUME NEW s \in Seq(Byte), NEW i
  PROVE  /\ ByteAt(s, i) \in Nat
         /\ ByteAt(s, i) = 0 <=> i \notin 1..Len(s)
         /\ i \in 1..Len(s) => ByteAt(s, i) = s[i] + 1 /\ s[i] \in Nat
<1>1. i \in 1..Len(s) => s[i] \in Byte
  OBVIOUS
<1>2. CASE i \in 1..Len(s)
  <2>1. \A b \in Byte : b \in Nat /\ b + 1 \in Nat /\ b + 1 # 0
    BY DEF Byte
  <2>2. s[i] \in Nat /\ s[i] + 1 \in Nat /\ s[i] + 1 # 0
    BY <1>1, <1>2, <2>1
  <2> QED
    BY <1>2, <2>2 DEF ByteAt
<1>3. CASE i \notin 1..Len(s)
  BY <1>3 DEF ByteAt
<1> QED
  BY <1>2, <1>3

LEMMA AtJoined ==
  ASSUME NEW s \in Seq(Byte), NEW t \in Seq(Byte)
  PROVE  /\ \A i \in 1..Len(s) : ByteAt(s \o t, i) = ByteAt(s, i)
         /\ \A i \in Nat \ {0} : ByteAt(s \o t, Len(s) + i) = ByteAt(t, i)
<1>1. /\ s \o t \in Seq(Byte) /\ Len(s \o t) = Len(s) + Len(t)
      /\ Len(s) \in Nat /\ Len(t) \in Nat
      /\ \A i \in 1..Len(s) : (s \o t)[i] = s[i]
      /\ \A i \in 1..Len(t) : (s \o t)[Len(s) + i] = t[i]
  BY Joined
<1> DEFINE st == s \o t
<1> HIDE DEF st
<1>2. ASSUME NEW i \in 1..Len(s) PROVE ByteAt(st, i) = ByteAt(s, i)
  <2>1. i \in 1..Len(st) /\ st[i] = s[i]
    BY <1>1 DEF st
  <2> QED
    BY <2>1 DEF ByteAt
<1>3. ASSUME NEW i \in Nat \ {0} PROVE ByteAt(st, Len(s) + i) = ByteAt(t, i)
  <2>1. Len(s) + i \in 1..Len(st) <=> i \in 1..Len(t)
    BY <1>1 DEF st
  <2>2. i \in 1..Len(t) => st[Len(s) + i] = t[i]
    BY <1>1 DEF st
  <2> QED
    BY <2>1, <2>2 DEF ByteAt
<1> QED
  BY <1>2, <1>3 DEF st

LEMMA PrefixIs ==
  ASSUME NEW p \in Seq(Byte), NEW s \in Seq(Byte)
  PROVE  IsPrefix(p, s) <=> StartsWith(p, s)
<1>1. Len(p) \in Nat /\ Len(s) \in Nat
  OBVIOUS
<1>2. CASE Len(p) <= Len(s)
  <2> DEFINE u == SubSeq(p, 1, Len(p))
             v == SubSeq(s, 1, Len(p))
  <2>1. /\ u \in Seq(Byte) /\ Len(u) = Len(p) /\ \A i \in 1..Len(p) : u[i] = p[i]
        /\ v \in Seq(Byte) /\ Len(v) = Len(p) /\ \A i \in 1..Len(p) : v[i] = s[i]
    BY <1>2
  <2>2. IsPrefix(p, s) <=> u = v
    BY <1>2 DEF IsPrefix
  <2> HIDE DEF u, v
  <2>3. u = v <=> \A i \in 1..Len(p) : u[i] = v[i]
    BY <2>1, SameText
  <2> QED
    BY <1>2, <2>1, <2>2, <2>3 DEF StartsWith
<1>3. CASE ~(Len(p) <= Len(s))
  BY <1>3 DEF IsPrefix, StartsWith
<1> QED
  BY <1>2, <1>3

\* A prefix of a key, by the bytes.
LEMMA StartsAt ==
  ASSUME NEW p \in Seq(Byte), NEW s \in Seq(Byte)
  PROVE  StartsWith(p, s) <=> \A i \in 1..Len(p) : ByteAt(s, i) = ByteAt(p, i)
<1>1. Len(p) \in Nat /\ Len(s) \in Nat
  OBVIOUS
<1>2. ASSUME StartsWith(p, s), NEW i \in 1..Len(p) PROVE ByteAt(s, i) = ByteAt(p, i)
  <2>1. i \in 1..Len(s) /\ s[i] = p[i]
    BY <1>1, <1>2 DEF StartsWith
  <2> QED
    BY <2>1 DEF ByteAt
<1>3. ASSUME \A i \in 1..Len(p) : ByteAt(s, i) = ByteAt(p, i) PROVE StartsWith(p, s)
  <2>1. \A i \in 1..Len(p) : i \in 1..Len(s) /\ s[i] + 1 = p[i] + 1 /\ s[i] \in Nat /\ p[i] \in Nat
    BY <1>3, AtIs
  <2>2. Len(p) <= Len(s)
    BY <1>1, <2>1
  <2> QED
    BY <2>1, <2>2 DEF StartsWith
<1> QED
  BY <1>2, <1>3

LEMMA BeforeIs ==
  ASSUME NEW s \in Seq(Byte), NEW t \in Seq(Byte)
  PROVE  Before(s, t) <=> \E i : FirstLess(s, t, i)
<1>1. Len(s) \in Nat /\ Len(t) \in Nat
  OBVIOUS
<1>2. ASSUME IsStrictPrefix(s, t) PROVE \E i : FirstLess(s, t, i)
  <2>1. StartsWith(s, t) /\ s # t
    BY <1>2, PrefixIs DEF IsStrictPrefix
  <2>2. Len(s) <= Len(t) /\ \A i \in 1..Len(s) : s[i] = t[i]
    BY <2>1 DEF StartsWith
  <2>3. Len(s) # Len(t)
    BY <2>1, <2>2, SameText
  <2> DEFINE i == Len(s) + 1
  <2>4. i \in Nat \ {0} /\ i \notin 1..Len(s) /\ i \in 1..Len(t)
    BY <1>1, <2>2, <2>3
  <2>5. ByteAt(s, i) < ByteAt(t, i)
    BY <2>4, AtIs
  <2>6. \A k \in 1..i - 1 : ByteAt(s, k) = ByteAt(t, k)
    BY <1>1, <2>1, StartsAt
  <2> QED
    BY <2>4, <2>5, <2>6 DEF FirstLess
<1>3. ASSUME NEW i \in 1..Least(Len(s), Len(t)), s[i] < t[i], \A k \in 1..i - 1 : s[k] = t[k]
      PROVE  \E j : FirstLess(s, t, j)
  <2>1. i \in 1..Len(s) /\ i \in 1..Len(t)
    BY <1>1 DEF Least
  <2>2. i \in Nat \ {0} /\ ByteAt(s, i) < ByteAt(t, i)
    <3>1. /\ ByteAt(s, i) = s[i] + 1 /\ s[i] \in Nat
          /\ ByteAt(t, i) = t[i] + 1 /\ t[i] \in Nat
      BY <2>1, AtIs
    <3> QED
      BY <1>3, <3>1
  <2>3. \A k \in 1..i - 1 : k \in 1..Len(s) /\ k \in 1..Len(t)
    BY <1>1, <2>1
  <2>4. \A k \in 1..i - 1 : ByteAt(s, k) = ByteAt(t, k)
    BY <1>3, <2>3 DEF ByteAt
  <2> QED
    BY <2>2, <2>4 DEF FirstLess
<1>4. ASSUME NEW i, FirstLess(s, t, i) PROVE Before(s, t)
  <2>1. /\ i \in Nat \ {0} /\ ByteAt(s, i) < ByteAt(t, i)
        /\ \A k \in 1..i - 1 : ByteAt(s, k) = ByteAt(t, k)
    BY <1>4 DEF FirstLess
  <2>2. i \in 1..Len(t)
    BY <2>1, AtIs
  <2>3. CASE i \in 1..Len(s)
    <3>1. i \in 1..Least(Len(s), Len(t))
      BY <2>2, <2>3 DEF Least
    <3>2. s[i] < t[i]
      <4>1. /\ ByteAt(s, i) = s[i] + 1 /\ s[i] \in Nat
            /\ ByteAt(t, i) = t[i] + 1 /\ t[i] \in Nat
        BY <2>2, <2>3, AtIs
      <4> QED
        BY <2>1, <4>1
    <3>3. \A k \in 1..i - 1 : k \in 1..Len(s) /\ k \in 1..Len(t)
      BY <1>1, <2>2, <2>3
    <3>4. \A k \in 1..i - 1 : s[k] = t[k]
      <4>1. \A k \in 1..i - 1 : s[k] + 1 = t[k] + 1 /\ s[k] \in Nat /\ t[k] \in Nat
        BY <2>1, <3>3, AtIs
      <4> QED
        BY <4>1
    <3> QED
      BY <3>1, <3>2, <3>4 DEF Before
  <2>4. CASE i \notin 1..Len(s)
    <3>1. Len(s) < i
      BY <1>1, <2>1, <2>4
    <3>2. ASSUME Len(s) + 1 < i PROVE FALSE
      <4>1. Len(s) + 1 \in 1..i - 1 /\ Len(s) + 1 \notin 1..Len(s) /\ Len(s) + 1 \in 1..Len(t)
        BY <1>1, <2>1, <2>2, <3>2
      <4> QED
        BY <2>1, <4>1, AtIs
    <3>3. i - 1 = Len(s)
      BY <1>1, <2>1, <3>1, <3>2
    <3>4. StartsWith(s, t)
      BY <2>1, <3>3, StartsAt
    <3>5. s # t
      BY <2>2, <2>4
    <3> QED
      BY <3>4, <3>5, PrefixIs DEF Before, IsStrictPrefix
  <2> QED
    BY <2>3, <2>4
<1> QED
  BY <1>2, <1>3, <1>4 DEF Before

\* The order is one: no key is before itself, and of two keys one is before the other.
LEMMA BeforeIrreflexive ==
  ASSUME NEW s \in Seq(Byte)
  PROVE  ~Before(s, s)
<1>1. \A i : ByteAt(s, i) \in Nat
  BY AtIs
<1> QED
  BY <1>1, BeforeIs DEF FirstLess

LEMMA BeforeTransitive ==
  ASSUME NEW s \in Seq(Byte), NEW t \in Seq(Byte), NEW u \in Seq(Byte), Before(s, t), Before(t, u)
  PROVE  Before(s, u)
<1>1. PICK i : FirstLess(s, t, i)
  BY BeforeIs
<1>2. PICK j : FirstLess(t, u, j)
  BY BeforeIs
<1>3. \A k : ByteAt(s, k) \in Nat /\ ByteAt(t, k) \in Nat /\ ByteAt(u, k) \in Nat
  BY AtIs
<1>4. i \in Nat \ {0} /\ j \in Nat \ {0}
  BY <1>1, <1>2 DEF FirstLess
<1>5. CASE i < j
  <2>1. i \in 1..j - 1 /\ \A k \in 1..i - 1 : k \in 1..j - 1
    BY <1>4, <1>5
  <2>2. FirstLess(s, u, i)
    BY <1>1, <1>2, <2>1 DEF FirstLess
  <2> QED
    BY <2>2, BeforeIs
<1>6. CASE j < i
  <2>1. j \in 1..i - 1 /\ \A k \in 1..j - 1 : k \in 1..i - 1
    BY <1>4, <1>6
  <2>2. FirstLess(s, u, j)
    BY <1>1, <1>2, <2>1 DEF FirstLess
  <2> QED
    BY <2>2, BeforeIs
<1>7. CASE i = j
  <2>1. ByteAt(s, i) < ByteAt(u, i)
    BY <1>1, <1>2, <1>3, <1>7 DEF FirstLess
  <2>2. FirstLess(s, u, i)
    BY <1>1, <1>2, <1>7, <2>1 DEF FirstLess
  <2> QED
    BY <2>2, BeforeIs
<1> QED
  BY <1>4, <1>5, <1>6, <1>7

\* What is told by the first byte that differs.
LEMMA BeforeAt ==
  ASSUME NEW s \in Seq(Byte), NEW t \in Seq(Byte), NEW i \in Nat \ {0},
         \A k \in 1..i - 1 : ByteAt(s, k) = ByteAt(t, k), ByteAt(s, i) # ByteAt(t, i)
  PROVE  Before(s, t) <=> ByteAt(s, i) < ByteAt(t, i)
<1>1. \A k : ByteAt(s, k) \in Nat /\ ByteAt(t, k) \in Nat
  BY AtIs
<1>2. ASSUME ByteAt(s, i) < ByteAt(t, i) PROVE Before(s, t)
  BY <1>2, BeforeIs DEF FirstLess
<1>3. ASSUME Before(s, t) PROVE ByteAt(s, i) < ByteAt(t, i)
  <2>1. PICK j : FirstLess(s, t, j)
    BY <1>3, BeforeIs
  <2>2. j \in Nat \ {0} /\ ByteAt(s, j) < ByteAt(t, j) /\ \A k \in 1..j - 1 : ByteAt(s, k) = ByteAt(t, k)
    BY <2>1 DEF FirstLess
  <2>3. ~(j < i)
    <3>1. j < i => j \in 1..i - 1
      BY <2>2
    <3> QED
      BY <1>1, <2>2, <3>1
  <2>4. ~(i < j)
    <3>1. i < j => i \in 1..j - 1
      BY <2>2
    <3> QED
      BY <2>2, <3>1
  <2>5. i = j
    BY <2>2, <2>3, <2>4
  <2> QED
    BY <2>2, <2>5
<1> QED
  BY <1>2, <1>3

LEMMA BeforeTotal ==
  ASSUME NEW s \in Seq(Byte), NEW t \in Seq(Byte), s # t, ~Before(s, t)
  PROVE  Before(t, s)
<1> DEFINE D == {i \in Nat : i # 0 /\ ByteAt(s, i) # ByteAt(t, i)}
<1>1. D # {}
  <2>1. ASSUME D = {} PROVE FALSE
    <3>1. \A i \in 1..Len(s) : i \in Nat /\ i # 0
      BY AtIs
    <3>2. \A i \in 1..Len(t) : i \in Nat /\ i # 0
      BY AtIs
    <3>3. StartsWith(s, t) /\ StartsWith(t, s)
      BY <2>1, <3>1, <3>2, StartsAt
    <3>4. Len(s) = Len(t) /\ \A i \in 1..Len(s) : s[i] = t[i]
      <4>1. Len(s) \in Nat /\ Len(t) \in Nat
        OBVIOUS
      <4> QED
        BY <3>3, <4>1 DEF StartsWith
    <3> QED
      BY <3>4, SameText
  <2> QED
    BY <2>1
<1>2. PICK i \in D : \A m \in D : i <= m
  <2>1. D \subseteq Nat
    OBVIOUS
  <2> HIDE DEF D
  <2> QED
    BY <1>1, <2>1, LeastNat
<1>3. i \in Nat \ {0} /\ ByteAt(s, i) # ByteAt(t, i)
  OBVIOUS
<1>4. \A k \in 1..i - 1 : ByteAt(s, k) = ByteAt(t, k)
  <2>1. \A k \in 1..i - 1 : k \in Nat /\ k # 0 /\ ~(i <= k)
    BY <1>3
  <2> QED
    BY <1>2, <2>1
<1>5. ~(ByteAt(s, i) < ByteAt(t, i))
  BY <1>3, <1>4, BeforeAt
<1>6. ByteAt(t, i) < ByteAt(s, i)
  <2>1. ByteAt(s, i) \in Nat /\ ByteAt(t, i) \in Nat
    BY AtIs
  <2> QED
    BY <1>3, <1>5, <2>1
<1> HIDE DEF D
<1> QED
  BY <1>3, <1>4, <1>6, BeforeIs DEF FirstLess

\* What lies between two keys that start alike starts so too.
LEMMA Between ==
  ASSUME NEW p \in Seq(Byte), NEW s \in Seq(Byte), NEW t \in Seq(Byte), NEW u \in Seq(Byte),
         StartsWith(p, s), StartsWith(p, u), Before(s, t), Before(t, u)
  PROVE  StartsWith(p, t)
<1>1. PICK i : FirstLess(s, t, i)
  BY BeforeIs
<1>2. PICK j : FirstLess(t, u, j)
  BY BeforeIs
<1>3. \A k : ByteAt(s, k) \in Nat /\ ByteAt(t, k) \in Nat /\ ByteAt(u, k) \in Nat
  BY AtIs
<1>4. /\ i \in Nat \ {0} /\ ByteAt(s, i) < ByteAt(t, i) /\ \A k \in 1..i - 1 : ByteAt(s, k) = ByteAt(t, k)
      /\ j \in Nat \ {0} /\ ByteAt(t, j) < ByteAt(u, j) /\ \A k \in 1..j - 1 : ByteAt(t, k) = ByteAt(u, k)
  BY <1>1, <1>2 DEF FirstLess
<1>5. \A k \in 1..Len(p) : ByteAt(s, k) = ByteAt(p, k) /\ ByteAt(u, k) = ByteAt(p, k)
  BY StartsAt
<1>6. Len(p) < i
  <2>1. ASSUME i <= Len(p) PROVE FALSE
    <3>1. i \in 1..Len(p)
      BY <1>4, <2>1
    <3>2. ByteAt(s, i) = ByteAt(u, i)
      BY <1>5, <3>1
    <3>3. CASE j < i
      <4>1. j \in 1..i - 1 /\ j \in 1..Len(p)
        BY <1>4, <2>1, <3>3
      <4>2. ByteAt(s, j) = ByteAt(t, j) /\ ByteAt(s, j) = ByteAt(u, j)
        BY <1>4, <1>5, <4>1
      <4> QED
        BY <1>3, <1>4, <4>2
    <3>4. CASE j = i
      BY <1>3, <1>4, <3>2, <3>4
    <3>5. CASE i < j
      <4>1. i \in 1..j - 1
        BY <1>4, <3>5
      <4> QED
        BY <1>3, <1>4, <3>2, <4>1
    <3> QED
      BY <1>4, <3>3, <3>4, <3>5
  <2>2. Len(p) \in Nat
    OBVIOUS
  <2> QED
    BY <1>4, <2>1, <2>2
<1>7. \A k \in 1..Len(p) : k \in 1..i - 1
  BY <1>4, <1>6
<1>8. \A k \in 1..Len(p) : ByteAt(t, k) = ByteAt(p, k)
  BY <1>4, <1>5, <1>7
<1> QED
  BY <1>8, StartsAt

\* Behind a common prefix, the order is that of the rest.
LEMMA BeforeRest ==
  ASSUME NEW p \in Seq(Byte), NEW s \in Seq(Byte), NEW t \in Seq(Byte), Before(s, t)
  PROVE  Before(p \o s, p \o t)
<1>1. PICK i : FirstLess(s, t, i)
  BY BeforeIs
<1>2. /\ i \in Nat \ {0} /\ ByteAt(s, i) < ByteAt(t, i) /\ \A k \in 1..i - 1 : ByteAt(s, k) = ByteAt(t, k)
  BY <1>1 DEF FirstLess
<1> DEFINE ps == p \o s
           pt == p \o t
           n == Len(p)
<1>3. ps \in Seq(Byte) /\ pt \in Seq(Byte) /\ n \in Nat
  OBVIOUS
<1>4. /\ \A k \in 1..n : ByteAt(ps, k) = ByteAt(p, k) /\ ByteAt(pt, k) = ByteAt(p, k)
      /\ \A k \in Nat \ {0} : ByteAt(ps, n + k) = ByteAt(s, k) /\ ByteAt(pt, n + k) = ByteAt(t, k)
  BY AtJoined
<1> HIDE DEF ps, pt, n
<1>5. n + i \in Nat \ {0} /\ ByteAt(ps, n + i) < ByteAt(pt, n + i)
  BY <1>2, <1>3, <1>4
<1>6. ASSUME NEW k \in 1..(n + i) - 1 PROVE ByteAt(ps, k) = ByteAt(pt, k)
  <2>1. CASE k <= n
    <3>1. k \in 1..n
      BY <1>2, <1>3, <2>1
    <3> QED
      BY <1>4, <3>1
  <2>2. CASE n < k
    <3> DEFINE m == k - n
    <3>1. m \in Nat \ {0} /\ m \in 1..i - 1 /\ k = n + m
      BY <1>2, <1>3, <2>2
    <3> HIDE DEF m
    <3> QED
      BY <1>2, <1>4, <3>1
  <2> QED
    BY <1>2, <1>3, <2>1, <2>2
<1>7. FirstLess(ps, pt, n + i)
  BY <1>5, <1>6 DEF FirstLess
<1>8. Before(ps, pt)
  BY <1>3, <1>7, BeforeIs
<1> QED
  BY <1>8 DEF ps, pt

\* A key before one that starts with p starts with p itself, or is before all
\* that do.
LEMMA BeforeAll ==
  ASSUME NEW p \in Seq(Byte), NEW s \in Seq(Byte), NEW t \in Seq(Byte), NEW u \in Seq(Byte),
         Before(s, t), StartsWith(p, t), StartsWith(p, u)
  PROVE  StartsWith(p, s) \/ Before(s, u)
<1>1. PICK i : FirstLess(s, t, i)
  BY BeforeIs
<1>2. /\ i \in Nat \ {0} /\ ByteAt(s, i) < ByteAt(t, i) /\ \A k \in 1..i - 1 : ByteAt(s, k) = ByteAt(t, k)
  BY <1>1 DEF FirstLess
<1>3. \A k \in 1..Len(p) : ByteAt(t, k) = ByteAt(p, k) /\ ByteAt(u, k) = ByteAt(p, k)
  BY StartsAt
<1>4. Len(p) \in Nat
  OBVIOUS
<1>5. CASE i <= Len(p)
  <2>1. i \in 1..Len(p) /\ \A k \in 1..i - 1 : k \in 1..Len(p)
    BY <1>2, <1>4, <1>5
  <2>2. FirstLess(s, u, i)
    BY <1>2, <1>3, <2>1 DEF FirstLess
  <2> QED
    BY <2>2, BeforeIs
<1>6. CASE Len(p) < i
  <2>1. \A k \in 1..Len(p) : k \in 1..i - 1
    BY <1>2, <1>4, <1>6
  <2>2. \A k \in 1..Len(p) : ByteAt(s, k) = ByteAt(p, k)
    BY <1>2, <1>3, <2>1
  <2> QED
    BY <2>2, StartsAt
<1> QED
  BY <1>2, <1>4, <1>5, <1>6

-------------------------------------------------------------------------------
(***************************************************************************)
(* The split of a key, byte by byte: the state behind a text is that       *)
(* behind what is before its last byte, a byte further.                    *)
(***************************************************************************)
SplitState == [parts : Seq(Seq(Byte)), part : Seq(Byte), half : BOOLEAN]

Behind(st, s) ==
  LET after[n \in 0..Len(s)] == IF n = 0 THEN st ELSE SplitAt(after[n - 1], s[n])
  IN  after[Len(s)]

Ended(st) == Append(st.parts, IF st.half THEN Append(st.part, Underscore) ELSE st.part)

Run(st, s, f) ==
  /\ f[0] = st
  /\ \A n \in 1..Len(s) : f[n] = SplitAt(f[n - 1], s[n])
  /\ \A n \in 0..Len(s) : f[n] \in SplitState

LEMMA PartsIs ==
  ASSUME NEW key
  PROVE  Parts(key) = Ended(Behind(SplitStart, key))
BY DEF Parts, Ended, Behind

LEMMA SplitFields ==
  ASSUME NEW st \in SplitState, NEW c \in Byte
  PROVE  /\ SplitAt(st, c) \in SplitState
         /\ c # Underscore =>
              /\ SplitAt(st, c).parts = st.parts /\ SplitAt(st, c).half = FALSE
              /\ SplitAt(st, c).part = (IF st.half THEN Append(st.part, Underscore) ELSE st.part) \o <<c>>
         /\ c = Underscore /\ st.half =>
              /\ SplitAt(st, c).parts = Append(st.parts, st.part) /\ SplitAt(st, c).half = FALSE
              /\ SplitAt(st, c).part = <<>>
         /\ c = Underscore /\ ~st.half =>
              /\ SplitAt(st, c).parts = st.parts /\ SplitAt(st, c).half = TRUE
              /\ SplitAt(st, c).part = st.part
<1>1. st \in [parts : Seq(Seq(Byte)), part : Seq(Byte), half : BOOLEAN]
  BY DEF SplitState
<1>2. Underscore \in Byte
  BY DEF Underscore, Byte
<1>3. CASE c # Underscore
  <2> DEFINE p == (IF st.half THEN Append(st.part, Underscore) ELSE st.part) \o <<c>>
  <2>1. p \in Seq(Byte)
    BY <1>1, <1>2
  <2>2. SplitAt(st, c) = [st EXCEPT !.part = p, !.half = FALSE]
    BY <1>3 DEF SplitAt
  <2> HIDE DEF p
  <2>3. SplitAt(st, c) = [parts |-> st.parts, part |-> p, half |-> FALSE]
    BY <1>1, <2>2
  <2>4. [parts |-> st.parts, part |-> p, half |-> FALSE] \in SplitState
    BY <1>1, <2>1 DEF SplitState
  <2> QED
    BY <1>3, <2>3, <2>4 DEF p
<1>4. CASE c = Underscore /\ st.half
  <2>1. SplitAt(st, c) = [parts |-> Append(st.parts, st.part), part |-> <<>>, half |-> FALSE]
    BY <1>4 DEF SplitAt
  <2>2. Append(st.parts, st.part) \in Seq(Seq(Byte)) /\ <<>> \in Seq(Byte)
    BY <1>1
  <2> QED
    BY <1>4, <2>1, <2>2 DEF SplitState
<1>5. CASE c = Underscore /\ ~st.half
  <2>1. SplitAt(st, c) = [st EXCEPT !.half = TRUE]
    BY <1>5 DEF SplitAt
  <2> QED
    BY <1>1, <1>5, <2>1 DEF SplitState
<1> QED
  BY <1>3, <1>4, <1>5

LEMMA SplitCloses ==
  ASSUME NEW st \in SplitState, st.half
  PROVE  /\ SplitAt(st, Underscore).parts = Append(st.parts, st.part)
         /\ SplitAt(st, Underscore).half = FALSE /\ SplitAt(st, Underscore).part = <<>>
<1>1. SplitAt(st, Underscore) = [parts |-> Append(st.parts, st.part), part |-> <<>>, half |-> FALSE]
  BY DEF SplitAt
<1> QED
  BY <1>1

LEMMA SplitHalves ==
  ASSUME NEW st \in SplitState, ~st.half
  PROVE  /\ SplitAt(st, Underscore).parts = st.parts
         /\ SplitAt(st, Underscore).half = TRUE /\ SplitAt(st, Underscore).part = st.part
<1>1. SplitAt(st, Underscore) = [st EXCEPT !.half = TRUE]
  BY DEF SplitAt
<1> QED
  BY <1>1 DEF SplitState

LEMMA StartType == SplitStart \in SplitState
BY DEF SplitStart, SplitState

LEMMA BehindRuns ==
  ASSUME NEW st \in SplitState, NEW s \in Seq(Byte)
  PROVE  \E f : Run(st, s, f) /\ Behind(st, s) = f[Len(s)]
<1> DEFINE n == Len(s)
           g == [kx \in (1..n) \X SplitState |-> SplitAt(kx[2], s[kx[1]])]
           Is(f) == f = [k \in 0..n |-> IF k = 0 THEN st ELSE SplitAt(f[k - 1], s[k])]
           after == CHOOSE f : Is(f)
           T == [k \in 0..n |-> SplitState]
<1>1. Behind(st, s) = after[n]
  BY DEF Behind
<1>2. n \in Nat /\ \A k \in 1..n : s[k] \in Byte
  OBVIOUS
<1>3. /\ \A k \in 0..n : T[k] = SplitState
      /\ \A k \in 1..n : k - 1 \in 0..n /\ k \in 0..n /\ k # 0
      /\ 0 \in 0..n /\ \A k \in 0..n : k # 0 => k \in 1..n
  BY <1>2
<1>4. ASSUME NEW k \in 1..n, NEW x \in SplitState
      PROVE  g[<<k, x>>] = SplitAt(x, s[k]) /\ SplitAt(x, s[k]) \in SplitState
  BY <1>2, SplitFields
<1>5. PICK f : TurnsTo(n, st, g, f) /\ \A k \in 0..n : f[k] \in T[k]
  <2> HIDE DEF g, T, n
  <2>1. st \in T[0]
    BY <1>3
  <2>2. \A k \in 1..n : \A x \in T[k - 1] : g[<<k, x>>] \in T[k]
    BY <1>3, <1>4
  <2> QED
    BY <1>2, <2>1, <2>2, TurnsTyped
<1>6. Is(f)
  <2> HIDE DEF g, T, n
  <2>1. \A k \in 0..n : f[k] = IF k = 0 THEN st ELSE g[<<k, f[k - 1]>>]
    BY <1>5 DEF TurnsTo
  <2>2. ASSUME NEW k \in 0..n PROVE f[k] = IF k = 0 THEN st ELSE SplitAt(f[k - 1], s[k])
    <3>1. CASE k = 0
      BY <2>1, <3>1, Zenon
    <3>2. CASE k # 0
      <4>1. k \in 1..n /\ k - 1 \in 0..n
        BY <1>3, <3>2
      <4>2. f[k] = g[<<k, f[k - 1]>>]
        BY <2>1, <3>2
      <4>3. f[k - 1] \in SplitState
        BY <1>3, <1>5, <4>1
      <4> QED
        BY <1>4, <3>2, <4>1, <4>2, <4>3
    <3> QED
      BY <3>1, <3>2
  <2>3. f = [k \in 0..n |-> f[k]]
    BY <1>5 DEF TurnsTo
  <2> QED
    BY <2>2, <2>3
<1>7. Is(after)
  BY <1>6
<1> HIDE DEF after
<1>8. \A k \in 0..n : after[k] = IF k = 0 THEN st ELSE SplitAt(after[k - 1], s[k])
  BY <1>7
<1>9. after[0] = st /\ \A k \in 1..n : after[k] = SplitAt(after[k - 1], s[k])
  <2> HIDE DEF n
  <2> QED
    BY <1>3, <1>8, Zenon
<1>10. \A k \in 0..n : after[k] \in SplitState
  <2> HIDE DEF n, T
  <2>1. after[0] \in T[0]
    BY <1>3, <1>9
  <2>2. ASSUME NEW k \in 1..n, after[k - 1] \in T[k - 1] PROVE after[k] \in T[k]
    <3>1. T[k - 1] = SplitState /\ T[k] = SplitState
      BY <1>3
    <3>2. SplitAt(after[k - 1], s[k]) \in SplitState
      BY <1>4, <2>2, <3>1
    <3> QED
      BY <1>9, <3>1, <3>2
  <2>3. \A k \in 0..n : after[k] \in T[k]
    BY <1>2, <2>1, <2>2, TurnByTurn
  <2> QED
    BY <1>3, <2>3
<1> QED
  BY <1>1, <1>9, <1>10 DEF Run

LEMMA BehindNothing ==
  ASSUME NEW st \in SplitState
  PROVE  Behind(st, <<>>) = st
<1>1. <<>> \in Seq(Byte) /\ Len(<<>>) = 0
  OBVIOUS
<1>2. PICK f : Run(st, <<>>, f) /\ Behind(st, <<>>) = f[Len(<<>>)]
  BY <1>1, BehindRuns
<1> QED
  BY <1>1, <1>2 DEF Run

LEMMA BehindType ==
  ASSUME NEW st \in SplitState, NEW s \in Seq(Byte)
  PROVE  Behind(st, s) \in SplitState
<1>1. PICK f : Run(st, s, f) /\ Behind(st, s) = f[Len(s)]
  BY BehindRuns
<1>2. Len(s) \in 0..Len(s)
  OBVIOUS
<1> QED
  BY <1>1, <1>2 DEF Run

LEMMA BehindByte ==
  ASSUME NEW st \in SplitState, NEW s \in Seq(Byte), NEW c \in Byte
  PROVE  Behind(st, Append(s, c)) = SplitAt(Behind(st, s), c)
<1> DEFINE t == Append(s, c)
           n == Len(s)
<1>1. /\ t \in Seq(Byte) /\ n \in Nat /\ Len(t) = n + 1 /\ t[n + 1] = c
      /\ \A k \in 1..n : t[k] = s[k]
  OBVIOUS
<1>2. PICK f : Run(st, t, f) /\ Behind(st, t) = f[n + 1]
  <2> HIDE DEF t
  <2> QED
    BY <1>1, BehindRuns
<1>3. PICK g : Run(st, s, g) /\ Behind(st, s) = g[n]
  BY BehindRuns
<1> HIDE DEF t
<1>4. /\ f[0] = st /\ \A k \in 1..n + 1 : f[k] = SplitAt(f[k - 1], t[k])
      /\ g[0] = st /\ \A k \in 1..n : g[k] = SplitAt(g[k - 1], s[k])
  BY <1>1, <1>2, <1>3 DEF Run
<1> HIDE DEF n
<1> DEFINE T == [k \in 0..n |-> {g[k]}]
<1>5. /\ \A k \in 0..n : T[k] = {g[k]}
      /\ 0 \in 0..n /\ n \in 0..n /\ n + 1 \in 1..n + 1 /\ (n + 1) - 1 = n
      /\ \A k \in 1..n : k \in 0..n /\ k - 1 \in 0..n /\ k \in 1..n + 1
  BY <1>1
<1> HIDE DEF T
<1>6. f[0] \in T[0] /\ \A k \in 1..n : f[k - 1] \in T[k - 1] => f[k] \in T[k]
  BY <1>1, <1>4, <1>5
<1>7. \A k \in 0..n : f[k] \in T[k]
  BY <1>1, <1>6, TurnByTurn
<1>8. f[n] = g[n]
  BY <1>5, <1>7
<1>9. f[n + 1] = SplitAt(f[n], t[n + 1])
  BY <1>4, <1>5
<1> QED
  BY <1>1, <1>2, <1>3, <1>8, <1>9 DEF t

\* What holds of the empty text, and of a text with a byte more, holds of all.
LEMMA ByteByByte ==
  ASSUME NEW S, <<>> \in S, \A s \in Seq(Byte) : \A c \in Byte : s \in S => Append(s, c) \in S
  PROVE  Seq(Byte) \subseteq S
<1> DEFINE N == {n \in Nat : \A s \in Seq(Byte) : Len(s) = n => s \in S}
<1>1. 0 \in N
  <2>1. \A s \in Seq(Byte) : Len(s) = 0 => s = <<>>
    OBVIOUS
  <2> QED
    BY <2>1
<1>2. ASSUME NEW n \in Nat, n \in N PROVE n + 1 \in N
  <2>1. ASSUME NEW s \in Seq(Byte), Len(s) = n + 1 PROVE s \in S
    <3> DEFINE t == SubSeq(s, 1, n)
    <3>1. /\ t \in Seq(Byte) /\ Len(t) = n /\ s[n + 1] \in Byte
          /\ \A k \in 1..n : t[k] = s[k]
      BY <2>1
    <3> HIDE DEF t
    <3>2. Append(t, s[n + 1]) = s
      <4> DEFINE u == Append(t, s[n + 1])
      <4>1. /\ u \in Seq(Byte) /\ Len(u) = n + 1 /\ u[n + 1] = s[n + 1]
            /\ \A k \in 1..n : u[k] = t[k]
        BY <3>1
      <4> HIDE DEF u
      <4>2. \A k \in 1..n + 1 : k \in 1..n \/ k = n + 1
        OBVIOUS
      <4>3. \A k \in 1..n + 1 : u[k] = s[k]
        BY <3>1, <4>1, <4>2
      <4>4. u = s
        BY <2>1, <4>1, <4>3, SameText
      <4> QED
        BY <4>4 DEF u
    <3>3. t \in S
      BY <1>2, <3>1
    <3> QED
      BY <3>1, <3>2, <3>3
  <2> QED
    BY <2>1
<1> HIDE DEF N
<1>3. Nat \subseteq N
  BY <1>1, <1>2, SetInduction
<1> USE DEF N
<1> QED
  BY <1>3

LEMMA AppendJoined ==
  ASSUME NEW s \in Seq(Byte), NEW t \in Seq(Byte), NEW c \in Byte
  PROVE  s \o Append(t, c) = Append(s \o t, c)
OBVIOUS

LEMMA BehindJoined ==
  ASSUME NEW st \in SplitState, NEW s \in Seq(Byte), NEW t \in Seq(Byte)
  PROVE  Behind(st, s \o t) = Behind(Behind(st, s), t)
<1> DEFINE S == {u \in Seq(Byte) : Behind(st, s \o u) = Behind(Behind(st, s), u)}
<1>1. Behind(st, s) \in SplitState
  BY BehindType
<1>2. <<>> \in S
  <2>1. s \o <<>> = s /\ <<>> \in Seq(Byte)
    OBVIOUS
  <2> QED
    BY <1>1, <2>1, BehindNothing
<1>3. ASSUME NEW u \in Seq(Byte), NEW c \in Byte, u \in S PROVE Append(u, c) \in S
  <2>1. s \o u \in Seq(Byte) /\ Append(u, c) \in Seq(Byte)
    OBVIOUS
  <2>2. Behind(st, Append(s \o u, c)) = SplitAt(Behind(st, s \o u), c)
    BY <2>1, BehindByte
  <2>3. Behind(Behind(st, s), Append(u, c)) = SplitAt(Behind(Behind(st, s), u), c)
    BY <1>1, BehindByte
  <2>4. Behind(st, s \o u) = Behind(Behind(st, s), u)
    BY <1>3
  <2> QED
    BY <2>1, <2>2, <2>3, <2>4, AppendJoined
<1> HIDE DEF S
<1>4. Seq(Byte) \subseteq S
  BY <1>2, <1>3, ByteByByte
<1> USE DEF S
<1> QED
  BY <1>4

\* Text without a separator, read at the beginning of a part.
NoSeparator(s) == \A i \in 1..Len(s) - 1 : ~(s[i] = Underscore /\ s[i + 1] = Underscore)
EndsHalf(s) == Len(s) # 0 /\ s[Len(s)] = Underscore
Fresh(q) == [parts |-> q, part |-> <<>>, half |-> FALSE]
ReadSoFar(st) == IF st.half THEN Append(st.part, Underscore) ELSE st.part

LEMMA AppendIs ==
  ASSUME NEW s \in Seq(Byte), NEW c \in Byte
  PROVE  /\ Append(s, c) \in Seq(Byte) /\ Len(Append(s, c)) = Len(s) + 1 /\ Len(s) \in Nat
         /\ Append(s, c)[Len(s) + 1] = c /\ \A i \in 1..Len(s) : Append(s, c)[i] = s[i]
         /\ s \o <<c>> = Append(s, c)
OBVIOUS

LEMMA NoSeparatorByte ==
  ASSUME NEW s \in Seq(Byte), NEW c \in Byte
  PROVE  NoSeparator(Append(s, c)) <=> NoSeparator(s) /\ ~(EndsHalf(s) /\ c = Underscore)
<1> DEFINE t == Append(s, c)
           n == Len(s)
<1>1. /\ Len(t) = n + 1 /\ n \in Nat /\ t[n + 1] = c /\ \A i \in 1..n : t[i] = s[i]
  BY AppendIs
<1> HIDE DEF t, n
<1>2. ASSUME NoSeparator(t) PROVE NoSeparator(s) /\ ~(EndsHalf(s) /\ c = Underscore)
  <2>1. \A i \in 1..n : ~(t[i] = Underscore /\ t[i + 1] = Underscore)
    BY <1>1, <1>2 DEF NoSeparator
  <2>2. \A i \in 1..n - 1 : i \in 1..n /\ i + 1 \in 1..n
    BY <1>1
  <2>3. NoSeparator(s)
    BY <1>1, <2>1, <2>2 DEF NoSeparator, n
  <2>4. n # 0 => n \in 1..n
    BY <1>1
  <2> QED
    BY <1>1, <2>1, <2>3, <2>4 DEF EndsHalf, n
<1>3. ASSUME NoSeparator(s), ~(EndsHalf(s) /\ c = Underscore) PROVE NoSeparator(t)
  <2>1. ASSUME NEW i \in 1..n, t[i] = Underscore, t[i + 1] = Underscore PROVE FALSE
    <3>1. CASE i = n
      BY <1>1, <1>3, <2>1, <3>1 DEF EndsHalf, n
    <3>2. CASE i # n
      <4>1. i \in 1..n - 1 /\ i + 1 \in 1..n
        BY <1>1, <3>2
      <4> QED
        BY <1>1, <1>3, <2>1, <4>1 DEF NoSeparator, n
    <3> QED
      BY <3>1, <3>2
  <2>2. Len(t) - 1 = n
    BY <1>1
  <2> QED
    BY <2>1, <2>2 DEF NoSeparator
<1> QED
  BY <1>2, <1>3 DEF t

LEMMA FreshType ==
  ASSUME NEW q \in Seq(Seq(Byte))
  PROVE  Fresh(q) \in SplitState /\ Fresh(q).parts = q /\ Fresh(q).part = <<>> /\ Fresh(q).half = FALSE
<1>1. <<>> \in Seq(Byte)
  OBVIOUS
<1> QED
  BY <1>1 DEF Fresh, SplitState

LEMMA NoSeparatorRead ==
  ASSUME NEW q \in Seq(Seq(Byte)), NEW s \in Seq(Byte), NoSeparator(s)
  PROVE  /\ Behind(Fresh(q), s).parts = q /\ ReadSoFar(Behind(Fresh(q), s)) = s
         /\ Behind(Fresh(q), s).half <=> EndsHalf(s)
<1> DEFINE P(st, u) == st.parts = q /\ ReadSoFar(st) = u /\ (st.half <=> EndsHalf(u))
           S == {u \in Seq(Byte) : NoSeparator(u) => P(Behind(Fresh(q), u), u)}
<1>1. Fresh(q) \in SplitState /\ Fresh(q).parts = q /\ Fresh(q).part = <<>> /\ Fresh(q).half = FALSE
  BY FreshType
<1>2. <<>> \in S
  <2>1. <<>> \in Seq(Byte) /\ Len(<<>>) = 0
    OBVIOUS
  <2>2. Behind(Fresh(q), <<>>) = Fresh(q)
    BY <1>1, BehindNothing
  <2>3. P(Fresh(q), <<>>)
    BY <1>1, <2>1 DEF ReadSoFar, EndsHalf
  <2> QED
    BY <2>1, <2>2, <2>3
<1>3. ASSUME NEW u \in Seq(Byte), NEW c \in Byte, u \in S PROVE Append(u, c) \in S
  <2> DEFINE st == Behind(Fresh(q), u)
             v == Append(u, c)
  <2>1. /\ v \in Seq(Byte) /\ Len(v) = Len(u) + 1 /\ Len(u) \in Nat /\ v[Len(v)] = c
        /\ u \o <<c>> = v
    BY AppendIs
  <2>2. st \in SplitState /\ Behind(Fresh(q), v) = SplitAt(st, c)
    BY <1>1, BehindType, BehindByte
  <2>3. EndsHalf(v) <=> c = Underscore
    BY <2>1 DEF EndsHalf
  <2>4. ASSUME NoSeparator(v) PROVE P(SplitAt(st, c), v)
    <3>1. P(st, u) /\ ~(EndsHalf(u) /\ c = Underscore)
      BY <1>3, <2>4, NoSeparatorByte
    <3> HIDE DEF st
    <3>2. CASE c # Underscore
      <4>1. /\ SplitAt(st, c).parts = st.parts /\ SplitAt(st, c).half = FALSE
            /\ SplitAt(st, c).part = ReadSoFar(st) \o <<c>>
        BY <2>2, <3>2, SplitFields DEF ReadSoFar
      <4> QED
        BY <2>1, <2>3, <3>1, <3>2, <4>1 DEF ReadSoFar
    <3>3. CASE c = Underscore
      <4>1. ~st.half
        BY <3>1, <3>3
      <4>2. /\ SplitAt(st, c).parts = st.parts /\ SplitAt(st, c).half = TRUE
            /\ SplitAt(st, c).part = st.part
        BY <2>2, <3>3, <4>1, SplitFields
      <4>3. st.part = u
        BY <3>1, <4>1 DEF ReadSoFar
      <4> QED
        BY <2>3, <3>1, <3>3, <4>2, <4>3 DEF ReadSoFar
    <3> QED
      BY <3>2, <3>3
  <2> QED
    BY <2>1, <2>2, <2>4
<1> HIDE DEF S
<1>4. Seq(Byte) \subseteq S
  BY <1>2, <1>3, ByteByByte
<1> USE DEF S
<1> QED
  BY <1>4

LEMMA SeparatorIs ==
  /\ Underscore \in Byte /\ Separator \in Seq(Byte) /\ Len(Separator) = 2
  /\ Separator[1] = Underscore /\ Separator[2] = Underscore
  /\ Separator = Append(Append(<<>>, Underscore), Underscore)
<1>1. Underscore \in Byte
  BY DEF Underscore, Byte
<1> QED
  BY <1>1 DEF Separator

\* A separator closes a part at least; where no half was read, the one it is at.
LEMMA SeparatorRead ==
  ASSUME NEW st \in SplitState
  PROVE  /\ Len(Behind(st, Separator).parts) = Len(st.parts) + 1 /\ Len(st.parts) \in Nat
         /\ ~st.half => Behind(st, Separator) = Fresh(Append(st.parts, st.part))
<1>1. Underscore \in Byte /\ <<>> \in Seq(Byte) /\ Append(<<>>, Underscore) \in Seq(Byte)
  BY SeparatorIs
<1> DEFINE s1 == SplitAt(st, Underscore)
           s2 == SplitAt(s1, Underscore)
<1>2. Behind(st, <<>>) = st
  BY BehindNothing
<1>3. Behind(st, Append(<<>>, Underscore)) = s1
  BY <1>1, <1>2, BehindByte
<1>4. Behind(st, Separator) = s2
  BY <1>1, <1>3, BehindByte, SeparatorIs
<1>5. s1 \in SplitState /\ s2 \in SplitState
  BY <1>1, SplitFields
<1>6. st.parts \in Seq(Seq(Byte)) /\ st.part \in Seq(Byte) /\ st.half \in BOOLEAN
  BY DEF SplitState
<1>7. CASE st.half
  <2>1. s1.parts = Append(st.parts, st.part) /\ s1.half = FALSE
    BY <1>7, SplitCloses
  <2> HIDE DEF s1
  <2>2. s2.parts = s1.parts
    BY <1>5, <2>1, SplitHalves
  <2> HIDE DEF s2
  <2> QED
    BY <1>4, <1>6, <1>7, <2>1, <2>2
<1>8. CASE ~st.half
  <2>1. s1.parts = st.parts /\ s1.half = TRUE /\ s1.part = st.part
    BY <1>8, SplitHalves
  <2> HIDE DEF s1
  <2>2. s2.parts = Append(s1.parts, s1.part) /\ s2.half = FALSE /\ s2.part = <<>>
    BY <1>5, <2>1, SplitCloses
  <2> HIDE DEF s2
  <2>3. s2 = [parts |-> s2.parts, part |-> s2.part, half |-> s2.half]
    BY <1>5 DEF SplitState
  <2>4. s2 = Fresh(Append(st.parts, st.part))
    BY <2>1, <2>2, <2>3 DEF Fresh
  <2> QED
    BY <1>4, <1>6, <2>1, <2>2, <2>4
<1> QED
  BY <1>7, <1>8

\* Reading never takes a part back.
LEMMA PartsGrow ==
  ASSUME NEW st \in SplitState, NEW s \in Seq(Byte)
  PROVE  Len(st.parts) <= Len(Behind(st, s).parts) /\ Len(Behind(st, s).parts) \in Nat
<1> DEFINE S == {u \in Seq(Byte) : Len(st.parts) <= Len(Behind(st, u).parts)}
<1>1. Len(st.parts) \in Nat
  BY DEF SplitState
<1>2. <<>> \in S
  <2>1. Behind(st, <<>>) = st /\ <<>> \in Seq(Byte)
    BY BehindNothing
  <2> QED
    BY <1>1, <2>1
<1>3. ASSUME NEW u \in Seq(Byte), NEW c \in Byte, u \in S PROVE Append(u, c) \in S
  <2> DEFINE b == Behind(st, u)
  <2>1. b \in SplitState /\ Behind(st, Append(u, c)) = SplitAt(b, c) /\ Append(u, c) \in Seq(Byte)
    BY BehindType, BehindByte, AppendIs
  <2>2. Len(st.parts) <= Len(b.parts)
    BY <1>3
  <2> HIDE DEF b
  <2>3. b.parts \in Seq(Seq(Byte)) /\ b.part \in Seq(Byte)
    BY <2>1 DEF SplitState
  <2>4. SplitAt(b, c).parts = b.parts \/ SplitAt(b, c).parts = Append(b.parts, b.part)
    BY <2>1 DEF SplitAt, SplitState
  <2>5. Len(Append(b.parts, b.part)) = Len(b.parts) + 1 /\ Len(b.parts) \in Nat
    BY <2>3
  <2>6. Len(st.parts) <= Len(SplitAt(b, c).parts)
    BY <1>1, <2>2, <2>4, <2>5
  <2> QED
    BY <2>1, <2>6
<1> HIDE DEF S
<1>4. Seq(Byte) \subseteq S
  BY <1>2, <1>3, ByteByByte
<1> USE DEF S
<1>5. Behind(st, s) \in SplitState
  BY BehindType
<1>6. Len(Behind(st, s).parts) \in Nat
  BY <1>5 DEF SplitState
<1> QED
  BY <1>4, <1>6

\* A part that is closed is tight: it holds no separator and does not end with half of one.
Tight(p) == NoSeparator(p) /\ ~EndsHalf(p)
AllTight(st) == (\A i \in 1..Len(st.parts) : Tight(st.parts[i])) /\ Tight(st.part)

LEMMA NothingTight == <<>> \in Seq(Byte) /\ Tight(<<>>)
BY DEF Tight, NoSeparator, EndsHalf

LEMMA TightByte ==
  ASSUME NEW p \in Seq(Byte), NEW c \in Byte, Tight(p), c # Underscore
  PROVE  Tight(p \o <<c>>) /\ Tight(Append(p, Underscore) \o <<c>>)
<1>1. Underscore \in Byte
  BY SeparatorIs
<1> DEFINE h == Append(p, Underscore)
<1>2. NoSeparator(h) /\ h \in Seq(Byte)
  BY <1>1, NoSeparatorByte, AppendIs DEF Tight
<1> HIDE DEF h
<1>3. ASSUME NEW u \in Seq(Byte), NoSeparator(u) PROVE Tight(u \o <<c>>)
  <2> DEFINE v == Append(u, c)
  <2>1. v = u \o <<c>> /\ Len(v) = Len(u) + 1 /\ Len(u) \in Nat /\ v[Len(u) + 1] = c
    BY AppendIs
  <2>2. NoSeparator(v)
    BY <1>3, NoSeparatorByte
  <2> HIDE DEF v
  <2>3. ~EndsHalf(v)
    BY <2>1 DEF EndsHalf
  <2> QED
    BY <2>1, <2>2, <2>3 DEF Tight
<1>4. NoSeparator(p)
  BY DEF Tight
<1>5. Tight(p \o <<c>>) /\ Tight(h \o <<c>>)
  BY <1>2, <1>3, <1>4
<1> QED
  BY <1>5 DEF h

LEMMA AllTightByte ==
  ASSUME NEW b \in SplitState, NEW c \in Byte, AllTight(b)
  PROVE  AllTight(SplitAt(b, c))
<1>1. b.parts \in Seq(Seq(Byte)) /\ b.part \in Seq(Byte)
  BY DEF SplitState
<1>2. CASE c # Underscore
  <2>1. /\ SplitAt(b, c).parts = b.parts
        /\ SplitAt(b, c).part = b.part \o <<c>> \/ SplitAt(b, c).part = Append(b.part, Underscore) \o <<c>>
    BY <1>2, SplitFields
  <2>2. Tight(b.part \o <<c>>) /\ Tight(Append(b.part, Underscore) \o <<c>>)
    BY <1>1, <1>2, TightByte DEF AllTight
  <2> QED
    BY <2>1, <2>2 DEF AllTight
<1>3. CASE c = Underscore /\ b.half
  <2>1. SplitAt(b, c).parts = Append(b.parts, b.part) /\ SplitAt(b, c).part = <<>>
    BY <1>3, SplitCloses
  <2> DEFINE q == Append(b.parts, b.part)
             n == Len(b.parts)
  <2>2. n \in Nat /\ Len(q) = n + 1 /\ q[n + 1] = b.part /\ \A i \in 1..n : q[i] = b.parts[i]
    BY <1>1
  <2> HIDE DEF q
  <2>3. \A i \in 1..Len(q) : i \in 1..n \/ i = n + 1
    BY <2>2
  <2>4. \A i \in 1..Len(q) : Tight(q[i])
    BY <2>2, <2>3 DEF AllTight
  <2>5. SplitAt(b, c).parts = q
    BY <2>1 DEF q
  <2> QED
    BY <2>1, <2>4, <2>5, NothingTight DEF AllTight
<1>4. CASE c = Underscore /\ ~b.half
  <2>1. SplitAt(b, c).parts = b.parts /\ SplitAt(b, c).part = b.part
    BY <1>4, SplitHalves
  <2> QED
    BY <2>1 DEF AllTight
<1> QED
  BY <1>2, <1>3, <1>4

LEMMA PartsTight ==
  ASSUME NEW s \in Seq(Byte)
  PROVE  AllTight(Behind(SplitStart, s))
<1> DEFINE S == {u \in Seq(Byte) : AllTight(Behind(SplitStart, u))}
<1>1. <<>> \in S
  <2>1. Behind(SplitStart, <<>>) = SplitStart
    BY StartType, BehindNothing
  <2>2. SplitStart.parts = <<>> /\ SplitStart.part = <<>>
    BY DEF SplitStart
  <2>3. AllTight(SplitStart)
    BY <2>2, NothingTight DEF AllTight
  <2> QED
    BY <2>1, <2>3, NothingTight
<1>2. ASSUME NEW u \in Seq(Byte), NEW c \in Byte, u \in S PROVE Append(u, c) \in S
  <2> DEFINE b == Behind(SplitStart, u)
  <2>1. /\ b \in SplitState /\ Behind(SplitStart, Append(u, c)) = SplitAt(b, c)
        /\ Append(u, c) \in Seq(Byte)
    BY StartType, BehindType, BehindByte, AppendIs
  <2>2. AllTight(b)
    BY <1>2
  <2> HIDE DEF b
  <2>3. AllTight(SplitAt(b, c))
    BY <2>1, <2>2, AllTightByte
  <2> QED
    BY <2>1, <2>3
<1> HIDE DEF S
<1>3. Seq(Byte) \subseteq S
  BY <1>1, <1>2, ByteByByte
<1> USE DEF S
<1> QED
  BY <1>3

\* The key starts with its first part and a separator, when there is a second part.
FirstAhead(st, s) ==
  IF st.parts = <<>> THEN ReadSoFar(st) = s ELSE StartsWith(st.parts[1] \o Separator, s)

LEMMA StartsByte ==
  ASSUME NEW p, NEW s \in Seq(Byte), NEW c \in Byte, Len(p) \in Nat, StartsWith(p, s)
  PROVE  StartsWith(p, Append(s, c))
<1> DEFINE t == Append(s, c)
<1>1. Len(t) = Len(s) + 1 /\ Len(s) \in Nat /\ \A i \in 1..Len(s) : t[i] = s[i]
  BY AppendIs
<1> HIDE DEF t
<1>2. Len(p) <= Len(s) /\ \A i \in 1..Len(p) : s[i] = p[i]
  BY DEF StartsWith
<1>3. StartsWith(p, t)
  BY <1>1, <1>2 DEF StartsWith
<1> QED
  BY <1>3 DEF t

LEMMA FirstAheadByte ==
  ASSUME NEW b \in SplitState, NEW u \in Seq(Byte), NEW c \in Byte, FirstAhead(b, u)
  PROVE  FirstAhead(SplitAt(b, c), Append(u, c))
<1>1. b.parts \in Seq(Seq(Byte)) /\ b.part \in Seq(Byte)
  BY DEF SplitState
<1>2. CASE b.parts # <<>>
  <2>1. b.parts[1] \in Seq(Byte)
    BY <1>1, <1>2
  <2>2. StartsWith(b.parts[1] \o Separator, u) /\ Len(b.parts[1] \o Separator) \in Nat
    BY <1>2, <2>1, SeparatorIs, Joined DEF FirstAhead
  <2>3. StartsWith(b.parts[1] \o Separator, Append(u, c))
    BY <2>2, StartsByte
  <2>4. SplitAt(b, c).parts = b.parts \/ SplitAt(b, c).parts = Append(b.parts, b.part)
    BY DEF SplitAt, SplitState
  <2>5. Append(b.parts, b.part)[1] = b.parts[1] /\ Append(b.parts, b.part) # <<>>
    <3> DEFINE n == Len(b.parts)
               q == Append(b.parts, b.part)
    <3>1. n \in Nat /\ n # 0 /\ Len(q) = n + 1 /\ \A i \in 1..n : q[i] = b.parts[i]
      BY <1>1, <1>2
    <3> HIDE DEF n, q
    <3>2. q # <<>>
      <4>1. Len(<<>>) = 0 /\ Len(q) # 0
        BY <3>1
      <4> QED
        BY <4>1
    <3>3. 1 \in 1..n
      BY <3>1
    <3> QED
      BY <3>1, <3>2, <3>3 DEF q
  <2> QED
    BY <1>2, <2>3, <2>4, <2>5 DEF FirstAhead
<1>3. CASE b.parts = <<>> /\ c # Underscore
  <2>1. /\ SplitAt(b, c).parts = b.parts /\ SplitAt(b, c).half = FALSE
        /\ SplitAt(b, c).part = ReadSoFar(b) \o <<c>>
    BY <1>3, SplitFields DEF ReadSoFar
  <2>2. ReadSoFar(b) = u /\ u \o <<c>> = Append(u, c)
    BY <1>3, AppendIs DEF FirstAhead
  <2> QED
    BY <1>3, <2>1, <2>2 DEF FirstAhead, ReadSoFar
<1>4. CASE b.parts = <<>> /\ c = Underscore /\ b.half
  <2>1. SplitAt(b, c).parts = Append(b.parts, b.part)
    BY <1>4, SplitCloses
  <2>2. Append(b.part, Underscore) = u
    BY <1>4 DEF FirstAhead, ReadSoFar
  <2>3. /\ Append(b.parts, b.part) # <<>> /\ Append(b.parts, b.part)[1] = b.part
    BY <1>1, <1>4
  <2>4. b.part \o Separator = Append(u, c)
    <3>1. b.part \o <<>> = b.part /\ <<>> \in Seq(Byte) /\ Append(<<>>, Underscore) \in Seq(Byte)
      BY <1>1, SeparatorIs
    <3>2. b.part \o Append(<<>>, Underscore) = u
      BY <1>1, <2>2, <3>1, AppendJoined, SeparatorIs
    <3> QED
      BY <1>1, <1>4, <3>1, <3>2, AppendJoined, SeparatorIs
  <2>5. StartsWith(Append(u, c), Append(u, c))
    <3>1. Len(Append(u, c)) \in Nat
      BY AppendIs
    <3> QED
      BY <3>1 DEF StartsWith
  <2> QED
    BY <2>1, <2>3, <2>4, <2>5 DEF FirstAhead
<1>5. CASE b.parts = <<>> /\ c = Underscore /\ ~b.half
  <2>1. SplitAt(b, c).parts = b.parts /\ SplitAt(b, c).part = b.part /\ SplitAt(b, c).half = TRUE
    BY <1>5, SplitHalves
  <2>2. b.part = u
    BY <1>5 DEF FirstAhead, ReadSoFar
  <2> QED
    BY <1>5, <2>1, <2>2 DEF FirstAhead, ReadSoFar
<1> QED
  BY <1>2, <1>3, <1>4, <1>5

LEMMA PartsAhead ==
  ASSUME NEW s \in Seq(Byte)
  PROVE  FirstAhead(Behind(SplitStart, s), s)
<1> DEFINE S == {u \in Seq(Byte) : FirstAhead(Behind(SplitStart, u), u)}
<1>1. <<>> \in S
  <2>1. Behind(SplitStart, <<>>) = SplitStart
    BY StartType, BehindNothing
  <2>2. SplitStart.parts = <<>> /\ SplitStart.part = <<>> /\ SplitStart.half = FALSE
    BY DEF SplitStart
  <2>3. FirstAhead(SplitStart, <<>>)
    BY <2>2 DEF FirstAhead, ReadSoFar
  <2> QED
    BY <2>1, <2>3, NothingTight
<1>2. ASSUME NEW u \in Seq(Byte), NEW c \in Byte, u \in S PROVE Append(u, c) \in S
  <2> DEFINE b == Behind(SplitStart, u)
  <2>1. /\ b \in SplitState /\ Behind(SplitStart, Append(u, c)) = SplitAt(b, c)
        /\ Append(u, c) \in Seq(Byte)
    BY StartType, BehindType, BehindByte, AppendIs
  <2>2. FirstAhead(b, u)
    BY <1>2
  <2> HIDE DEF b
  <2>3. FirstAhead(SplitAt(b, c), Append(u, c))
    BY <2>1, <2>2, FirstAheadByte
  <2> QED
    BY <2>1, <2>3
<1> HIDE DEF S
<1>3. Seq(Byte) \subseteq S
  BY <1>1, <1>2, ByteByByte
<1> USE DEF S
<1> QED
  BY <1>3

-------------------------------------------------------------------------------
(***************************************************************************)
(* The parts of keys.                                                      *)
(***************************************************************************)
Mail == [rcpt : Recipients, id : SocketIds]

LEMMA PlainIs ==
  ASSUME NEW a \in Seq(Byte), a # <<>>
  PROVE  Plain(a) <=> Tight(a)
<1>1. Len(a) # 0
  OBVIOUS
<1> QED
  BY <1>1 DEF Plain, Tight, NoSeparator, EndsHalf

\* A tight text and a separator are a part.
LEMMA PartRead ==
  ASSUME NEW w \in Seq(Byte), NEW q \in Seq(Seq(Byte)), Behind(SplitStart, w) = Fresh(q),
         NEW p \in Seq(Byte), Tight(p)
  PROVE  /\ Behind(SplitStart, (w \o p) \o Separator) = Fresh(Append(q, p))
         /\ (w \o p) \o Separator \in Seq(Byte) /\ Append(q, p) \in Seq(Seq(Byte))
<1> DEFINE st == Behind(Fresh(q), p)
<1>1. Fresh(q) \in SplitState
  BY FreshType
<1>2. st \in SplitState
  BY <1>1, BehindType
<1>3. st.parts = q /\ ReadSoFar(st) = p /\ ~st.half
  BY NoSeparatorRead DEF Tight
<1>4. st.part = p
  BY <1>3 DEF ReadSoFar
<1>5. w \o p \in Seq(Byte) /\ (w \o p) \o Separator \in Seq(Byte) /\ Append(q, p) \in Seq(Seq(Byte))
  BY SeparatorIs
<1>6. Behind(SplitStart, w \o p) = st
  BY StartType, BehindJoined
<1> HIDE DEF st
<1>7. Behind(SplitStart, (w \o p) \o Separator) = Behind(st, Separator)
  BY <1>5, <1>6, StartType, SeparatorIs, BehindJoined
<1>8. Behind(st, Separator) = Fresh(Append(st.parts, st.part))
  BY <1>2, <1>3, SeparatorRead
<1> QED
  BY <1>3, <1>4, <1>5, <1>7, <1>8

LEMMA LastRead ==
  ASSUME NEW w \in Seq(Byte), NEW q \in Seq(Seq(Byte)), Behind(SplitStart, w) = Fresh(q),
         NEW p \in Seq(Byte), Tight(p)
  PROVE  Parts(w \o p) = Append(q, p)
<1> DEFINE st == Behind(Fresh(q), p)
<1>1. st.parts = q /\ ReadSoFar(st) = p
  BY NoSeparatorRead DEF Tight
<1>2. Behind(SplitStart, w \o p) = st
  BY StartType, BehindJoined
<1> HIDE DEF st
<1> QED
  BY <1>1, <1>2, PartsIs DEF Ended, ReadSoFar

LEMMA ByteTight ==
  ASSUME NEW c \in Byte, c # Underscore
  PROVE  <<c>> \in Seq(Byte) /\ Tight(<<c>>)
<1>1. <<c>> \in Seq(Byte) /\ Len(<<c>>) = 1 /\ <<c>>[1] = c
  OBVIOUS
<1> QED
  BY <1>1 DEF Tight, NoSeparator, EndsHalf

LEMMA SmallParts ==
  /\ Nines \in Seq(Byte) /\ Tight(Nines) /\ SerialPart \in Seq(Byte) /\ Tight(SerialPart)
  /\ \A f \in Fields : f \in Seq(Byte) /\ Tight(f)
  /\ \A id \in SocketIds : id \in Byte /\ <<id>> \in Seq(Byte) /\ Tight(<<id>>)
<1>1. \A c \in {57, 48, 101, 105, 117} : c \in Byte /\ c # Underscore
  BY DEF Byte, Underscore
<1>2. \A id \in SocketIds : id \in Byte /\ id # Underscore
  BY KeysAssumption DEF Byte, Underscore
<1> QED
  BY <1>1, <1>2, ByteTight DEF Nines, SerialPart, Fields

LEMMA StartRead == Behind(SplitStart, <<>>) = Fresh(<<>>) /\ <<>> \in Seq(Seq(Byte))
BY StartType, BehindNothing DEF SplitStart, Fresh

LEMMA InOrder ==
  ASSUME NEW S, NEW e1 \in S, NEW e2 \in S, NEW q, q = Append(Append(<<>>, e1), e2)
  PROVE  q \in Seq(S) /\ Len(q) = 2 /\ q[1] = e1 /\ q[2] = e2
OBVIOUS

LEMMA AddedBehind ==
  ASSUME NEW q \in Seq(Seq(Byte)), NEW e \in Seq(Byte)
  PROVE  /\ Append(q, e) \in Seq(Seq(Byte)) /\ Len(Append(q, e)) = Len(q) + 1 /\ Len(q) \in Nat
         /\ \A i \in 1..Len(q) : Append(q, e)[i] = q[i]
OBVIOUS

LEMMA ThirdPart ==
  ASSUME NEW q \in Seq(Seq(Byte)), NEW e \in Seq(Byte), Len(q) = 2
  PROVE  /\ Append(q, e) \in Seq(Seq(Byte)) /\ Len(Append(q, e)) = 3
         /\ Append(q, e)[1] = q[1] /\ Append(q, e)[2] = q[2]
<1> DEFINE p == Append(q, e)
<1>1. p \in Seq(Seq(Byte)) /\ Len(p) = 3 /\ \A i \in 1..2 : p[i] = q[i]
  <2>1. p \in Seq(Seq(Byte)) /\ Len(p) = Len(q) + 1 /\ \A i \in 1..Len(q) : p[i] = q[i]
    BY AddedBehind
  <2> HIDE DEF p
  <2> QED
    BY <2>1
<1> HIDE DEF p
<1>2. p[1] = q[1] /\ p[2] = q[2]
  BY <1>1
<1> QED
  BY <1>1, <1>2 DEF p

LEMMA FourthPart ==
  ASSUME NEW q \in Seq(Seq(Byte)), NEW e \in Seq(Byte)
  PROVE  /\ Len(q) = 3 <=> Len(Append(q, e)) = 4
         /\ Len(q) = 3 => Append(q, e)[1] = q[1] /\ Append(q, e)[2] = q[2]
<1> DEFINE n == Len(q)
           p == Append(q, e)
<1>1. n \in Nat /\ Len(p) = n + 1
  BY AddedBehind
<1>2. \A i \in 1..n : p[i] = q[i]
  BY AddedBehind
<1> HIDE DEF n, p
<1>3. (n = 3 <=> Len(p) = 4) /\ (n = 3 => 1 \in 1..n /\ 2 \in 1..n)
  BY <1>1
<1>4. n = 3 => p[1] = q[1] /\ p[2] = q[2]
  BY <1>2, <1>3
<1> QED
  BY <1>3, <1>4 DEF n, p

LEMMA StartsMore ==
  ASSUME NEW p \in Seq(Byte), NEW s \in Seq(Byte), NEW t \in Seq(Byte), StartsWith(p, s)
  PROVE  StartsWith(p, s \o t)
<1>1. /\ Len(s \o t) = Len(s) + Len(t) /\ Len(s) \in Nat /\ Len(t) \in Nat /\ Len(p) \in Nat
      /\ \A i \in 1..Len(s) : (s \o t)[i] = s[i]
  BY Joined
<1>2. Len(p) <= Len(s) /\ \A i \in 1..Len(p) : s[i] = p[i]
  BY DEF StartsWith
<1>3. \A i \in 1..Len(p) : i \in 1..Len(s)
  BY <1>1, <1>2
<1> QED
  BY <1>1, <1>2, <1>3 DEF StartsWith

\* The four parts of a mail's key, and the three of a marker.
LEMMA MailParts ==
  ASSUME NEW m \in Mail, Tight(m.rcpt), NEW f \in Fields
  PROVE  /\ Len(Parts(KeyOfMail(m, f))) = 4
         /\ Parts(KeyOfMail(m, f))[1] = m.rcpt /\ Parts(KeyOfMail(m, f))[2] = <<m.id>>
<1>1. m.rcpt \in Seq(Byte) /\ m.id \in SocketIds
  BY KeysAssumption DEF Mail
<1> DEFINE r == m.rcpt
           i == <<m.id>>
<1>2. i \in Seq(Byte) /\ Tight(i)
  BY <1>1, SmallParts
<1> HIDE DEF r, i
<1> DEFINE w1 == r \o Separator
           w2 == (w1 \o i) \o Separator
           w3 == (w2 \o SerialPart) \o Separator
<1>3. KeyOfMail(m, f) = w3 \o f
  BY DEF KeyOfMail, r, i
<1>4. <<>> \o r = r /\ <<>> \in Seq(Byte)
  BY <1>1 DEF r
<1>5. Behind(SplitStart, w1) = Fresh(Append(<<>>, r)) /\ w1 \in Seq(Byte) /\ Append(<<>>, r) \in Seq(Seq(Byte))
  BY <1>1, <1>4, StartRead, PartRead DEF r
<1> HIDE DEF w1
<1>6. /\ Behind(SplitStart, w2) = Fresh(Append(Append(<<>>, r), i)) /\ w2 \in Seq(Byte)
      /\ Append(Append(<<>>, r), i) \in Seq(Seq(Byte))
  BY <1>2, <1>5, PartRead
<1> HIDE DEF w2
<1>7. /\ Behind(SplitStart, w3) = Fresh(Append(Append(Append(<<>>, r), i), SerialPart)) /\ w3 \in Seq(Byte)
      /\ Append(Append(Append(<<>>, r), i), SerialPart) \in Seq(Seq(Byte))
  BY <1>6, SmallParts, PartRead
<1> HIDE DEF w3
<1>8. Parts(w3 \o f) = Append(Append(Append(Append(<<>>, r), i), SerialPart), f)
  BY <1>7, SmallParts, LastRead
<1>9. r \in Seq(Byte) /\ f \in Seq(Byte) /\ SerialPart \in Seq(Byte)
  BY <1>1, SmallParts DEF r
<1> DEFINE q2 == Append(Append(<<>>, r), i)
           q3 == Append(q2, SerialPart)
           q4 == Append(q3, f)
<1>10. q2 \in Seq(Seq(Byte)) /\ Len(q2) = 2 /\ q2[1] = r /\ q2[2] = i
  BY <1>2, <1>9, InOrder
<1>11. Parts(w3 \o f) = q4
  BY <1>8
<1> HIDE DEF q2
<1>12. q3 \in Seq(Seq(Byte)) /\ Len(q3) = 3 /\ q3[1] = r /\ q3[2] = i
  BY <1>9, <1>10, ThirdPart
<1> HIDE DEF q3
<1>13. Len(q4) = 4 /\ q4[1] = r /\ q4[2] = i
  BY <1>9, <1>12, FourthPart
<1> HIDE DEF q4
<1> QED
  BY <1>3, <1>11, <1>13 DEF r, i

LEMMA FirstPartRead ==
  ASSUME NEW a \in Seq(Byte), Tight(a)
  PROVE  /\ Behind(SplitStart, a \o Separator) = Fresh(Append(<<>>, a))
         /\ a \o Separator \in Seq(Byte) /\ Append(<<>>, a) \in Seq(Seq(Byte))
<1>1. <<>> \o a = a /\ <<>> \in Seq(Byte)
  OBVIOUS
<1> QED
  BY <1>1, StartRead, PartRead

LEMMA MarkerParts ==
  ASSUME NEW a \in Seq(Byte), Tight(a)
  PROVE  Len(Parts(MarkerOf(a))) = 3
<1> DEFINE w1 == a \o Separator
           w2 == (w1 \o Nines) \o Separator
<1>1. MarkerOf(a) = w2 \o Nines
  BY DEF MarkerOf
<1>3. Behind(SplitStart, w1) = Fresh(Append(<<>>, a)) /\ w1 \in Seq(Byte) /\ Append(<<>>, a) \in Seq(Seq(Byte))
  BY FirstPartRead
<1> HIDE DEF w1
<1>4. /\ Behind(SplitStart, w2) = Fresh(Append(Append(<<>>, a), Nines)) /\ w2 \in Seq(Byte)
      /\ Append(Append(<<>>, a), Nines) \in Seq(Seq(Byte))
  BY <1>3, SmallParts, PartRead
<1> HIDE DEF w2
<1>5. Parts(w2 \o Nines) = Append(Append(Append(<<>>, a), Nines), Nines)
  BY <1>4, SmallParts, LastRead
<1> DEFINE q2 == Append(Append(<<>>, a), Nines)
<1>6. q2 \in Seq(Seq(Byte)) /\ Len(q2) = 2
  BY SmallParts, InOrder
<1>7. Parts(w2 \o Nines) = Append(q2, Nines)
  BY <1>5
<1> HIDE DEF q2
<1>8. Len(Append(q2, Nines)) = 3
  BY <1>6, SmallParts, ThirdPart
<1> QED
  BY <1>1, <1>7, <1>8

LEMMA KeyTypes ==
  ASSUME NEW m \in Mail
  PROVE  /\ m.rcpt \in Seq(Byte) /\ m.rcpt # <<>> /\ m.id \in 48..57 /\ m.rcpt \in Recipients
         /\ \A f \in Fields : KeyOfMail(m, f) \in Seq(Byte)
         /\ MarkerOf(m.rcpt) \in Seq(Byte)
<1>1. m.rcpt \in Seq(Byte) /\ m.rcpt # <<>> /\ m.id \in SocketIds /\ m.id \in 48..57 /\ m.rcpt \in Recipients
  BY KeysAssumption DEF Mail
<1>2. <<m.id>> \in Seq(Byte) /\ Nines \in Seq(Byte) /\ SerialPart \in Seq(Byte) /\ Separator \in Seq(Byte)
  BY <1>1, SmallParts, SeparatorIs
<1>3. \A f \in Fields : f \in Seq(Byte)
  BY SmallParts
<1>4. \A f \in Fields : KeyOfMail(m, f) \in Seq(Byte)
  BY <1>1, <1>2, <1>3, Joined DEF KeyOfMail
<1>5. MarkerOf(m.rcpt) \in Seq(Byte)
  BY <1>1, <1>2, Joined DEF MarkerOf
<1> QED
  BY <1>1, <1>4, <1>5

\* A key is not taken for one of an address that is not tight, nor for one whose
\* first part the key does not start with.
LEMMA TakenForOwn ==
  ASSUME NEW a \in Seq(Byte), NEW k \in Seq(Byte), GoesOn(a, k)
  PROVE  Tight(a) /\ StartsWith(a \o Separator, k)
<1> DEFINE st == Behind(SplitStart, k)
           last == IF st.half THEN Append(st.part, Underscore) ELSE st.part
<1>1. st \in SplitState /\ AllTight(st) /\ FirstAhead(st, k)
  BY StartType, BehindType, PartsTight, PartsAhead
<1>2. Parts(k) = Append(st.parts, last)
  BY PartsIs DEF Ended
<1> HIDE DEF st
<1>3. st.parts \in Seq(Seq(Byte)) /\ st.part \in Seq(Byte)
  BY <1>1 DEF SplitState
<1>4. last \in Seq(Byte)
  BY <1>3, SeparatorIs
<1> HIDE DEF last
<1>5. Len(Append(st.parts, last)) = 4 /\ Append(st.parts, last)[1] = a
  BY <1>2 DEF GoesOn
<1>6. Len(st.parts) = 3 /\ st.parts[1] = a /\ st.parts # <<>>
  <2> DEFINE q == st.parts
  <2>1. q \in Seq(Seq(Byte))
    BY <1>3
  <2> HIDE DEF q
  <2>2. Len(Append(q, last)) = 4 /\ Append(q, last)[1] = a
    BY <1>5 DEF q
  <2>3. Len(q) = 3 /\ q[1] = a
    BY <1>4, <2>1, <2>2, FourthPart
  <2>4. q # <<>>
    <3>1. Len(q) = 3
      BY <2>3
    <3> QED
      BY <2>1, <3>1
  <2> QED
    BY <2>3, <2>4 DEF q
<1>7. 1 \in 1..Len(st.parts)
  BY <1>6
<1> QED
  BY <1>1, <1>6, <1>7 DEF AllTight, FirstAhead

LEMMA StartsSelf ==
  ASSUME NEW s \in Seq(Byte), NEW t \in Seq(Byte)
  PROVE  StartsWith(s, s \o t) /\ StartsWith(s, s)
<1>1. Len(s) \in Nat
  OBVIOUS
<1>2. StartsWith(s, s)
  BY <1>1 DEF StartsWith
<1> QED
  BY <1>2, StartsMore

LEMMA StartsThrough ==
  ASSUME NEW p \in Seq(Byte), NEW s \in Seq(Byte), NEW t \in Seq(Byte), StartsWith(p, s), StartsWith(s, t)
  PROVE  StartsWith(p, t)
<1>1. Len(p) \in Nat /\ Len(s) \in Nat /\ Len(t) \in Nat
  OBVIOUS
<1> QED
  BY <1>1 DEF StartsWith

LEMMA KeyStarts ==
  ASSUME NEW m \in Mail
  PROVE  /\ \A f \in Fields : StartsWith(m.rcpt \o Separator, KeyOfMail(m, f))
         /\ StartsWith(m.rcpt \o Separator, MarkerOf(m.rcpt))
<1> DEFINE r == m.rcpt
           i == <<m.id>>
           w1 == r \o Separator
           w2 == (w1 \o i) \o Separator
           w3 == (w2 \o SerialPart) \o Separator
           w4 == (w1 \o Nines) \o Separator
<1>1. r \in Seq(Byte) /\ i \in Seq(Byte) /\ SerialPart \in Seq(Byte) /\ Separator \in Seq(Byte) /\ Nines \in Seq(Byte)
  BY KeyTypes, SmallParts, SeparatorIs DEF Mail
<1>2. MarkerOf(r) = w4 \o Nines /\ \A f \in Fields : KeyOfMail(m, f) = w3 \o f
  BY DEF KeyOfMail, MarkerOf
<1> HIDE DEF r, i
<1>3. w1 \in Seq(Byte)
  BY <1>1, Joined
<1>4. StartsWith(w1, w1)
  BY <1>1, <1>3, StartsSelf
<1> HIDE DEF w1
<1>5. w1 \o i \in Seq(Byte) /\ StartsWith(w1, w1 \o i) /\ w1 \o Nines \in Seq(Byte) /\ StartsWith(w1, w1 \o Nines)
  BY <1>1, <1>3, <1>4, Joined, StartsMore
<1>6. w2 \in Seq(Byte) /\ StartsWith(w1, w2) /\ w4 \in Seq(Byte) /\ StartsWith(w1, w4)
  BY <1>1, <1>3, <1>5, Joined, StartsMore
<1> HIDE DEF w2, w4
<1>7. w2 \o SerialPart \in Seq(Byte) /\ StartsWith(w1, w2 \o SerialPart)
  BY <1>1, <1>3, <1>6, Joined, StartsMore
<1>8. w3 \in Seq(Byte) /\ StartsWith(w1, w3)
  BY <1>1, <1>3, <1>7, Joined, StartsMore
<1> HIDE DEF w3
<1>9. ASSUME NEW f \in Fields PROVE StartsWith(w1, KeyOfMail(m, f))
  <2>1. f \in Seq(Byte)
    BY SmallParts
  <2> QED
    BY <1>2, <1>3, <1>8, <2>1, StartsMore
<1>10. StartsWith(w1, MarkerOf(r))
  BY <1>1, <1>2, <1>3, <1>6, StartsMore
<1> QED
  BY <1>9, <1>10 DEF w1, r

LEMMA OwnGoesOn ==
  ASSUME NEW m \in Mail, Tight(m.rcpt), NEW f \in Fields
  PROVE  GoesOn(m.rcpt, KeyOfMail(m, f))
<1> DEFINE k == KeyOfMail(m, f)
<1>1. k \in Seq(Byte) /\ m.rcpt \in Seq(Byte)
  BY KeyTypes
<1>2. Len(Parts(k)) = 4 /\ Parts(k)[1] = m.rcpt
  BY MailParts
<1>3. IsPrefix(m.rcpt, k)
  <2>1. StartsWith(m.rcpt \o Separator, k) /\ m.rcpt \o Separator \in Seq(Byte)
    BY <1>1, KeyStarts, SeparatorIs, Joined
  <2>2. StartsWith(m.rcpt, m.rcpt \o Separator)
    BY <1>1, SeparatorIs, StartsSelf
  <2>3. StartsWith(m.rcpt, k)
    BY <1>1, <2>1, <2>2, StartsThrough
  <2> QED
    BY <1>1, <2>3, PrefixIs
<1> QED
  BY <1>2, <1>3 DEF GoesOn

\* The key of a mail whose address is a, a separator and more has five parts or more.
LEMMA IntruderStops ==
  ASSUME NEW n \in Mail, NEW a \in Seq(Byte), Tight(a), StartsWith(a \o Separator, n.rcpt), NEW f \in Fields
  PROVE  ~GoesOn(a, KeyOfMail(n, f))
<1> DEFINE r == n.rcpt
           i == <<n.id>>
           p == a \o Separator
           N(w) == Len(Behind(SplitStart, w).parts)
<1>1. r \in Seq(Byte) /\ i \in Seq(Byte) /\ f \in Seq(Byte) /\ SerialPart \in Seq(Byte) /\ Separator \in Seq(Byte)
  BY KeyTypes, SmallParts, SeparatorIs DEF Mail
<1>2. p \in Seq(Byte) /\ Behind(SplitStart, p) = Fresh(Append(<<>>, a)) /\ Append(<<>>, a) \in Seq(Seq(Byte))
  <2>1. <<>> \o a = a /\ <<>> \in Seq(Byte)
    OBVIOUS
  <2> QED
    BY <2>1, StartRead, PartRead
<1>3. N(p) = 1
  BY <1>2 DEF Fresh
<1>4. \A w, t \in Seq(Byte) : N(w) <= N(w \o t) /\ N(w) \in Nat
  <2> SUFFICES ASSUME NEW w \in Seq(Byte), NEW t \in Seq(Byte) PROVE N(w) <= N(w \o t) /\ N(w) \in Nat
    OBVIOUS
  <2>1. Behind(SplitStart, w) \in SplitState
    BY StartType, BehindType
  <2>2. Behind(SplitStart, w \o t) = Behind(Behind(SplitStart, w), t)
    BY StartType, BehindJoined
  <2> QED
    BY <2>1, <2>2, PartsGrow, StartType
<1>5. \A w \in Seq(Byte) : N(w \o Separator) = N(w) + 1
  <2> SUFFICES ASSUME NEW w \in Seq(Byte) PROVE N(w \o Separator) = N(w) + 1
    OBVIOUS
  <2>1. Behind(SplitStart, w) \in SplitState
    BY StartType, BehindType
  <2>2. Behind(SplitStart, w \o Separator) = Behind(Behind(SplitStart, w), Separator)
    BY StartType, BehindJoined, SeparatorIs
  <2> QED
    BY <2>1, <2>2, SeparatorRead
<1>6. PICK t \in Seq(Byte) : r = p \o t
  <2> DEFINE t == Drop(r, Len(p))
  <2>1. Len(p) \in Nat /\ Len(p) <= Len(r) /\ \A x \in 1..Len(p) : r[x] = p[x]
    BY <1>2 DEF StartsWith
  <2> HIDE DEF p, r
  <2>2. t \in Seq(Byte)
    BY <1>1, <2>1, Dropped
  <2>3. Take(r, Len(p)) \in Seq(Byte) /\ Len(Take(r, Len(p))) = Len(p) /\ \A x \in 1..Len(p) : Take(r, Len(p))[x] = r[x]
    BY <1>1, <2>1, Taken DEF Least
  <2>4. Take(r, Len(p)) = p
    BY <1>2, <2>1, <2>3, SameText
  <2>5. Take(r, Len(p)) \o t = r
    BY <1>1, <2>1, CutInTwo
  <2> QED
    BY <2>2, <2>4, <2>5
<1>7. N(r) >= 1 /\ N(r) \in Nat
  BY <1>1, <1>2, <1>3, <1>4, <1>6
<1> DEFINE w1 == r \o Separator
           w2 == (w1 \o i) \o Separator
           w3 == (w2 \o SerialPart) \o Separator
           k == w3 \o f
<1>8. KeyOfMail(n, f) = k
  BY DEF KeyOfMail
<1> HIDE DEF N, r, i, p
<1>9. /\ w1 \in Seq(Byte) /\ w1 \o i \in Seq(Byte) /\ w2 \in Seq(Byte) /\ w2 \o SerialPart \in Seq(Byte)
      /\ w3 \in Seq(Byte) /\ k \in Seq(Byte)
  BY <1>1, Joined
<1>10. N(w1) = N(r) + 1
  BY <1>1, <1>5
<1> HIDE DEF w1
<1>11. N(w1 \o i) >= N(w1) /\ N(w2) = N(w1 \o i) + 1 /\ N(w1) \in Nat /\ N(w1 \o i) \in Nat
  BY <1>1, <1>4, <1>5, <1>9
<1> HIDE DEF w2
<1>12. N(w2 \o SerialPart) >= N(w2) /\ N(w3) = N(w2 \o SerialPart) + 1 /\ N(w2) \in Nat /\ N(w2 \o SerialPart) \in Nat
  BY <1>1, <1>4, <1>5, <1>9
<1> HIDE DEF w3
<1>13. N(k) >= N(w3) /\ N(w3) \in Nat /\ N(k) \in Nat
  BY <1>1, <1>4, <1>9
<1>14. N(k) >= 4
  BY <1>7, <1>10, <1>11, <1>12, <1>13
<1> HIDE DEF k
<1>15. Behind(SplitStart, k) \in SplitState
  BY <1>9, StartType, BehindType
<1>16. Behind(SplitStart, k).parts \in Seq(Seq(Byte)) /\ Behind(SplitStart, k).part \in Seq(Byte)
  BY <1>15 DEF SplitState
<1> DEFINE q == Behind(SplitStart, k).parts
           l == Behind(SplitStart, k).part
           last == IF Behind(SplitStart, k).half THEN Append(l, Underscore) ELSE l
<1>17. Parts(k) = Append(q, last) /\ Len(q) >= 4
  BY <1>14, PartsIs DEF Ended, N
<1>18. q \in Seq(Seq(Byte)) /\ last \in Seq(Byte)
  BY <1>16, SeparatorIs
<1> HIDE DEF q, last
<1>19. Len(Append(q, last)) = Len(q) + 1 /\ Len(q) \in Nat
  BY <1>18
<1> QED
  BY <1>8, <1>17, <1>19 DEF GoesOn

-------------------------------------------------------------------------------
(***************************************************************************)
(* The bytes of keys: those of the address r, and k of T behind them.      *)
(***************************************************************************)
KeyBytes(w, r, T, k) ==
  /\ w \in Seq(Byte) /\ Len(w) = Len(r) + k
  /\ \A i \in 1..Len(r) : w[i] = r[i]
  /\ \A i \in 1..k : w[Len(r) + i] = T[i]

MailTail(m, f) == <<95, 95, m.id, 95, 95, 48, 95, 95, f[1]>>
MarkerTail == <<95, 95, 57, 95, 95, 57>>

LEMMA ByteAdded ==
  ASSUME NEW w, NEW r \in Seq(Byte), NEW T, NEW k \in Nat, KeyBytes(w, r, T, k),
         NEW c \in Byte, T[k + 1] = c
  PROVE  KeyBytes(w \o <<c>>, r, T, k + 1)
<1> DEFINE n == Len(r)
           v == Append(w, c)
<1>1. /\ w \in Seq(Byte) /\ Len(w) = n + k /\ n \in Nat
      /\ \A i \in 1..n : w[i] = r[i]
      /\ \A i \in 1..k : w[n + i] = T[i]
  BY DEF KeyBytes
<1>2. /\ v \in Seq(Byte) /\ Len(v) = Len(w) + 1 /\ v[Len(w) + 1] = c /\ w \o <<c>> = v
      /\ \A i \in 1..Len(w) : v[i] = w[i]
  BY <1>1, AppendIs
<1> HIDE DEF v, n
<1>3. Len(v) = n + (k + 1) /\ v[n + (k + 1)] = c
  <2>1. Len(w) + 1 = n + (k + 1)
    BY <1>1
  <2> QED
    BY <1>2, <2>1
<1>4. \A i \in 1..n : i \in 1..Len(w)
  BY <1>1
<1>5. \A i \in 1..k : n + i \in 1..Len(w)
  BY <1>1
<1>6. \A i \in 1..k + 1 : i \in 1..k \/ i = k + 1
  OBVIOUS
<1>7. \A i \in 1..n : v[i] = r[i]
  BY <1>1, <1>2, <1>4
<1>8. \A i \in 1..k : v[n + i] = T[i]
  BY <1>1, <1>2, <1>5
<1>9. \A i \in 1..k + 1 : v[n + i] = T[i]
  BY <1>3, <1>6, <1>8
<1> QED
  BY <1>2, <1>3, <1>7, <1>9 DEF KeyBytes, n

LEMMA SeparatorAdded ==
  ASSUME NEW w, NEW r \in Seq(Byte), NEW T, NEW k \in Nat, KeyBytes(w, r, T, k),
         T[k + 1] = 95, T[k + 2] = 95
  PROVE  KeyBytes(w \o Separator, r, T, k + 2)
<1>1. w \in Seq(Byte) /\ Underscore \in Byte /\ Underscore = 95
  BY SeparatorIs DEF KeyBytes, Underscore
<1> DEFINE v == w \o <<Underscore>>
<1>2. KeyBytes(v, r, T, k + 1)
  BY <1>1, ByteAdded
<1>3. v = Append(w, Underscore) /\ v \in Seq(Byte)
  BY <1>1, AppendIs
<1> HIDE DEF v
<1> DEFINE j == k + 1
<1>4. j \in Nat /\ j + 1 = k + 2 /\ T[j + 1] = Underscore /\ KeyBytes(v, r, T, j)
  BY <1>1, <1>2
<1> HIDE DEF j
<1>5. KeyBytes(v \o <<Underscore>>, r, T, j + 1)
  BY <1>1, <1>4, ByteAdded
<1>6. v \o <<Underscore>> = w \o Separator
  <2>1. v \o <<Underscore>> = Append(v, Underscore)
    BY <1>1, <1>3, AppendIs
  <2>2. w \o <<>> = w /\ <<>> \in Seq(Byte) /\ Append(<<>>, Underscore) \in Seq(Byte)
    BY <1>1
  <2>3. w \o Append(<<>>, Underscore) = v
    BY <1>1, <1>3, <2>2, AppendJoined
  <2>4. w \o Separator = Append(v, Underscore)
    BY <1>1, <2>2, <2>3, AppendJoined, SeparatorIs
  <2> QED
    BY <2>1, <2>4
<1> QED
  BY <1>4, <1>5, <1>6

LEMMA NoneAdded ==
  ASSUME NEW r \in Seq(Byte), NEW T
  PROVE  KeyBytes(r, r, T, 0)
BY DEF KeyBytes

LEMMA ThreeAdded ==
  ASSUME NEW a \in Seq(Byte), NEW c \in Byte, NEW T, T[1] = 95, T[2] = 95, T[3] = c
  PROVE  KeyBytes((a \o Separator) \o <<c>>, a, T, 3)
<1> DEFINE w == a \o Separator
           z == 0
           j == 2
<1>1. KeyBytes(a, a, T, z)
  BY NoneAdded
<1>2. z \in Nat /\ z + 2 = j /\ T[z + 1] = 95 /\ T[z + 2] = 95
  OBVIOUS
<1>3. j \in Nat /\ j + 1 = 3 /\ T[j + 1] = c
  OBVIOUS
<1> HIDE DEF z, j
<1>4. KeyBytes(w, a, T, j)
  BY <1>1, <1>2, SeparatorAdded
<1> HIDE DEF w
<1>5. KeyBytes(w \o <<c>>, a, T, j + 1)
  BY <1>3, <1>4, ByteAdded
<1> QED
  BY <1>3, <1>5 DEF w

LEMMA MailBytes ==
  ASSUME NEW m \in Mail, NEW f \in Fields
  PROVE  KeyBytes(KeyOfMail(m, f), m.rcpt, MailTail(m, f), 9)
<1> DEFINE r == m.rcpt
           id == m.id
           c == f[1]
           T == MailTail(m, f)
<1>1. r \in Seq(Byte) /\ id \in Byte /\ c \in Byte /\ f = <<c>> /\ 48 \in Byte
  BY KeyTypes DEF Fields, Byte
<1>2. /\ T[1] = 95 /\ T[2] = 95 /\ T[3] = id /\ T[4] = 95 /\ T[5] = 95 /\ T[6] = 48
      /\ T[7] = 95 /\ T[8] = 95 /\ T[9] = c
  BY DEF MailTail
<1> DEFINE w1 == r \o Separator
           w2 == w1 \o <<id>>
           w3 == w2 \o Separator
           w4 == w3 \o <<48>>
           w5 == w4 \o Separator
           w6 == w5 \o <<c>>
<1>3. KeyOfMail(m, f) = w6
  BY <1>1 DEF KeyOfMail, SerialPart
<1> HIDE DEF T, r, id, c
<1>4. KeyBytes(r, r, T, 0)
  BY <1>1, NoneAdded
<1>5. KeyBytes(w1, r, T, 2)
  BY <1>1, <1>2, <1>4, SeparatorAdded
<1> HIDE DEF w1
<1>6. KeyBytes(w2, r, T, 3)
  BY <1>1, <1>2, <1>5, ByteAdded
<1> HIDE DEF w2
<1>7. KeyBytes(w3, r, T, 5)
  BY <1>1, <1>2, <1>6, SeparatorAdded
<1> HIDE DEF w3
<1>8. KeyBytes(w4, r, T, 6)
  BY <1>1, <1>2, <1>7, ByteAdded
<1> HIDE DEF w4
<1>9. KeyBytes(w5, r, T, 8)
  BY <1>1, <1>2, <1>8, SeparatorAdded
<1> HIDE DEF w5
<1>10. KeyBytes(w6, r, T, 9)
  BY <1>1, <1>2, <1>9, ByteAdded
<1> QED
  BY <1>3, <1>10 DEF T, r

LEMMA MarkerBytes ==
  ASSUME NEW r \in Seq(Byte)
  PROVE  KeyBytes(MarkerOf(r), r, MarkerTail, 6)
<1> DEFINE T == MarkerTail
<1>1. 57 \in Byte
  BY DEF Byte
<1>2. T[1] = 95 /\ T[2] = 95 /\ T[3] = 57 /\ T[4] = 95 /\ T[5] = 95 /\ T[6] = 57
  BY DEF MarkerTail
<1> DEFINE w1 == r \o Separator
           w2 == w1 \o <<57>>
           w3 == w2 \o Separator
           w4 == w3 \o <<57>>
<1>3. MarkerOf(r) = w4
  BY DEF MarkerOf, Nines
<1> HIDE DEF T
<1>4. KeyBytes(r, r, T, 0)
  BY NoneAdded
<1>5. KeyBytes(w1, r, T, 2)
  BY <1>2, <1>4, SeparatorAdded
<1> HIDE DEF w1
<1>6. KeyBytes(w2, r, T, 3)
  BY <1>1, <1>2, <1>5, ByteAdded
<1> HIDE DEF w2
<1>7. KeyBytes(w3, r, T, 5)
  BY <1>2, <1>6, SeparatorAdded
<1> HIDE DEF w3
<1>8. KeyBytes(w4, r, T, 6)
  BY <1>1, <1>2, <1>7, ByteAdded
<1> QED
  BY <1>3, <1>8 DEF T

\* What a key starts with, byte by byte.
LEMMA SeparatorBytes ==
  ASSUME NEW p \in Seq(Byte), NEW s \in Seq(Byte)
  PROVE  StartsWith(p \o Separator, s) <=>
           /\ Len(p) + 2 <= Len(s) /\ \A i \in 1..Len(p) : s[i] = p[i]
           /\ s[Len(p) + 1] = 95 /\ s[Len(p) + 2] = 95
<1> DEFINE n == Len(p)
           w == p \o Separator
           T == <<95, 95>>
<1>1. n \in Nat /\ Len(s) \in Nat
  OBVIOUS
<1>2. T[1] = 95 /\ T[2] = 95
  OBVIOUS
<1>3. KeyBytes(w, p, T, 2)
  <2> HIDE DEF T
  <2>1. KeyBytes(p, p, T, 0)
    BY NoneAdded
  <2> QED
    BY <1>2, <2>1, SeparatorAdded
<1>4. /\ Len(w) = n + 2 /\ (\A i \in 1..n : w[i] = p[i]) /\ w[n + 1] = 95 /\ w[n + 2] = 95
  <2> HIDE DEF T, w
  <2>1. Len(w) = n + 2 /\ \A i \in 1..n : w[i] = p[i]
    BY <1>3 DEF KeyBytes
  <2>2. \A i \in 1..2 : w[n + i] = T[i]
    BY <1>3 DEF KeyBytes
  <2>3. w[n + 1] = T[1] /\ w[n + 2] = T[2]
    BY <2>2
  <2> QED
    BY <1>2, <2>1, <2>3
<1> HIDE DEF w, n
<1>5. ASSUME StartsWith(w, s)
      PROVE  n + 2 <= Len(s) /\ (\A i \in 1..n : s[i] = p[i]) /\ s[n + 1] = 95 /\ s[n + 2] = 95
  <2>1. n + 2 <= Len(s) /\ \A i \in 1..n + 2 : s[i] = w[i]
    BY <1>4, <1>5 DEF StartsWith
  <2>2. \A i \in 1..n : i \in 1..n + 2
    BY <1>1
  <2>3. n + 1 \in 1..n + 2 /\ n + 2 \in 1..n + 2
    BY <1>1
  <2> QED
    BY <1>4, <2>1, <2>2, <2>3
<1>6. ASSUME n + 2 <= Len(s), \A i \in 1..n : s[i] = p[i], s[n + 1] = 95, s[n + 2] = 95
      PROVE  StartsWith(w, s)
  <2>1. \A i \in 1..n + 2 : i \in 1..n \/ i = n + 1 \/ i = n + 2
    BY <1>1
  <2>2. \A i \in 1..n + 2 : s[i] = w[i]
    BY <1>4, <1>6, <2>1
  <2> QED
    BY <1>4, <1>6, <2>2 DEF StartsWith
<1> QED
  BY <1>5, <1>6 DEF w, n

-------------------------------------------------------------------------------
(***************************************************************************)
(* Keys in their order.                                                    *)
(***************************************************************************)
KeyAts(w, r, T, k) ==
  /\ \A i \in 1..Len(r) : ByteAt(w, i) = ByteAt(r, i)
  /\ \A i \in 1..k : ByteAt(w, Len(r) + i) = T[i] + 1

LEMMA KeyAt ==
  ASSUME NEW w, NEW r \in Seq(Byte), NEW T, NEW k \in Nat, KeyBytes(w, r, T, k)
  PROVE  KeyAts(w, r, T, k)
<1> DEFINE n == Len(r)
<1>1. /\ w \in Seq(Byte) /\ Len(w) = n + k /\ n \in Nat
      /\ \A i \in 1..n : w[i] = r[i]
      /\ \A i \in 1..k : w[n + i] = T[i]
  <2>1. n \in Nat
    OBVIOUS
  <2> QED
    BY <2>1, Zenon DEF KeyBytes
<1> HIDE DEF n
<1>2. (\A i \in 1..n : i \in 1..Len(w)) /\ \A i \in 1..k : n + i \in 1..Len(w)
  BY <1>1
<1>3. \A i \in 1..n : ByteAt(w, i) = ByteAt(r, i)
  BY <1>1, <1>2 DEF ByteAt, n
<1>4. \A i \in 1..k : ByteAt(w, n + i) = T[i] + 1
  BY <1>1, <1>2 DEF ByteAt
<1> QED
  BY <1>3, <1>4 DEF n, KeyAts

\* Two keys of an address differ first at the first byte at which their tails do.
LEMMA TailsTell ==
  ASSUME NEW w1, NEW w2, NEW r \in Seq(Byte), NEW T1, NEW T2, NEW k1 \in Nat, NEW k2 \in Nat,
         KeyBytes(w1, r, T1, k1), KeyBytes(w2, r, T2, k2),
         NEW j \in 1..k1, j <= k2, \A i \in 1..j - 1 : T1[i] = T2[i],
         T1[j] \in Nat, T2[j] \in Nat, T1[j] < T2[j]
  PROVE  Before(w1, w2)
<1> DEFINE n == Len(r)
<1>1. /\ w1 \in Seq(Byte) /\ w2 \in Seq(Byte) /\ n \in Nat
  BY DEF KeyBytes
<1>2. /\ \A i \in 1..n : ByteAt(w1, i) = ByteAt(r, i) /\ ByteAt(w2, i) = ByteAt(r, i)
      /\ \A i \in 1..k1 : ByteAt(w1, n + i) = T1[i] + 1
      /\ \A i \in 1..k2 : ByteAt(w2, n + i) = T2[i] + 1
  <2>1. KeyAts(w1, r, T1, k1) /\ KeyAts(w2, r, T2, k2)
    BY KeyAt
  <2> QED
    BY <2>1 DEF KeyAts
<1> HIDE DEF n
<1>3. j \in 1..k2 /\ n + j \in Nat \ {0} /\ \A i \in 1..j - 1 : i \in 1..k1 /\ i \in 1..k2
  BY <1>1
<1>4. ByteAt(w1, n + j) < ByteAt(w2, n + j)
  BY <1>2, <1>3
<1>5. ASSUME NEW i \in 1..(n + j) - 1 PROVE ByteAt(w1, i) = ByteAt(w2, i)
  <2>1. CASE i <= n
    <3>1. i \in 1..n
      BY <1>1, <2>1
    <3> QED
      BY <1>2, <3>1
  <2>2. CASE n < i
    <3> DEFINE d == i - n
    <3>1. d \in 1..j - 1 /\ i = n + d
      BY <1>1, <2>2
    <3> HIDE DEF d
    <3>2. d \in 1..k1 /\ d \in 1..k2 /\ T1[d] = T2[d]
      BY <1>3, <3>1
    <3> QED
      BY <1>2, <3>1, <3>2
  <2> QED
    BY <1>1, <2>1, <2>2
<1>6. FirstLess(w1, w2, n + j)
  BY <1>3, <1>4, <1>5 DEF FirstLess
<1> QED
  BY <1>1, <1>6, BeforeIs

LEMMA TailBytes ==
  ASSUME NEW m \in Mail, NEW f \in Fields
  PROVE  LET T == MailTail(m, f) IN
         /\ T[1] = 95 /\ T[2] = 95 /\ T[3] = m.id /\ T[4] = 95 /\ T[5] = 95 /\ T[6] = 48
         /\ T[7] = 95 /\ T[8] = 95 /\ T[9] = f[1]
BY DEF MailTail

LEMMA MarkerTailBytes ==
  LET T == MarkerTail IN
  T[1] = 95 /\ T[2] = 95 /\ T[3] = 57 /\ T[4] = 95 /\ T[5] = 95 /\ T[6] = 57
BY DEF MarkerTail

\* A mail's keys are before the marker of its address, and its last is not before
\* the others.
LEMMA MailBeforeMarker ==
  ASSUME NEW m \in Mail, NEW f \in Fields
  PROVE  Before(KeyOfMail(m, f), MarkerOf(m.rcpt))
<1> DEFINE r  == m.rcpt
           T1 == MailTail(m, f)
           T2 == MarkerTail
<1>1. r \in Seq(Byte) /\ m.id \in 48..57
  BY KeyTypes
<1>2. KeyBytes(KeyOfMail(m, f), r, T1, 9) /\ KeyBytes(MarkerOf(r), r, T2, 6)
  BY <1>1, MailBytes, MarkerBytes
<1>3. /\ T1[1] = 95 /\ T1[2] = 95 /\ T1[3] = m.id /\ T1[4] = 95 /\ T1[5] = 95 /\ T1[6] = 48
      /\ T2[1] = 95 /\ T2[2] = 95 /\ T2[3] = 57 /\ T2[4] = 95 /\ T2[5] = 95 /\ T2[6] = 57
  BY TailBytes, MarkerTailBytes
<1> HIDE DEF T1, T2, r
<1>4. CASE m.id # 57
  <2>1. \A i \in 1..3 - 1 : i = 1 \/ i = 2
    OBVIOUS
  <2>2. \A i \in 1..3 - 1 : T1[i] = T2[i]
    BY <1>3, <2>1
  <2>3. T1[3] \in Nat /\ T2[3] \in Nat /\ T1[3] < T2[3]
    BY <1>1, <1>3, <1>4
  <2>4. 3 \in 1..9 /\ 3 <= 6
    OBVIOUS
  <2> QED
    BY <1>1, <1>2, <2>2, <2>3, <2>4, TailsTell DEF r
<1>5. CASE m.id = 57
  <2>1. \A i \in 1..6 - 1 : i = 1 \/ i = 2 \/ i = 3 \/ i = 4 \/ i = 5
    OBVIOUS
  <2>2. \A i \in 1..6 - 1 : T1[i] = T2[i]
    BY <1>3, <1>5, <2>1
  <2>3. T1[6] \in Nat /\ T2[6] \in Nat /\ T1[6] < T2[6]
    BY <1>3
  <2>4. 6 \in 1..9 /\ 6 <= 6
    OBVIOUS
  <2> QED
    BY <1>1, <1>2, <2>2, <2>3, <2>4, TailsTell DEF r
<1> QED
  BY <1>4, <1>5

LastField == <<117>>

LEMMA LastIsLast ==
  ASSUME NEW m \in Mail, NEW f \in Fields
  PROVE  /\ LastField \in Fields
         /\ f = LastField \/ Before(KeyOfMail(m, f), KeyOfMail(m, LastField))
<1> DEFINE r  == m.rcpt
           T1 == MailTail(m, f)
           T2 == MailTail(m, LastField)
<1>1. r \in Seq(Byte) /\ LastField \in Fields
  BY KeyTypes DEF Fields, LastField
<1>2. KeyBytes(KeyOfMail(m, f), r, T1, 9) /\ KeyBytes(KeyOfMail(m, LastField), r, T2, 9)
  BY <1>1, MailBytes
<1>3. /\ T1[1] = T2[1] /\ T1[2] = T2[2] /\ T1[3] = T2[3] /\ T1[4] = T2[4] /\ T1[5] = T2[5]
      /\ T1[6] = T2[6] /\ T1[7] = T2[7] /\ T1[8] = T2[8] /\ T1[9] = f[1] /\ T2[9] = 117
  BY DEF MailTail, LastField
<1> HIDE DEF T1, T2, r
<1>4. f = LastField \/ f[1] = 101 \/ f[1] = 105
  BY DEF Fields, LastField
<1>5. ASSUME f[1] = 101 \/ f[1] = 105 PROVE Before(KeyOfMail(m, f), KeyOfMail(m, LastField))
  <2>1. \A i \in 1..9 - 1 : i = 1 \/ i = 2 \/ i = 3 \/ i = 4 \/ i = 5 \/ i = 6 \/ i = 7 \/ i = 8
    OBVIOUS
  <2>2. \A i \in 1..9 - 1 : T1[i] = T2[i]
    BY <1>3, <2>1
  <2>3. T1[9] \in Nat /\ T2[9] \in Nat /\ T1[9] < T2[9]
    BY <1>3, <1>5
  <2>4. 9 \in 1..9 /\ 9 <= 9
    OBVIOUS
  <2> QED
    BY <1>1, <1>2, <2>2, <2>3, <2>4, TailsTell
<1> QED
  BY <1>1, <1>4, <1>5

\* A key that starts with a and a separator is one of a, or of an address that
\* starts so too, or of a and half a separator.
LEMMA WhoseKey ==
  ASSUME NEW a \in Seq(Byte), a # <<>>, Tight(a), NEW r \in Seq(Byte), r # <<>>, NEW e \in Seq(Byte),
         StartsWith(a \o Separator, e), StartsWith(r \o Separator, e)
  PROVE  r = a \/ StartsWith(a \o Separator, r) \/ Len(r) = Len(a) + 1
<1> DEFINE n == Len(a)
           l == Len(r)
<1>1. n \in Nat /\ l \in Nat /\ n # 0 /\ l # 0
  OBVIOUS
<1>2. /\ n + 2 <= Len(e) /\ (\A i \in 1..n : e[i] = a[i]) /\ e[n + 1] = 95 /\ e[n + 2] = 95
      /\ l + 2 <= Len(e) /\ (\A i \in 1..l : e[i] = r[i]) /\ e[l + 1] = 95 /\ e[l + 2] = 95
  BY SeparatorBytes
<1>3. NoSeparator(a) /\ ~EndsHalf(a)
  BY DEF Tight
<1>4. /\ \A i \in 1..n - 1 : ~(a[i] = 95 /\ a[i + 1] = 95)
      /\ a[n] # 95
  BY <1>1, <1>3 DEF NoSeparator, EndsHalf, Underscore
<1> HIDE DEF n, l
<1>5. CASE l >= n + 2
  <2>1. n + 1 \in 1..l /\ n + 2 \in 1..l /\ \A i \in 1..n : i \in 1..l
    BY <1>1, <1>5
  <2>2. r[n + 1] = 95 /\ r[n + 2] = 95 /\ \A i \in 1..n : r[i] = a[i]
    BY <1>2, <2>1
  <2>3. StartsWith(a \o Separator, r)
    BY <1>5, <2>2, SeparatorBytes DEF n, l
  <2> QED
    BY <2>3
<1>6. CASE l = n
  <2>1. \A i \in 1..n : a[i] = r[i]
    BY <1>2, <1>6
  <2>2. a = r
    BY <1>6, <2>1, SameText DEF n, l
  <2> QED
    BY <2>2
<1>7. CASE l = n + 1
  BY <1>7 DEF n, l
<1>8. CASE l < n
  <2>1. l + 1 \in 1..n
    BY <1>1, <1>8
  <2>2. a[l + 1] = 95
    BY <1>2, <2>1
  <2>3. l + 1 # n
    BY <1>4, <2>2
  <2>4. l + 2 \in 1..n /\ l + 1 \in 1..n - 1 /\ (l + 1) + 1 = l + 2
    BY <1>1, <1>8, <2>3
  <2>5. a[l + 2] = 95
    BY <1>2, <2>4
  <2> QED
    BY <1>4, <2>2, <2>4, <2>5
<1> QED
  BY <1>1, <1>5, <1>6, <1>7, <1>8

\* The keys of an address and half a separator are behind the marker of the address.
LEMMA HalfIsBehind ==
  ASSUME NEW a \in Seq(Byte), NEW r \in Seq(Byte), Len(r) = Len(a) + 1, NEW e \in Seq(Byte),
         StartsWith(a \o Separator, e), StartsWith(r \o Separator, e)
  PROVE  ~Before(e, MarkerOf(a))
<1> DEFINE n == Len(a)
           M == MarkerOf(a)
           T == MarkerTail
<1>1. n \in Nat /\ Len(e) \in Nat
  OBVIOUS
<1>2. /\ n + 2 <= Len(e) /\ (\A i \in 1..n : e[i] = a[i]) /\ e[n + 1] = 95 /\ e[n + 2] = 95
      /\ (n + 1) + 2 <= Len(e) /\ e[(n + 1) + 2] = 95
  BY SeparatorBytes
<1>3. KeyBytes(M, a, T, 6)
  BY MarkerBytes
<1>4. T[1] = 95 /\ T[2] = 95 /\ T[3] = 57
  BY MarkerTailBytes
<1>5. M \in Seq(Byte)
  BY <1>3 DEF KeyBytes
<1>6. /\ \A i \in 1..n : ByteAt(M, i) = ByteAt(a, i)
      /\ \A i \in 1..6 : ByteAt(M, n + i) = T[i] + 1
  <2>1. KeyAts(M, a, T, 6)
    BY <1>3, KeyAt
  <2> QED
    BY <2>1 DEF KeyAts
<1>7. /\ \A i \in 1..n : ByteAt(e, i) = ByteAt(a, i)
      /\ ByteAt(e, n + 1) = 96 /\ ByteAt(e, n + 2) = 96 /\ ByteAt(e, n + 3) = 96
  <2>1. /\ \A i \in 1..n : i \in 1..Len(e)
        /\ n + 1 \in 1..Len(e) /\ n + 2 \in 1..Len(e) /\ n + 3 \in 1..Len(e) /\ (n + 1) + 2 = n + 3
    BY <1>1, <1>2
  <2> QED
    BY <1>2, <2>1 DEF ByteAt
<1> HIDE DEF n, M, T
<1>8. ByteAt(M, n + 1) = 96 /\ ByteAt(M, n + 2) = 96 /\ ByteAt(M, n + 3) = 58
  BY <1>4, <1>6
<1>9. ASSUME NEW i \in 1..(n + 3) - 1 PROVE ByteAt(e, i) = ByteAt(M, i)
  <2>1. i \in 1..n \/ i = n + 1 \/ i = n + 2
    BY <1>1
  <2> QED
    BY <1>6, <1>7, <1>8, <2>1
<1>10. n + 3 \in Nat \ {0}
  BY <1>1
<1>11. Before(e, M) <=> ByteAt(e, n + 3) < ByteAt(M, n + 3)
  <2> DEFINE j == n + 3
  <2>1. j \in Nat \ {0} /\ (\A i \in 1..j - 1 : ByteAt(e, i) = ByteAt(M, i)) /\ ByteAt(e, j) # ByteAt(M, j)
    BY <1>7, <1>8, <1>9, <1>10
  <2> HIDE DEF j
  <2>2. Before(e, M) <=> ByteAt(e, j) < ByteAt(M, j)
    BY <1>5, <2>1, BeforeAt
  <2> QED
    BY <2>2 DEF j
<1> QED
  BY <1>7, <1>8, <1>11 DEF M

\* The marker of a, a separator, an id passes for a mail of a.
LEMMA MarkerPasses ==
  ASSUME NEW a \in Seq(Byte), Tight(a), NEW c \in Byte, c # Underscore
  PROVE  GoesOn(a, MarkerOf((a \o Separator) \o <<c>>))
<1> DEFINE i  == <<c>>
           w1 == a \o Separator
           r  == w1 \o i
           w2 == r \o Separator
           w3 == (w2 \o Nines) \o Separator
           k  == w3 \o Nines
<1>1. k = MarkerOf(r) /\ i \in Seq(Byte) /\ Tight(i)
  BY ByteTight DEF MarkerOf
<1> HIDE DEF i
<1>2. <<>> \o a = a /\ <<>> \in Seq(Byte) /\ Separator \in Seq(Byte)
  BY SeparatorIs
<1>3. Behind(SplitStart, w1) = Fresh(Append(<<>>, a)) /\ w1 \in Seq(Byte) /\ Append(<<>>, a) \in Seq(Seq(Byte))
  BY FirstPartRead
<1>4. StartsWith(a, w1)
  BY <1>2, StartsSelf
<1> HIDE DEF w1
<1>5. r \in Seq(Byte) /\ StartsWith(a, r)
  BY <1>1, <1>3, <1>4, Joined, StartsMore
<1> DEFINE q2 == Append(Append(<<>>, a), i)
           q3 == Append(q2, Nines)
           q4 == Append(q3, Nines)
<1>6. Behind(SplitStart, w2) = Fresh(q2) /\ w2 \in Seq(Byte) /\ q2 \in Seq(Seq(Byte))
  BY <1>1, <1>3, PartRead
<1>7. StartsWith(a, w2)
  BY <1>2, <1>5, StartsMore
<1>8. Len(q2) = 2 /\ q2[1] = a
  BY <1>1, InOrder
<1> HIDE DEF r, w2, q2
<1>9. Behind(SplitStart, w3) = Fresh(q3) /\ w3 \in Seq(Byte) /\ q3 \in Seq(Seq(Byte))
  BY <1>6, SmallParts, PartRead
<1>10. w2 \o Nines \in Seq(Byte) /\ StartsWith(a, w2 \o Nines)
  BY <1>6, <1>7, SmallParts, Joined, StartsMore
<1>11. StartsWith(a, w3)
  BY <1>2, <1>10, StartsMore
<1>12. Len(q3) = 3 /\ q3[1] = a
  BY <1>6, <1>8, SmallParts, ThirdPart
<1> HIDE DEF w3, q3
<1>13. Parts(k) = q4
  BY <1>9, SmallParts, LastRead
<1>14. k \in Seq(Byte) /\ StartsWith(a, k)
  BY <1>9, <1>11, SmallParts, Joined, StartsMore
<1>15. Len(q4) = 4 /\ q4[1] = a
  BY <1>9, <1>12, SmallParts, FourthPart
<1> HIDE DEF k, q4
<1>16. IsPrefix(a, k)
  BY <1>14, PrefixIs
<1>17. GoesOn(a, k)
  BY <1>13, <1>15, <1>16 DEF GoesOn
<1> QED
  BY <1>1, <1>17 DEF r, w1, i

\* Where the marker of an intruder stands between a mail's last key and the marker of
\* its address, and stops the walk, so does a key of the intruder's mail.
LEMMA MarkerHides ==
  ASSUME NEW m \in Mail, NEW n \in Mail, Tight(m.rcpt), StartsWith(m.rcpt \o Separator, n.rcpt),
         Before(KeyOfMail(m, LastField), MarkerOf(n.rcpt)), Before(MarkerOf(n.rcpt), MarkerOf(m.rcpt)),
         ~GoesOn(m.rcpt, MarkerOf(n.rcpt))
  PROVE  Hides(n, m)
<1> DEFINE a  == m.rcpt
           r  == n.rcpt
           k  == KeyOfMail(m, LastField)
           e  == MarkerOf(r)
           M  == MarkerOf(a)
           f  == <<101>>
           kn == KeyOfMail(n, f)
           T  == MailTail(m, LastField)
           c  == m.id
<1>1. LastField \in Fields /\ f \in Fields
  BY DEF Fields, LastField
<1>2. /\ a \in Seq(Byte) /\ r \in Seq(Byte) /\ k \in Seq(Byte) /\ e \in Seq(Byte) /\ M \in Seq(Byte)
      /\ kn \in Seq(Byte) /\ c \in 48..57 /\ a # <<>> /\ r # <<>>
  BY <1>1, KeyTypes
<1>3. Before(kn, e)
  BY <1>1, MailBeforeMarker
<1>4. StartsWith(r \o Separator, e) /\ StartsWith(r \o Separator, kn)
  BY <1>1, KeyStarts
<1>5. KeyBytes(k, a, T, 9)
  BY <1>1, MailBytes
<1>6. /\ T[1] = 95 /\ T[2] = 95 /\ T[3] = c /\ T[4] = 95 /\ T[5] = 95 /\ T[6] = 48
      /\ T[7] = 95 /\ T[8] = 95 /\ T[9] = 117
  <2>1. LastField[1] = 117
    BY DEF LastField
  <2> QED
    BY <1>1, <2>1, TailBytes
<1>7. KeyBytes(e, r, MarkerTail, 6)
  BY <1>2, MarkerBytes
<1>8. Before(k, e) /\ Before(e, M) /\ ~GoesOn(a, e) /\ Tight(a) /\ StartsWith(a \o Separator, r)
  OBVIOUS
<1>9. r \o Separator \in Seq(Byte)
  BY <1>2, SeparatorIs, Joined
<1> HIDE DEF a, r, k, e, M, kn, T, c
<1>10. StartsWith(r \o Separator, k) \/ Before(k, kn)
  BY <1>2, <1>4, <1>8, <1>9, BeforeAll
<1>11. ASSUME StartsWith(r \o Separator, k) PROVE FALSE
  <2> DEFINE d == Len(a)
             l == Len(r)
  <2>1. d \in Nat /\ l \in Nat
    BY <1>2
  <2>2. /\ l + 2 <= Len(k) /\ (\A i \in 1..l : k[i] = r[i]) /\ k[l + 1] = 95 /\ k[l + 2] = 95
    BY <1>2, <1>11, SeparatorBytes
  <2>3. d + 2 <= l /\ (\A i \in 1..d : r[i] = a[i]) /\ r[d + 1] = 95 /\ r[d + 2] = 95
    BY <1>2, <1>8, SeparatorBytes
  <2>4. Len(k) = d + 9 /\ (\A i \in 1..9 : k[d + i] = T[i])
    BY <1>5 DEF KeyBytes
  <2>5. /\ Len(e) = l + 6 /\ (\A i \in 1..l : e[i] = r[i])
        /\ e[l + 1] = 95 /\ e[l + 2] = 95 /\ e[l + 3] = 57
    <3>1. Len(e) = l + 6 /\ (\A i \in 1..l : e[i] = r[i]) /\ \A i \in 1..6 : e[l + i] = MarkerTail[i]
      BY <1>7 DEF KeyBytes
    <3> QED
      BY <3>1, MarkerTailBytes
  <2> HIDE DEF d, l
  <2> DEFINE j == (l + 1) - d
  <2>6. j \in 3..8 /\ l + 1 = d + j /\ l + 2 = d + (j + 1) /\ j + 1 \in 1..9
    BY <2>1, <2>2, <2>3, <2>4
  <2> HIDE DEF j
  <2>7. T[j] = 95 /\ T[j + 1] = 95
    BY <2>2, <2>4, <2>6
  <2>8. j = 4 \/ j = 7
    <3>1. j = 3 \/ j = 4 \/ j = 5 \/ j = 6 \/ j = 7 \/ j = 8
      BY <2>6
    <3>2. T[3] # 95
      BY <1>2, <1>6
    <3>3. j # 3
      BY <2>7, <3>2
    <3>4. T[6] # 95 /\ T[9] # 95
      BY <1>6
    <3>5. j # 5
      <4>1. j = 5 => j + 1 = 6
        OBVIOUS
      <4> QED
        BY <2>7, <3>4, <4>1
    <3>6. j # 6
      BY <2>7, <3>4
    <3>7. j # 8
      <4>1. j = 8 => j + 1 = 9
        OBVIOUS
      <4> QED
        BY <2>7, <3>4, <4>1
    <3> QED
      BY <3>1, <3>3, <3>5, <3>6, <3>7
  <2>9. CASE j = 4
    <3>1. l = d + 3
      BY <2>1, <2>6, <2>9
    <3>2. r[d + 3] = c
      <4>1. d + 3 \in 1..l /\ 3 \in 1..9
        BY <2>1, <3>1
      <4> QED
        BY <1>6, <2>2, <2>4, <4>1
    <3> DEFINE s == (a \o Separator) \o <<c>>
               U == <<95, 95, c>>
    <3>3. c \in Byte /\ c # Underscore
      BY <1>2 DEF Byte, Underscore
    <3>4. U[1] = 95 /\ U[2] = 95 /\ U[3] = c
      OBVIOUS
    <3>5. KeyBytes(s, a, U, 3)
      <4> HIDE DEF U
      <4> QED
        BY <1>2, <3>3, <3>4, ThreeAdded
    <3> HIDE DEF s, U
    <3>6. /\ s \in Seq(Byte) /\ Len(s) = d + 3 /\ (\A i \in 1..d : s[i] = a[i])
          /\ \A i \in 1..3 : s[d + i] = U[i]
      BY <3>5 DEF KeyBytes, d
    <3>7. s[d + 1] = 95 /\ s[d + 2] = 95 /\ s[d + 3] = c
      BY <3>4, <3>6
    <3>8. \A i \in 1..l : i \in 1..d \/ i = d + 1 \/ i = d + 2 \/ i = d + 3
      BY <2>1, <3>1
    <3>9. \A i \in 1..l : r[i] = s[i]
      BY <2>3, <3>2, <3>6, <3>7, <3>8
    <3>10. r = s
      BY <1>2, <3>1, <3>6, <3>9, SameText DEF l
    <3>11. GoesOn(a, MarkerOf(s))
      BY <1>2, <1>8, <3>3, MarkerPasses DEF s
    <3> QED
      BY <1>8, <3>10, <3>11 DEF e
  <2>10. CASE j = 7
    <3>1. l = d + 6
      BY <2>1, <2>6, <2>10
    <3>2. k[l + 3] = 117
      <4>1. 9 \in 1..9 /\ l + 3 = d + 9
        BY <2>1, <3>1
      <4> QED
        BY <1>6, <2>4, <4>1
    <3> DEFINE x == l + 3
    <3>3. x \in Nat \ {0} /\ x \in 1..Len(k) /\ x \in 1..Len(e)
      BY <2>1, <2>4, <2>5, <3>1
    <3>4. ByteAt(k, x) = 118 /\ ByteAt(e, x) = 58
      BY <2>5, <3>2, <3>3 DEF ByteAt
    <3>5. ASSUME NEW i \in 1..x - 1 PROVE ByteAt(k, i) = ByteAt(e, i)
      <4>1. i \in 1..l \/ i = l + 1 \/ i = l + 2
        BY <2>1
      <4>2. k[i] = e[i]
        BY <2>2, <2>5, <4>1
      <4>3. i \in 1..Len(k) /\ i \in 1..Len(e)
        BY <2>1, <2>4, <2>5, <3>1
      <4> QED
        BY <4>2, <4>3 DEF ByteAt
    <3> HIDE DEF x
    <3>6. Before(k, e) <=> ByteAt(k, x) < ByteAt(e, x)
      <4>1. ByteAt(k, x) # ByteAt(e, x)
        BY <3>4
      <4> QED
        BY <1>2, <3>3, <3>5, <4>1, BeforeAt
    <3> QED
      BY <1>8, <3>4, <3>6
  <2> QED
    BY <2>8, <2>9, <2>10
<1>12. Before(k, kn)
  BY <1>10, <1>11
<1>13. Before(kn, M)
  BY <1>2, <1>3, <1>8, BeforeTransitive
<1> QED
  BY <1>1, <1>12, <1>13 DEF Hides, k, kn, M, a, LastField

-------------------------------------------------------------------------------
(***************************************************************************)
(* What the walk sees: the keys behind the marker of a, and of these the    *)
(* ones all of whose ends come before.                                     *)
(***************************************************************************)
KeysBehind(a) == {k \in StoredKeys : Before(k, MarkerOf(a))}
Ends(a) == {k \in KeysBehind(a) : ~GoesOn(a, k)}
Seen(a) == {q \in KeysBehind(a) : \A e \in Ends(a) : Before(e, q)}

Intruders(a) == {n \in stored : IsPrefix(a \o Separator, n.rcpt)}
Phantoms(a) == {Parts(MarkerOf(n.rcpt))[2] : n \in Intruders(a)}
Unhidden(a) == {m \in stored : m.rcpt = a /\ \A n \in Intruders(a) : ~Hides(n, m)}
Visible(a) == {<<m.id>> : m \in Unhidden(a)}

LEMMA FoundIs ==
  ASSUME NEW a
  PROVE  /\ FoundFor(a) \subseteq {Parts(k)[2] : k \in Seen(a)}
         /\ MarkerOf(a) \in StoredKeys /\ ~Before(MarkerOf(a), MarkerOf(a)) =>
              \A k \in Seen(a) : Parts(k)[2] \in FoundFor(a)
BY DEF FoundFor, Seen, Ends, KeysBehind

LEMMA WhichKey ==
  ASSUME stored \subseteq Mail, NEW e \in StoredKeys
  PROVE  /\ e \in Seq(Byte)
         /\ \E n \in stored : (\E f \in Fields : e = KeyOfMail(n, f)) \/ e = MarkerOf(n.rcpt)
<1>1. \E n \in stored : (\E f \in Fields : e = KeyOfMail(n, f)) \/ e = MarkerOf(n.rcpt)
  BY DEF StoredKeys
<1>2. \A n \in stored : (\A f \in Fields : KeyOfMail(n, f) \in Seq(Byte)) /\ MarkerOf(n.rcpt) \in Seq(Byte)
  BY KeyTypes
<1> QED
  BY <1>1, <1>2

LEMMA KeysStored ==
  ASSUME NEW m \in stored
  PROVE  MarkerOf(m.rcpt) \in StoredKeys /\ \A f \in Fields : KeyOfMail(m, f) \in StoredKeys
BY DEF StoredKeys

LEMMA AddressTypes ==
  ASSUME NEW a \in Recipients
  PROVE  a \in Seq(Byte) /\ a # <<>> /\ a \o Separator \in Seq(Byte) /\ MarkerOf(a) \in Seq(Byte)
<1>1. a \in Seq(Byte) /\ a # <<>> /\ Separator \in Seq(Byte) /\ Nines \in Seq(Byte)
  BY KeysAssumption, SeparatorIs, SmallParts
<1>2. a \o Separator \in Seq(Byte)
  BY <1>1, Joined
<1>3. MarkerOf(a) \in Seq(Byte)
  BY <1>1, Joined DEF MarkerOf
<1> QED
  BY <1>1, <1>2, <1>3

LEMMA IntruderIs ==
  ASSUME stored \subseteq Mail, NEW a \in Recipients, NEW n \in stored
  PROVE  n \in Intruders(a) <=> StartsWith(a \o Separator, n.rcpt)
<1>1. n.rcpt \in Seq(Byte)
  BY KeyTypes
<1> QED
  BY <1>1, AddressTypes, PrefixIs DEF Intruders

\* An address that holds a separator finds nothing.
LEMMA NothingFound ==
  ASSUME stored \subseteq Mail, NEW a \in Recipients, ~Plain(a)
  PROVE  FoundFor(a) = {}
<1>1. ~Tight(a)
  BY AddressTypes, PlainIs
<1>2. ASSUME NEW q \in Seen(a) PROVE FALSE
  <2>1. q \in KeysBehind(a) /\ q \in StoredKeys
    BY <1>2 DEF Seen, KeysBehind
  <2>2. q \in Seq(Byte)
    BY <2>1, WhichKey
  <2>3. ~GoesOn(a, q)
    BY <1>1, <2>2, AddressTypes, TakenForOwn
  <2>4. Before(q, q)
    BY <1>2, <2>1, <2>3 DEF Seen, Ends
  <2> QED
    BY <2>2, <2>4, BeforeIrreflexive
<1> QED
  BY <1>2, FoundIs

\* Whose a key is that lies between the last key of a mail of a and the marker of a.
LEMMA KeyBetween ==
  ASSUME stored \subseteq Mail, NEW a \in Recipients, Tight(a), NEW n \in stored, NEW e \in Seq(Byte),
         StartsWith(a \o Separator, e), StartsWith(n.rcpt \o Separator, e), Before(e, MarkerOf(a))
  PROVE  n.rcpt = a \/ n \in Intruders(a)
<1>1. n.rcpt \in Seq(Byte) /\ n.rcpt # <<>>
  BY KeyTypes
<1>2. n.rcpt = a \/ StartsWith(a \o Separator, n.rcpt) \/ Len(n.rcpt) = Len(a) + 1
  BY <1>1, AddressTypes, WhoseKey
<1>3. Len(n.rcpt) # Len(a) + 1
  BY <1>1, AddressTypes, HalfIsBehind
<1> QED
  BY <1>2, <1>3, IntruderIs

\* A mail of a that none hides is found.
LEMMA VisibleFound ==
  ASSUME stored \subseteq Mail, NEW a \in Recipients, Plain(a), NEW m \in Unhidden(a)
  PROVE  <<m.id>> \in FoundFor(a)
<1> DEFINE k == KeyOfMail(m, LastField)
           M == MarkerOf(a)
           p == a \o Separator
<1>1. m \in stored /\ m \in Mail /\ m.rcpt = a /\ LastField \in Fields
  <2>1. m \in stored /\ m \in Mail /\ m.rcpt = a
    BY DEF Unhidden
  <2>2. LastField \in Fields
    BY DEF LastField, Fields
  <2> QED
    BY <2>1, <2>2
<1>2. Tight(a) /\ a \in Seq(Byte) /\ p \in Seq(Byte) /\ M \in Seq(Byte) /\ k \in Seq(Byte)
  BY <1>1, AddressTypes, PlainIs, KeyTypes
<1>3. k \in StoredKeys /\ M \in StoredKeys
  BY <1>1, KeysStored
<1>4. Before(k, M) /\ GoesOn(a, k) /\ Parts(k)[2] = <<m.id>>
  BY <1>1, <1>2, MailBeforeMarker, OwnGoesOn, MailParts
<1>5. StartsWith(p, k) /\ StartsWith(p, M)
  BY <1>1, KeyStarts
<1>6. ~Before(M, M)
  BY <1>2, BeforeIrreflexive
<1>7. k \in KeysBehind(a)
  BY <1>3, <1>4 DEF KeysBehind
<1>8. ASSUME NEW e \in Ends(a), ~Before(e, k) PROVE FALSE
  <2>1. e \in StoredKeys /\ Before(e, M) /\ ~GoesOn(a, e)
    BY <1>8 DEF Ends, KeysBehind
  <2>2. e \in Seq(Byte)
    BY <2>1, WhichKey
  <2>3. e # k
    BY <1>4, <2>1
  <2>4. Before(k, e)
    <3> HIDE DEF k
    <3> QED
      BY <1>2, <1>8, <2>2, <2>3, BeforeTotal
  <2>5. StartsWith(p, e)
    <3> HIDE DEF k, p, M
    <3> QED
      BY <1>2, <1>5, <2>1, <2>2, <2>4, Between
  <2>6. PICK n \in stored : (\E f \in Fields : e = KeyOfMail(n, f)) \/ e = MarkerOf(n.rcpt)
    BY <2>1, WhichKey
  <2>7. n \in Mail /\ StartsWith(n.rcpt \o Separator, e)
    BY <2>6, KeyStarts
  <2>8. n.rcpt = a \/ n \in Intruders(a)
    BY <1>2, <2>1, <2>2, <2>5, <2>7, KeyBetween
  <2>9. CASE n.rcpt = a
    <3>1. e # MarkerOf(n.rcpt)
      BY <1>6, <2>1, <2>9
    <3>2. \A f \in Fields : e # KeyOfMail(n, f)
      BY <1>2, <2>1, <2>7, <2>9, OwnGoesOn
    <3> QED
      BY <2>6, <3>1, <3>2
  <2>10. CASE n \in Intruders(a)
    <3>1. ~Hides(n, m)
      BY <1>8, <2>10 DEF Unhidden
    <3>2. CASE \E f \in Fields : e = KeyOfMail(n, f)
      <4>1. Hides(n, m)
        BY <1>1, <2>1, <2>4, <3>2 DEF Hides, LastField
      <4> QED
        BY <3>1, <4>1
    <3>3. CASE e = MarkerOf(n.rcpt)
      <4>1. StartsWith(m.rcpt \o Separator, n.rcpt) /\ Tight(m.rcpt)
        BY <1>1, <1>2, <2>6, <2>10, IntruderIs
      <4>2. /\ Before(KeyOfMail(m, LastField), MarkerOf(n.rcpt))
            /\ Before(MarkerOf(n.rcpt), MarkerOf(m.rcpt)) /\ ~GoesOn(m.rcpt, MarkerOf(n.rcpt))
        BY <1>1, <2>1, <2>4, <3>3
      <4>3. Hides(n, m)
        BY <1>1, <2>7, <4>1, <4>2, MarkerHides
      <4> QED
        BY <3>1, <4>3
    <3> QED
      BY <2>6, <3>2, <3>3
  <2> QED
    BY <2>8, <2>9, <2>10
<1>9. k \in Seen(a)
  BY <1>7, <1>8 DEF Seen
<1> QED
  BY <1>3, <1>4, <1>6, <1>9, FoundIs

\* What is found is a mail of a that none hides, or passes for one.
LEMMA SeenVisible ==
  ASSUME stored \subseteq Mail, NEW a \in Recipients, Plain(a), NEW q \in Seen(a)
  PROVE  Parts(q)[2] \in Visible(a) \cup Phantoms(a)
<1> DEFINE M == MarkerOf(a)
<1>1. Tight(a) /\ a \in Seq(Byte) /\ a # <<>> /\ M \in Seq(Byte) /\ a \o Separator \in Seq(Byte)
  BY AddressTypes, PlainIs
<1>2. q \in StoredKeys /\ Before(q, M) /\ q \in KeysBehind(a) /\ \A e \in Ends(a) : Before(e, q)
  BY DEF Seen, KeysBehind
<1>3. q \in Seq(Byte)
  BY <1>2, WhichKey
<1>4. GoesOn(a, q)
  BY <1>2, <1>3, BeforeIrreflexive DEF Ends
<1>5. StartsWith(a \o Separator, q)
  BY <1>1, <1>3, <1>4, TakenForOwn
<1>6. PICK m \in stored : (\E f \in Fields : q = KeyOfMail(m, f)) \/ q = MarkerOf(m.rcpt)
  BY <1>2, WhichKey
<1>7. m \in Mail /\ StartsWith(m.rcpt \o Separator, q)
  BY <1>6, KeyStarts
<1>8. m.rcpt = a \/ m \in Intruders(a)
  BY <1>1, <1>2, <1>3, <1>5, <1>7, KeyBetween
<1>9. CASE m \in Intruders(a)
  <2>1. StartsWith(a \o Separator, m.rcpt)
    BY <1>9, IntruderIs
  <2>2. \A f \in Fields : q # KeyOfMail(m, f)
    BY <1>1, <1>4, <1>7, <2>1, IntruderStops
  <2>3. q = MarkerOf(m.rcpt)
    BY <1>6, <2>2
  <2> QED
    BY <1>9, <2>3 DEF Phantoms
<1>10. CASE m.rcpt = a
  <2>1. q # MarkerOf(m.rcpt)
    BY <1>1, <1>2, <1>10, BeforeIrreflexive
  <2>2. PICK f \in Fields : q = KeyOfMail(m, f)
    BY <1>6, <2>1
  <2>3. Parts(q)[2] = <<m.id>>
    BY <1>1, <1>7, <1>10, <2>2, MailParts
  <2> DEFINE k == KeyOfMail(m, LastField)
  <2>4. LastField \in Fields /\ k \in Seq(Byte)
    BY <1>7, LastIsLast, KeyTypes
  <2>5. q = k \/ Before(q, k)
    BY <1>7, <2>2, LastIsLast
  <2>6. ASSUME NEW n \in Intruders(a), Hides(n, m) PROVE FALSE
    <3>1. PICK g \in Fields : Before(k, KeyOfMail(n, g)) /\ Before(KeyOfMail(n, g), M)
      BY <1>10, <2>6 DEF Hides, LastField
    <3> DEFINE e == KeyOfMail(n, g)
    <3>2. n \in stored /\ n \in Mail
      BY <2>6 DEF Intruders
    <3>3. StartsWith(a \o Separator, n.rcpt)
      BY <2>6, <3>2, IntruderIs
    <3>4. e \in StoredKeys /\ e \in Seq(Byte) /\ ~GoesOn(a, e)
      BY <1>1, <3>2, <3>3, KeysStored, KeyTypes, IntruderStops
    <3>5. Before(k, e) /\ Before(e, M)
      BY <3>1
    <3> HIDE DEF e, k
    <3>6. Before(e, q)
      BY <1>2, <3>4, <3>5 DEF Ends, KeysBehind
    <3>7. Before(k, q)
      BY <1>3, <2>4, <3>4, <3>5, <3>6, BeforeTransitive
    <3>8. Before(q, q)
      BY <1>3, <2>4, <2>5, <3>7, BeforeTransitive
    <3> QED
      BY <1>3, <3>8, BeforeIrreflexive
  <2>7. m \in Unhidden(a)
    BY <1>10, <2>6 DEF Unhidden
  <2> QED
    BY <2>3, <2>7 DEF Visible
<1> QED
  BY <1>8, <1>9, <1>10

\* What a search finds, at the moment it does.
LEMMA FoundOwn ==
  ASSUME stored \subseteq Mail, NEW a \in Recipients
  PROVE  IF Plain(a) THEN Visible(a) \subseteq FoundFor(a) /\ FoundFor(a) \subseteq Visible(a) \cup Phantoms(a)
         ELSE FoundFor(a) = {}
<1>1. CASE Plain(a)
  <2>1. Visible(a) \subseteq FoundFor(a)
    BY <1>1, VisibleFound DEF Visible
  <2>2. FoundFor(a) \subseteq Visible(a) \cup Phantoms(a)
    BY <1>1, FoundIs, SeenVisible
  <2> QED
    BY <1>1, <2>1, <2>2
<1>2. CASE ~Plain(a)
  BY <1>2, NothingFound
<1> QED
  BY <1>1, <1>2

FoundIsRight ==
  asked # <<>> => IF Plain(asked) THEN /\ Visible(asked) \subseteq found
                                       /\ found \subseteq Visible(asked) \cup Phantoms(asked)
                  ELSE found = {}

LEMMA VisibleIs == SearchFindsOwn <=> FoundIsRight
<1> DEFINE own == {m \in stored : m.rcpt = asked}
           seen == {q \in own : \A n \in Intruders(asked) : ~Hides(n, q)}
<1>1. seen = Unhidden(asked)
  BY DEF Unhidden
<1>2. {<<m.id>> : m \in seen} = Visible(asked)
  BY <1>1 DEF Visible
<1> QED
  BY <1>2 DEF SearchFindsOwn, FoundIsRight, Phantoms, Intruders

MailsAreStored == stored \subseteq Mail
KeysInv == MailsAreStored /\ FoundIsRight

\* A search finds every mail of its address that no mail hides, and nothing else but
\* what passes for a mail (emailsForAddress:withBlock:).
THEOREM SearchFindsItsOwn == KeysSpec => []SearchFindsOwn
<1>1. KeysInit => KeysInv
  <2> SUFFICES ASSUME KeysInit PROVE KeysInv
    OBVIOUS
  <2>1. stored \subseteq Mail
    <3>1. PICK q \in SeqOf(Mail, MaxStored) : stored = Range(q)
      BY DEF KeysInit, Mail
    <3>2. \A x \in DOMAIN q : q[x] \in Mail
      BY <3>1 DEF SeqOf
    <3> QED
      BY <3>1, <3>2 DEF Range
  <2>2. asked = <<>>
    BY DEF KeysInit
  <2> QED
    BY <2>1, <2>2 DEF KeysInv, MailsAreStored, FoundIsRight
<1>2. KeysInv /\ [KeysNext]_keysVars => KeysInv'
  <2> SUFFICES ASSUME KeysInv, [KeysNext]_keysVars PROVE KeysInv'
    OBVIOUS
  <2>1. CASE UNCHANGED keysVars
    <3>1. asked' = asked /\ stored' = stored /\ found' = found
      BY <2>1 DEF keysVars
    <3>2. Visible(asked)' = Visible(asked) /\ Phantoms(asked)' = Phantoms(asked)
      BY <3>1 DEF Visible, Unhidden, Phantoms, Intruders
    <3> QED
      BY <3>1, <3>2 DEF KeysInv, MailsAreStored, FoundIsRight
  <2>2. ASSUME NEW addr \in Recipients, Asks(addr) PROVE KeysInv'
    <3>1. asked' = addr /\ found' = FoundFor(addr) /\ stored' = stored
      BY <2>2 DEF Asks
    <3>2. stored \subseteq Mail
      BY DEF KeysInv, MailsAreStored
    <3>3. IF Plain(addr) THEN Visible(addr) \subseteq FoundFor(addr) /\ FoundFor(addr) \subseteq Visible(addr) \cup Phantoms(addr)
          ELSE FoundFor(addr) = {}
      BY <3>2, FoundOwn
    <3>4. Visible(asked)' = Visible(addr) /\ Phantoms(asked)' = Phantoms(addr)
      <4>1. Intruders(asked)' = Intruders(addr)
        BY <3>1 DEF Intruders
      <4>2. Unhidden(asked)' = Unhidden(addr)
        BY <3>1, <4>1 DEF Unhidden
      <4> QED
        BY <4>1, <4>2 DEF Visible, Phantoms
    <3>5. FoundIsRight'
      BY <3>1, <3>3, <3>4 DEF FoundIsRight
    <3> QED
      BY <3>1, <3>2, <3>5 DEF KeysInv, MailsAreStored
  <2> QED
    BY <2>1, <2>2 DEF KeysNext
<1>3. KeysInv => SearchFindsOwn
  BY VisibleIs DEF KeysInv
<1> QED
  BY <1>1, <1>2, <1>3, PTL DEF KeysSpec
===============================================================================
