------------------------------- MODULE Geocoder -------------------------------
(***************************************************************************)
(* SMGeocoder's __geocode:handler: (SMGeocoder.m): finding the place of an *)
(* address.  One block of the concurrent queue for every connection reads  *)
(* the cache key by key, asks hostip.info for names, falls back on the     *)
(* address's country, asks Google for the coordinates of the names, and    *)
(* puts six keys.  Blocks for the same address run at once, and the        *)
(* process may end between any two puts; the cache stays.                  *)
(***************************************************************************)
EXTENDS Naturals, Sequences, FiniteSets

CONSTANTS
  Geocode,      \* the blocks: one for every call of geocode:handler:
  Address,      \* the addresses asked for
  nil,          \* the nil string
  Allocated,    \* the country of an address's allocation
  MaxRestarts   \* bound: how often the process ends

ASSUME GeocodeAssumption ==
  /\ MaxRestarts \in Nat /\ Address # {}
  /\ nil \notin Geocode \cup {""} /\ Allocated \notin Geocode \cup {nil}

VARIABLES
  cache,    \* cache[a][key]: the value under "a__key" in LevelDB
  block,    \* block[g]: a running block and its local variables
  met,      \* history: the addresses that two blocks missed and put
  torn,     \* history: those whose entry a block was ended in the middle of
  restarts

geocoderVars == <<cache, block, met, torn, restarts>>

Names == {"city", "state", "country", "code"}
Coordinates == {"latitude", "longitude"}

\* Fault: the coordinates come first.
KeysPlaceFirst == <<"latitude", "longitude", "city", "state", "country", "code">>

\* The order of the reads and of the puts.
Keys == <<"city", "state", "country", "code", "latitude", "longitude">>

\* A name is told apart by the block it was learnt by.  nil is put as the empty
\* string, and an empty string read back is not nil; it asks for nothing.
Name == Geocode \cup {nil, "", Allocated}
NamesFound == [Names -> Name]

\* Fault: the code is asked for too.
QuestionWithCode(n) == [k \in Names |-> IF n[k] = nil THEN "" ELSE n[k]]

\* What Google is asked for: a latitude and a longitude stand for the question.
Question(n) == [k \in Names \ {"code"} |-> IF n[k] = nil THEN "" ELSE n[k]]

Place == [Names \ {"code"} -> Name \ {nil}]

\* nil is none of those.
ASSUME PlaceAssumption == nil \notin Place

Stored(x) == IF x = nil THEN "" ELSE x

Idle == [at |-> "waiting", addr |-> CHOOSE a \in Address : TRUE, next |-> 1,
         got |-> [k \in Names |-> nil], place |-> [k \in Coordinates |-> nil]]

GeocoderInit ==
  /\ cache = [a \in Address |-> [k \in Names \cup Coordinates |-> nil]]
  /\ block = [g \in Geocode |-> Idle]
  /\ met = {}
  /\ torn = {}
  /\ restarts = 0

At(g, where) == block[g].at = where
Known(a) == \A k \in Coordinates : cache[a][k] # nil
Rests == UNCHANGED <<cache, met, torn, restarts>>

\* geocode:handler: dispatches the block, for an address that is not private.
Geocodes(g, a) ==
  /\ At(g, "waiting")
  /\ block' = [block EXCEPT ![g] = [Idle EXCEPT !.at = "reading", !.addr = a]]
  /\ Rests

\* stringForKey: of the next key.
ReadKey(g) ==
  /\ At(g, "reading") /\ block[g].next <= Len(Keys)
  /\ LET k == Keys[block[g].next]
         v == cache[block[g].addr][k]
     IN  block' = [block EXCEPT ![g].next = @ + 1,
                     ![g].got = IF k \in Names THEN [@ EXCEPT ![k] = v] ELSE @,
                     ![g].place = IF k \in Names THEN @ ELSE [@ EXCEPT ![k] = v]]
  /\ Rests

\* Fault: one coordinate is enough.
HasOne(g) == \E k \in Coordinates : block[g].place[k] # nil

HasPlace(g) == \A k \in Coordinates : block[g].place[k] # nil

\* The cache knows: the handler is called with what was read.
CacheHit(g) ==
  /\ At(g, "reading") /\ block[g].next > Len(Keys) /\ HasPlace(g)
  /\ block' = [block EXCEPT ![g].at = "hit"]
  /\ Rests

\* A name and what is cut off it, before and after hostip.info's answer, which may
\* lack the name, call it unknown or leave it empty.  A cut that is not in the name
\* leaves what was there, but in nil it is found at 0, and gives nil.
CutOff(g, name, part, newName, newPart, cuts) ==
  \/ newName = name /\ newPart = IF name = nil THEN nil ELSE part
  \/ newName = nil /\ newPart = nil
  \/ newName \in {g, ""} /\ newPart \in {part} \cup cuts

\* The state is cut off the city and the code, two characters, off the country.
HostInfo(g, n) ==
  {m \in NamesFound : /\ CutOff(g, n.city, n.state, m.city, m.state, {g, ""})
                      /\ CutOff(g, n.country, n.code, m.country, m.code, {g})}

\* Without a country, the code of the address's allocation, which may be nil, and
\* the name of that code, which may not be known.
WithAllocation(n) ==
  IF n.country \in {nil, ""}
  THEN {[n EXCEPT !.country = Allocated, !.code = Allocated]}
       \cup {[n EXCEPT !.country = nil, !.code = c] : c \in {Allocated, nil}}
  ELSE {n}

\* hostip.info does not answer: the block returns, without asking further.
NoHostInfo(g) ==
  /\ At(g, "reading") /\ block[g].next > Len(Keys) /\ ~HasPlace(g)
  /\ block' = [block EXCEPT ![g].at = "unknown"]
  /\ Rests

AskHostInfo(g) ==
  /\ At(g, "reading") /\ block[g].next > Len(Keys) /\ ~HasPlace(g)
  /\ \E n \in HostInfo(g, block[g].got) : \E m \in WithAllocation(n) :
       block' = [block EXCEPT ![g].at = "asking", ![g].got = m]
  /\ Rests

\* Google is asked if there is a name to ask for, and may know nothing.
AskGoogle(g) ==
  LET asked == Question(block[g].got) IN
  /\ At(g, "asking")
  /\ \/ /\ \E k \in DOMAIN asked : asked[k] # ""
        /\ block' = [block EXCEPT ![g].at = "putting", ![g].next = 1,
                                  ![g].place = [k \in Coordinates |-> asked]]
     \/ block' = [block EXCEPT ![g].at = "unknown"]
  /\ Rests

\* Fault: nothing is put for an empty name.
EnteredIfNamed(entry, k, v) == IF k \in Names /\ v = "" THEN entry ELSE [entry EXCEPT ![k] = v]

Entered(entry, k, v) == [entry EXCEPT ![k] = v]

\* setString: of the next key.
PutKey(g) ==
  LET k == Keys[block[g].next]
      a == block[g].addr
      v == IF k \in Names THEN Stored(block[g].got[k]) ELSE block[g].place[k]
  IN /\ At(g, "putting") /\ block[g].next <= Len(Keys)
     /\ cache' = [cache EXCEPT ![a] = Entered(@, k, v)]
     /\ block' = [block EXCEPT ![g].next = @ + 1]
     /\ met' = IF \/ \E h \in Geocode \ {g} : block[h].addr = a /\ At(h, "putting")
                  \/ Known(a) /\ block[g].next = 1
               THEN met \cup {a} ELSE met
     /\ UNCHANGED <<torn, restarts>>

\* The handler is called.
PutsDone(g) ==
  /\ At(g, "putting") /\ block[g].next > Len(Keys)
  /\ block' = [block EXCEPT ![g].at = "found"]
  /\ Rests

\* Some of its keys are put, and some are not.
Writing(g) == At(g, "putting") /\ block[g].next \in 2..Len(Keys)

\* The process ends, and another begins with the same cache.
GeocoderRestarts ==
  /\ restarts < MaxRestarts
  /\ restarts' = restarts + 1
  /\ block' = [g \in Geocode |->
                 IF At(g, "waiting") THEN block[g] ELSE [Idle EXCEPT !.at = "lost"]]
  /\ torn' = torn \cup {block[g].addr : g \in {h \in Geocode : Writing(h)}}
  /\ UNCHANGED <<cache, met>>

GeocoderNext ==
  \/ \E g \in Geocode :
       \/ \E a \in Address : Geocodes(g, a)
       \/ ReadKey(g) \/ CacheHit(g) \/ NoHostInfo(g) \/ AskHostInfo(g)
       \/ AskGoogle(g) \/ PutKey(g) \/ PutsDone(g)
  \/ GeocoderRestarts

GeocoderSpec == GeocoderInit /\ [][GeocoderNext]_geocoderVars

-------------------------------------------------------------------------------
\* Type invariant.
Block == [
  at    : {"waiting", "reading", "hit", "asking", "putting", "found", "unknown", "lost"},
  addr  : Address,
  next  : 1..Len(Keys) + 1,
  got   : NamesFound,
  place : [Coordinates -> Place \cup {nil}]]

GeocoderTypeOK ==
  /\ cache = [a \in Address |-> [k \in Names \cup Coordinates |-> cache[a][k]]]
  /\ \A a \in Address :
       /\ \A k \in Names : cache[a][k] \in Name
       /\ \A k \in Coordinates : cache[a][k] \in Place \cup {nil}
  /\ block \in [Geocode -> Block]
  /\ met \subseteq Address /\ torn \subseteq Address
  /\ restarts \in 0..MaxRestarts

\* An entry with both coordinates, which later blocks take for a hit, has all
\* its names, wherever the process was ended: the coordinates are put last
\* (__geocode:handler:).
KnownIsComplete ==
  \A a \in Address : Known(a) => \A k \in Names : cache[a][k] # nil

\* Its coordinates are those of its names, however many blocks were ended half
\* way through their puts and whatever names a later one took over from them,
\* unless two blocks missed the entry at once and both put it.
KnownIsConsistent ==
  \A a \in Address \ met : Known(a) =>
    \A k \in Coordinates : cache[a][k] = Question([n \in Names |-> cache[a][n]])

\* A block that finds the coordinates while another puts the entry may miss
\* names, because it reads the names first, but no name it hands over belongs
\* to another place, unless two blocks put the entry or one was ended in the
\* middle of its puts: then a name of that one may have been read before the
\* next one put its own.
HitIsConsistent ==
  \A g \in Geocode : At(g, "hit") /\ block[g].addr \notin met \cup torn =>
    \A k \in Coordinates :
      /\ block[g].place[k] # nil
      /\ \A n \in Names \ {"code"} : block[g].got[n] \in {nil, block[g].place[k][n]}

\* The cache may be read while it is written, and after the writer was ended:
\* __geocode:handler: relies on this when it takes two coordinates for a hit.
CacheIsSound ==
  /\ KnownIsComplete
  /\ KnownIsConsistent
  /\ HitIsConsistent
===============================================================================
